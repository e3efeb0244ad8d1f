---------------------------- MODULE MCSimulator -----------------------------
(***************************************************************************)
(* The simulator on two circuits: a loop, as Handshake functions have it   *)
(* after the conversion from control flow, and a conditional expression    *)
(* that uses the remaining units.  The channels named are buffered in      *)
(* every way that leaves an OEHB on each cycle of the circuit.             *)
(***************************************************************************)
EXTENDS Simulator, TLC

CONSTANTS Loops,       \* operation of the loop
          LoopSites, ExprSites,   \* channels that may be buffered
          MaxBuffered  \* how many of them are at a time

Unit(kind, ins, outs, par) == [kind |-> kind, ins |-> ins, outs |-> outs, par |-> par]

\* int f(int n) { int i = init; do i = i op step; while (i < n); return i; }
Loop(op, init, step) ==
  << Unit("fork", <<"start">>, <<"s1", "s2">>, 0),
     Unit("constant", <<"s2">>, <<"init">>, init),
     Unit("br", <<"n">>, <<"n1">>, 0),
     Unit("control_merge", <<"s1", "cback">>, <<"ctrl", "index">>, 0),
     Unit("fork", <<"index">>, <<"index1", "index2">>, 0),
     Unit("mux", <<"index1", "init", "iback">>, <<"i">>, 0),
     Unit("mux", <<"index2", "n1", "nback">>, <<"n2">>, 0),
     Unit("source", <<>>, <<"src">>, 0),
     Unit("constant", <<"src">>, <<"step">>, step),
     Unit("binary", <<"i", "step">>, <<"inext">>, op),
     Unit("fork", <<"inext">>, <<"inext1", "inext2">>, 0),
     Unit("fork", <<"n2">>, <<"n3", "n4">>, 0),
     Unit("binary", <<"inext1", "n3">>, <<"cond">>, "ult"),
     Unit("fork", <<"cond">>, <<"cond1", "cond2", "cond3">>, 0),
     Unit("cond_br", <<"cond1", "inext2">>, <<"iback", "iout">>, 0),
     Unit("cond_br", <<"cond2", "n4">>, <<"nback", "nout">>, 0),
     Unit("cond_br", <<"cond3", "ctrl">>, <<"cback", "cout">>, 0),
     Unit("sink", <<"nout">>, <<>>, 0),
     Unit("sink", <<"cout">>, <<>>, 0),
     Unit("end", <<"iout">>, <<>>, 0) >>

\* int g(int a, int b) { return (a < b ? a op b : a - b) + ~(a < b ? a : b) + 1; },
\* where the first conditional is a branch and the second one is not.
Expr(op) ==
  << Unit("fork", <<"a">>, <<"a1", "a2", "a3">>, 0),
     Unit("fork", <<"b">>, <<"b1", "b2", "b3">>, 0),
     Unit("binary", <<"a1", "b1">>, <<"cond">>, "ult"),
     Unit("fork", <<"cond">>, <<"cond1", "cond2", "cond3">>, 0),
     Unit("cond_br", <<"cond1", "a2">>, <<"at", "af">>, 0),
     Unit("cond_br", <<"cond2", "b2">>, <<"bt", "bf">>, 0),
     Unit("binary", <<"at", "bt">>, <<"t">>, op),
     Unit("binary", <<"af", "bf">>, <<"f">>, "subi"),
     Unit("merge", <<"t", "f">>, <<"m">>, 0),
     Unit("select", <<"cond3", "a3", "b3">>, <<"s">>, 0),
     Unit("noti", <<"s">>, <<"not">>, 0),
     Unit("binary", <<"m", "not">>, <<"sum">>, "addi"),
     Unit("fork", <<"start">>, <<"start1", "start2">>, 0),
     Unit("lazy_fork", <<"start1">>, <<"lazy1", "lazy2">>, 0),
     Unit("sink", <<"lazy1">>, <<>>, 0),
     Unit("join", <<"lazy2", "start2">>, <<"both">>, 0),
     Unit("constant", <<"both">>, <<"one">>, 1),
     Unit("binary", <<"sum", "one">>, <<"r">>, "addi"),
     Unit("trunci", <<"r">>, <<"rt">>, Width - 1),
     Unit("end", <<"rt">>, <<>>, 0) >>

\* A join that waits for both results of a lazy fork, which waits for the join.
Stuck ==
  << Unit("lazy_fork", <<"start">>, <<"lazy1", "lazy2">>, 0),
     Unit("join", <<"lazy1", "lazy2">>, <<"both">>, 0),
     Unit("constant", <<"both">>, <<"one">>, 1),
     Unit("end", <<"one">>, <<>>, 0) >>

\* Channel c with the buffers of `buffers[c]` on it is c0, c1, ..., each the
\* output of a buffer on the one before.
Buffered(netlist, buffers) ==
  LET length(c) == IF c \in DOMAIN buffers THEN Len(buffers[c]) ELSE 0
      last(c) == <<c, length(c)>>
      first(c) == <<c, 0>>
      sites == {<<c, k>> \in (DOMAIN buffers) \X (1 .. 2) : k <= length(c)}
  IN [u \in sites |-> Unit(buffers[u[1]][u[2]], <<<<u[1], u[2] - 1>>>>, <<u>>, 0)]
     @@ [u \in {"unit"} \X DOMAIN netlist |->
           [netlist[u[2]] EXCEPT !.ins = [k \in DOMAIN @ |-> last(@[k])],
                                 !.outs = [k \in DOMAIN @ |-> first(@[k])]]]

Placements(sites, required) ==
  UNION {{[c \in some \cup required |-> IF c \in required THEN base ELSE f[c]] :
            f \in [some -> {<<"OEHB">>, <<"TEHB">>}], base \in {<<"OEHB">>, <<"OEHB", "TEHB">>}} :
         some \in {s \in SUBSET sites : Cardinality(s) <= MaxBuffered}}

Ids ==
  ({"loop"} \X Loops \X {0, 4} \X Placements(LoopSites, {"iback", "nback", "cback"}))
    \cup ({"expr"} \X {"muli"} \X {1, 3} \X Placements(ExprSites, {}))
    \cup ({"stuck"} \X {""} \X {0} \X {<<>>})

MCCircuits ==
  [id \in Ids |->
     CASE id[1] = "loop" ->
            [units |-> Buffered(Loop(id[2], 1, IF id[2] = "addi" THEN 1 ELSE 2), id[4]),
             args |-> (<<"start", 0>> :> 0) @@ (<<"n", 0>> :> id[3])]
       [] id[1] = "expr" ->
            [units |-> Buffered(Expr(id[2]), id[4]),
             args |-> (<<"start", 0>> :> 0) @@ (<<"a", 0>> :> id[3]) @@ (<<"b", 0>> :> 2)]
       [] id[1] = "stuck" -> [units |-> Buffered(Stuck, <<>>), args |-> <<"start", 0>> :> 0]]
-----------------------------------------------------------------------------
\* What the functions return.
Iterate(op, n) == 
  LET f[i \in 0 .. 2^Width] == IF i >= n THEN i ELSE f[IF op = "addi" THEN i + 1 ELSE 2 * i]
  IN f[2]

Expected ==
  LET id == circuit.id
  IN IF id[1] = "loop" THEN Iterate(id[2], id[3])
     ELSE ((IF id[3] < 2 THEN id[3] * 2 ELSE id[3] - 2)
            - (IF id[3] < 2 THEN id[3] ELSE 2)) % 2^(Width - 1)

\* The result is what the function returns, wherever the circuit is buffered.
ResultRight == phase = "result" => result.data = Expected

\* Every cycle settles and the function returns: no token is lost or held back
\* for good.  Only the circuit that waits for itself is given up.
Finishes == <>(phase = IF circuit.id[1] = "stuck" THEN "limit" ELSE "result")
=============================================================================
