------------------------- MODULE OptimizeBitwidths -------------------------
(***************************************************************************)
(* The bitwidth optimisation of Handshake functions: rewrite patterns are  *)
(* applied greedily, those of the forward pass, then those of the backward *)
(* pass, until neither changes anything.                                   *)
(*                                                                         *)
(* A program is one operation between casts: op is the operation, w the    *)
(* width of its data, opnds its data operands, cmps the comparisons whose  *)
(* conjunction is its condition (the operation itself when op is "cmpi"),  *)
(* and users the values that leave the function.  A user that is a sink is *)
(* no value.  A pattern is the set of the programs it rewrites a program   *)
(* to, and the empty set when it does not match.                           *)
(***************************************************************************)
EXTENDS MinimalValues, Bitwise

CONSTANT Programs

VARIABLES src,      \* history: the program before the optimisation
          ir,       \* the program
          phase,    \* "forward", "backward" or "done"
          changed   \* whether this round has changed the program

vars == <<src, ir, phase, changed>>

-----------------------------------------------------------------------------
(* What a program computes, from its arguments.                            *)

Apply(op, w, a, b) ==
  CASE op = "addi" -> (a + b) % 2 ^ w
    [] op = "subi" -> (a - b) % 2 ^ w
    [] op = "muli" -> (a * b) % 2 ^ w
    [] op = "andi" -> a & b
    [] op = "ori" -> a | b
    [] op = "xori" -> a ^^ b
    [] op = "divui" -> IF b = 0 THEN Undef ELSE a \div b
    [] op = "remui" -> IF b = 0 THEN Undef ELSE a % b
    [] op = "divsi" -> IF b = 0 THEN Undef
                       ELSE LET x == Signed(a, w)
                                y == Signed(b, w)
                                q == (IF x < 0 THEN -x ELSE x) \div (IF y < 0 THEN -y ELSE y)
                            IN (IF (x < 0) = (y < 0) THEN q ELSE -q) % 2 ^ w
    [] op = "shrui" -> IF b >= w THEN Undef ELSE a \div 2 ^ b
    [] op = "shrsi" -> IF b >= w THEN Undef ELSE (Signed(a, w) \div 2 ^ b) % 2 ^ w

Compare(pred, w, a, b) ==
  CASE pred = "eq" -> a = b
    [] pred = "ne" -> a # b
    [] pred = "ult" -> a < b
    [] pred = "ule" -> a <= b
    [] pred = "ugt" -> a > b
    [] pred = "uge" -> a >= b
    [] pred = "slt" -> Signed(a, w) < Signed(b, w)
    [] pred = "sge" -> Signed(a, w) >= Signed(b, w)

\* The value of v, the arguments and the operation's results given.
Eval(v, args, res) ==
  LET start == CASE v.leaf.k = "const" -> v.leaf.n
                 [] v.leaf.k = "arg" -> args[v.leaf.n]
                 [] v.leaf.k = "res" -> res[v.leaf.n]
      after[i \in 0 .. Len(v.casts)] ==
        IF i = 0 THEN start ELSE ApplyCast(after[i - 1], WidthBefore(v, i), v.casts[i])
  IN after[Len(v.casts)]

Condition(p, args) ==
  \A i \in DOMAIN p.cmps :
    LET c == p.cmps[i]
    IN Compare(c.pred, Width(c.l), Eval(c.l, args, <<>>), Eval(c.r, args, <<>>))

\* The results of the operation; a mux forwards its first operand and then, turn
\* after turn, its second one, which may be its own result.
Results(p, args, turns) ==
  LET at(i) == Eval(p.opnds[i], args, <<>>)
      forwarded[t \in 0 .. turns] == IF t = 0 THEN at(1) ELSE Eval(p.opnds[2], args, <<forwarded[t - 1]>>)
  IN CASE p.op = "constant" -> <<>>
       [] p.op = "cmpi" -> <<IF Condition(p, args) THEN 1 ELSE 0>>
       [] p.op = "cond_br" -> IF Condition(p, args) THEN <<at(1), Undef>> ELSE <<Undef, at(1)>>
       [] p.op = "fork" -> <<at(1), at(1)>>
       [] p.op \in {"mux", "select"} -> <<forwarded[turns]>>
       [] OTHER -> <<Apply(p.op, p.w, at(1), at(2))>>

Outs(p, args, turns) ==
  LET res == Results(p, args, turns)
  IN [u \in DOMAIN p.users |-> Eval(p.users[u], args, res)]

Values(p) == ToSet(p.opnds) \union UNION {{p.cmps[i].l, p.cmps[i].r} : i \in DOMAIN p.cmps}
ArgWidth(p, n) ==
  Max({0} \union {v.leaf.w : v \in {x \in Values(p) : x.leaf.k = "arg" /\ x.leaf.n = n}})
Args(p) == (0 .. 2 ^ ArgWidth(p, 1) - 1) \X (0 .. 2 ^ ArgWidth(p, 2) - 1)

-----------------------------------------------------------------------------
(* Replacing the operation: its results, of a new width, go through casts  *)
(* to whatever used them.                                                  *)

Behind(v, pre, w) ==
  IF v.leaf.k = "res" THEN [leaf |-> [v.leaf EXCEPT !.w = w], casts |-> pre \o v.casts] ELSE v

Replace(p, op, opnds, w, pre) ==
  [p EXCEPT !.op = op, !.w = w,
            !.opnds = [i \in DOMAIN opnds |-> Behind(opnds[i], pre, w)],
            !.users = [u \in DOMAIN @ |-> Behind(@[u], pre, w)]]

ToCast(kind, w) == [k |-> kind, w |-> w]

modArithOp(p, op, mins, optWidth, ext) ==
  Replace(p, op, [i \in DOMAIN mins |-> modBitWidth(mins[i], optWidth)], optWidth,
          <<ToCast(ExtKind(ext), p.w)>>)

\* Mutant: a value that nobody uses would keep no bit.
getUsefulResultWidth_Zero(p, i) ==
  LET uses == {v \in ToSet(p.users) \union ToSet(p.opnds) : v.leaf.k = "res" /\ v.leaf.n = i}
  IN IF \E v \in uses : v.casts = <<>> \/ v.casts[1].k # "trunci" THEN p.w
     ELSE Max({0} \union {v.casts[1].w : v \in uses})
\* The bits of result i that its users look at.
getUsefulResultWidth(p, i) ==
  LET uses == {v \in ToSet(p.users) \union ToSet(p.opnds) : v.leaf.k = "res" /\ v.leaf.n = i}
  IN IF \E v \in uses : v.casts = <<>> \/ v.casts[1].k # "trunci" THEN p.w
     ELSE Max({1} \union {v.casts[1].w : v \in uses})

-----------------------------------------------------------------------------
(* The patterns on arithmetic operations.                                  *)

OnePattern(matches, p) == IF matches THEN {p} ELSE {}
\* On one operation the patterns are tried in the order they were added in, after its folder.
first ?? second == IF first # {} THEN first ELSE second
ExtWidthOf(m) == ExtWidth(m.ext, Width(m.val))

\* Multiplications and logical operations are rewritten from their operands in
\* both passes, divisions in the forward pass only.
ArithSingleType(p, forward) ==
  LET l == getMinimalValue(p.opnds[1])
      r == getMinimalValue(p.opnds[2])
      transfer(f(_, _)) == f(ExtWidthOf(l), ExtWidthOf(r))
      used == ExtWidth("ZEXT", getUsefulResultWidth(p, 1))
      opt == CASE p.op = "addi" -> IF forward THEN transfer(addWidth) ELSE used
               [] p.op = "subi" -> IF forward THEN transfer(subWidth) ELSE used
               [] p.op = "muli" -> transfer(mulWidth)
               [] p.op = "andi" -> transfer(andWidth)
               [] p.op \in {"ori", "xori"} -> transfer(orWidth)
               [] p.op \in {"divui", "divsi", "remui"} -> transfer(divWidth)
  IN IF \/ p.op \in {"addi", "subi", "muli", "andi", "ori", "xori"}
        \/ forward /\ p.op \in {"divui", "divsi", "remui"}
     THEN OnePattern(opt.w < p.w, modArithOp(p, p.op, <<l, r>>, opt.w, opt.ext))
     ELSE {}

ArithSelect(p, forward) ==
  LET l == getMinimalValue(p.opnds[1])
      r == getMinimalValue(p.opnds[2])
      optWidth == IF forward THEN Widest(ExtWidthOf(l), ExtWidthOf(r)) ELSE getUsefulResultWidth(p, 1)
  IN IF p.op = "select"
     THEN OnePattern(optWidth < p.w /\ {l.ext, r.ext} # {"ZEXT", "SEXT"},
                     modArithOp(p, "select", <<l, r>>, optWidth, l.ext))
     ELSE {}

IsConstant(v) == v.casts = <<>> /\ v.leaf.k = "const"

\* A right shift by a constant of a value that was extended.
ShiftsExtended(p, op) ==
  /\ p.op = op
  /\ Width(getMinimalValue(p.opnds[1]).val) < p.w
  /\ IsConstant(p.opnds[2]) /\ p.opnds[2].leaf.n < p.w

\* A logical one: zeros come in, whatever the extension was.
ArithShrUIFW(p) ==
  LET lhs == getMinimalValue(p.opnds[1])
      in == Width(lhs.val)
      c == p.opnds[2].leaf.n
      by == Minimal(p.opnds[2], "NONE")
      zero == [p EXCEPT !.op = "constant", !.opnds = <<>>,
                        !.users = [u \in DOMAIN @ |-> [@[u] EXCEPT !.leaf = Leaf("const", 0, p.w)]]]
      filled(w) == <<ToCast("trunci", w), ToCast("extsi", p.w - c), ToCast("extui", p.w)>>
      signBit == Val(Leaf("const", in - 1, in))
  IN IF ~ShiftsExtended(p, "shrui") THEN {}
     ELSE IF lhs.ext = "ZEXT" /\ c >= in THEN {zero}
     ELSE IF lhs.ext = "ZEXT" THEN {modArithOp(p, "shrui", <<lhs, by>>, in, "ZEXT")}
     ELSE IF c < in THEN {Replace(p, "shrui", <<lhs.val, modBitWidth(by, in)>>, in, filled(in - c))}
     ELSE {Replace(p, "shrui", <<lhs.val, signBit>>, in, filled(1))}

\* An arithmetic one; of a zero-extended value, it becomes a logical one first.
ArithShrSIFW(p) ==
  LET lhs == getMinimalValue(p.opnds[1])
      in == Width(lhs.val)
      by == Minimal(p.opnds[2], "NONE")
      signBit == Val(Leaf("const", in - 1, in))
  IN IF ~ShiftsExtended(p, "shrsi") \/ lhs.ext = "ZEXT" THEN {}
     ELSE IF p.opnds[2].leaf.n < in THEN {modArithOp(p, "shrsi", <<lhs, by>>, in, "SEXT")}
     ELSE {Replace(p, "shrsi", <<lhs.val, signBit>>, in, <<ToCast("extsi", p.w)>>)}

ArithShiftBW(p) ==
  LET toShift == getMinimalValue(p.opnds[1])
      shiftBy == getMinimalValue(p.opnds[2])
      optWidth == getUsefulResultWidth(p, 1) + shiftBy.val.leaf.n
  IN IF p.op \in {"shrui", "shrsi"} /\ IsConstant(p.opnds[2])
     THEN OnePattern(optWidth < p.w, modArithOp(p, p.op, <<toShift, shiftBy>>, optWidth, toShift.ext))
     ELSE {}

ShrSIOpOfExtUI(p) ==
  IF p.op = "shrsi" THEN OnePattern(p.opnds[1].casts # <<>> /\ Last(p.opnds[1].casts).k = "extui",
                                    [p EXCEPT !.op = "shrui"])
  ELSE {}

isSignedComparison(pred) == pred \in {"slt", "sle", "sgt", "sge"}

\* A comparison takes one bit more where the top bit of a zero-extended operand
\* would be taken for a sign.
ArithCmpFW(p, i) ==
  LET l == getMinimalValue(p.cmps[i].l)
      r == getMinimalValue(p.cmps[i].r)
      zeroOnTop(a, b) == a.ext = "ZEXT" /\ Width(a.val) >= Width(b.val)
      extra == IF isSignedComparison(p.cmps[i].pred) THEN zeroOnTop(l, r) \/ zeroOnTop(r, l)
               ELSE (zeroOnTop(l, r) /\ r.ext = "SEXT") \/ (zeroOnTop(r, l) /\ l.ext = "SEXT")
      w == Widest(ExtWidthOf(l), ExtWidthOf(r)) + (IF extra THEN 1 ELSE 0)
  IN OnePattern(w < Width(p.cmps[i].l),
                [p EXCEPT !.cmps[i].l = modBitWidth(l, w), !.cmps[i].r = modBitWidth(r, w)])

-----------------------------------------------------------------------------
(* The patterns on casts, in the chain of a value.                         *)

Without(v, i) == [v EXCEPT !.casts = RemoveAt(@, i)]

foldExtOp(v, i) ==
  IF i > 1 /\ v.casts[i - 1].k = v.casts[i].k THEN {Without(v, i - 1)}
  ELSE OnePattern(WidthBefore(v, i) = v.casts[i].w, Without(v, i))

foldTruncIOp(v, i) ==
  LET w == v.casts[i].w
      before == WidthBefore(v, i - 1)
  IN IF i > 1 /\ v.casts[i - 1].k = "trunci" THEN {Without(v, i - 1)}
     ELSE IF i > 1 /\ before > w THEN {Without(v, i - 1)}
     ELSE IF i > 1 THEN OnePattern(before = w, Without(Without(v, i), i - 1))
     ELSE OnePattern(WidthBefore(v, i) = w, Without(v, i))

\* An extension or a truncation of a constant, a sign extension of a zero
\* extension, and a truncation of extension bits only.
Canonicalize(v, i) ==
  LET c == v.casts[i]
  IN UNION {
       IF i = 1 THEN OnePattern(v.leaf.k = "const",
                       [leaf |-> Leaf("const", ApplyCast(v.leaf.n, v.leaf.w, c), c.w), casts |-> Tail(v.casts)])
       ELSE {},
       IF i > 1 THEN OnePattern(c.k = "extsi" /\ v.casts[i - 1].k = "extui",
                                [Without(v, i - 1) EXCEPT !.casts[i - 1].k = "extui"])
       ELSE {},
       IF i > 1 THEN OnePattern(/\ c.k = "trunci" /\ v.casts[i - 1].k # "trunci"
                                /\ v.casts[i - 1].w > c.w /\ c.w > WidthBefore(v, i - 1),
                                [Without(v, i) EXCEPT !.casts[i - 1].w = c.w])
       ELSE {}}

ArithExtToTruncOpt(v, i) ==
  LET m == getMinimalValue([v EXCEPT !.casts = SubSeq(@, 1, i - 1)])
      w == v.casts[i].w
  IN OnePattern(v.casts[i].k = "trunci" /\ m.ext # "NONE" /\ w # Width(m.val),
                [modBitWidth(m, w) EXCEPT !.casts = @ \o SubSeq(v.casts, i + 1, Len(v.casts))])

\* What becomes of a value when one of its casts is rewritten.
Recast(v) ==
  LET folded(i) == IF v.casts[i].k = "trunci" THEN foldTruncIOp(v, i) ELSE foldExtOp(v, i)
  IN UNION {folded(i) ?? ArithExtToTruncOpt(v, i) ?? Canonicalize(v, i) : i \in DOMAIN v.casts}

RecastAny(p) ==
  UNION ({{[p EXCEPT !.opnds[i] = v] : v \in Recast(p.opnds[i])} : i \in DOMAIN p.opnds}
         \union {{[p EXCEPT !.cmps[i].l = v] : v \in Recast(p.cmps[i].l)} : i \in DOMAIN p.cmps}
         \union {{[p EXCEPT !.cmps[i].r = v] : v \in Recast(p.cmps[i].r)} : i \in DOMAIN p.cmps}
         \union {{[p EXCEPT !.users[i] = v] : v \in Recast(p.users[i])} : i \in DOMAIN p.users})

-----------------------------------------------------------------------------
(* The patterns on units that forward data.                                *)

HandshakeOptData(p, forward) ==
  LET mins == [i \in DOMAIN p.opnds |-> getMinimalValue(p.opnds[i])]
      used == Max({getUsefulResultWidth(p, i) : i \in IF p.op = "mux" THEN {1} ELSE {1, 2}})
      opt == IF forward THEN computeDataForwardResult(ToSet(mins)) ELSE ExtWidth("ZEXT", used)
  IN IF p.op \in {"mux", "fork", "cond_br"}
     THEN OnePattern(opt.w < p.w, modArithOp(p, p.op, mins, opt.w, opt.ext))
     ELSE {}

\* Whether an operand is the unit's own result: casts forward no data.  The
\* buffers, forks and branches on the way, which do, are not told apart from
\* the wire, and cycles through a second merging unit are left out.
isOperandInCycle(v) == v.leaf.k = "res" /\ v.casts = <<>>

\* The values that enter the cycle decide how wide it is.
ForwardCycleOpt(p) ==
  LET merged == {v \in ToSet(p.opnds) : ~isOperandInCycle(v)}
      opt == computeDataForwardResult({getMinimalValue(v) : v \in merged})
      mins == [i \in DOMAIN p.opnds |-> getMinimalValue(p.opnds[i])]
  IN IF p.op = "mux" /\ merged # {}
     THEN OnePattern(opt.w < p.w, modArithOp(p, "mux", mins, opt.w, opt.ext))
     ELSE {}

-----------------------------------------------------------------------------
(* The pattern on a branch whose condition bounds its data.                *)

isBoundTight(v) ==
  /\ IsConstant(v)
  /\ LET x == Signed(v.leaf.n, v.leaf.w)
     IN computeRequiredBitwidth(x) = computeRequiredBitwidth(IF x < 0 THEN x + 1 ELSE x - 1) + 1

\* Which result of the branch carries data below the bound, 0 for neither.
getBranchToOptimize(pred, isDataLhs) ==
  CASE pred = "eq" -> 1
    [] pred = "ne" -> 2
    [] pred \in {"ult", "ule"} -> IF isDataLhs THEN 1 ELSE 2
    [] pred \in {"ugt", "uge"} -> IF isDataLhs THEN 2 ELSE 1
    [] OTHER -> 0

getRealOptWidth(pred, optWidth, isDataLhs) ==
  CASE pred \in {"ult", "uge"} -> IF isDataLhs THEN optWidth - 1 ELSE optWidth
    [] pred \in {"ule", "ugt"} -> IF isDataLhs THEN optWidth ELSE optWidth - 1
    [] OTHER -> optWidth

\* What comparison i of a branch says of its data: the result it bounds and the
\* width and extension that suffice there.
Bound(p, i) ==
  LET c == p.cmps[i]
      data == getMinimalValue(p.opnds[1])
      isDataLhs == data = getMinimalValue(c.l)
      boundVal == IF isDataLhs THEN c.r ELSE c.l
      bound == getMinimalValue(boundVal)
      w == Width(bound.val)
  IN [branch |-> IF \/ data \notin {getMinimalValue(c.l), getMinimalValue(c.r)}
                    \/ (c.pred \notin {"eq", "ne"} /\ bound.ext = "SEXT")
                 THEN 0 ELSE getBranchToOptimize(c.pred, isDataLhs),
      w |-> IF isBoundTight(boundVal) THEN getRealOptWidth(c.pred, w, isDataLhs) ELSE w,
      ext |-> IF c.pred \in {"eq", "ne"} THEN bound.ext ELSE "ZEXT"]

optBranchIfPossible(p, i, b) ==
  LET dataWidth == getUsefulResultWidth(p, i)
      pre == <<ToCast("trunci", b.w), ToCast(ExtKind(b.ext), dataWidth)>>
  IN OnePattern(b.w < dataWidth,
       [p EXCEPT !.users = [u \in DOMAIN @ |-> IF @[u].leaf.n = i THEN [@[u] EXCEPT !.casts = pre \o @] ELSE @[u]]])

\* The tightest bound counts; on the false result, only that of a comparison
\* which is the whole condition.
ArithBoundOpt(p) ==
  LET bounds(i) == {b \in {Bound(p, c) : c \in DOMAIN p.cmps} :
                      b.branch = i /\ (i = 2 => Len(p.cmps) = 1)}
      tightest(i) == {b \in bounds(i) : \A d \in bounds(i) : b.w <= d.w}
  IN IF p.op = "cond_br"
     THEN UNION {optBranchIfPossible(p, b.branch, b) : b \in tightest(1) \union tightest(2)}
     ELSE {}

-----------------------------------------------------------------------------
(* The pass.                                                               *)

ArithPatterns(p, forward) ==
  CASE p.op = "select" -> ArithSelect(p, forward)
    [] p.op \in {"shrui", "shrsi"} ->
         (IF forward THEN ArithShrUIFW(p) ?? ArithShrSIFW(p) ELSE ArithShiftBW(p)) ?? ShrSIOpOfExtUI(p)
    [] OTHER -> ArithSingleType(p, forward)

HandshakeDataPatterns(p, forward) ==
  HandshakeOptData(p, forward)
    ?? (IF ~forward THEN {} ELSE IF p.op = "mux" THEN ForwardCycleOpt(p) ELSE ArithBoundOpt(p))

\* The operation that is rewritten may be any: the one at hand, a comparison, a cast.
Patterns(p, forward) ==
  UNION {CASE p.op \in {"mux", "fork", "cond_br"} -> HandshakeDataPatterns(p, forward)
           [] p.op \in {"cmpi", "constant"} -> {}
           [] OTHER -> ArithPatterns(p, forward),
         IF forward THEN UNION {ArithCmpFW(p, i) : i \in DOMAIN p.cmps} ELSE {},
         RecastAny(p)}

Rewrite(pass) ==
  /\ phase = pass
  /\ ir' \in Patterns(ir, pass = "forward")
  /\ changed' = TRUE
  /\ UNCHANGED <<src, phase>>

EndForward ==
  /\ phase = "forward"
  /\ Patterns(ir, TRUE) = {}
  /\ phase' = "backward"
  /\ UNCHANGED <<src, ir, changed>>

\* Mutant: the flag would not be reset for the next round.
EndBackward_KeepsChanged ==
  /\ phase = "backward"
  /\ Patterns(ir, FALSE) = {}
  /\ phase' = IF changed THEN "forward" ELSE "done"
  /\ UNCHANGED <<src, ir, changed>>
\* Another round, as long as one changes something.
EndBackward ==
  /\ phase = "backward"
  /\ Patterns(ir, FALSE) = {}
  /\ phase' = IF changed THEN "forward" ELSE "done"
  /\ changed' = FALSE
  /\ UNCHANGED <<src, ir>>

Done == phase = "done" /\ UNCHANGED vars

Init ==
  /\ src \in Programs
  /\ ir = src
  /\ phase = "forward"
  /\ changed = FALSE

Next ==
  \/ Rewrite("forward")
  \/ Rewrite("backward")
  \/ EndForward
  \/ EndBackward
  \/ Done

Spec == Init /\ [][Next]_vars /\ WF_vars(Next)

-----------------------------------------------------------------------------
(* The optimisation never changes what the function computes: whatever was *)
(* rewritten so far, in whatever order, every value that leaves the        *)
(* function is the one it was, for every argument.                         *)
Preserved ==
  \A args \in Args(src), turns \in IF src.op \in {"mux", "select"} THEN 0 .. 2 ELSE {0} :
    LET was == Outs(src, args, turns)
        is == Outs(ir, args, turns)
    IN \A u \in DOMAIN was : was[u] = Undef \/ is[u] = was[u]

(* What the verifiers of the dialect ask of the program, after every       *)
(* rewrite: no channel of no bits, extensions that do not narrow,          *)
(* truncations that do not widen, and operands of the operation's width.   *)
Legal ==
  LET vals == Values(ir) \union ToSet(ir.users)
      wellCast(v) == \A i \in DOMAIN v.casts :
                       /\ v.casts[i].w >= 1
                       /\ IF v.casts[i].k = "trunci" THEN v.casts[i].w <= WidthBefore(v, i)
                          ELSE v.casts[i].w >= WidthBefore(v, i)
  IN /\ ir.w >= 1
     /\ \A v \in vals : v.leaf.w >= 1 /\ wellCast(v)
     /\ \A v \in ToSet(ir.opnds) : Width(v) = ir.w
     /\ \A c \in ToSet(ir.cmps) : Width(c.l) = Width(c.r)

(* The rounds come to an end: the patterns of the two passes never undo    *)
(* each other's work for ever.                                             *)
Converges == <>(phase = "done")
=============================================================================
