--------------------------- MODULE MinimalValues ---------------------------
(***************************************************************************)
(* The values the bitwidth optimisation works on, and what it needs to     *)
(* know of them.  A value is a leaf (an argument, a constant, or a result  *)
(* of the operation under optimisation) behind a chain of casts.  A        *)
(* minimal value is the value in front of its last extension, with the     *)
(* extension that was taken off.                                           *)
(***************************************************************************)
EXTENDS Integers, Sequences, SequencesExt, FiniteSetsExt

Leaf(kind, n, w) == [k |-> kind, n |-> n, w |-> w]
Val(leaf) == [leaf |-> leaf, casts |-> <<>>]
Width(v) == IF v.casts = <<>> THEN v.leaf.w ELSE Last(v.casts).w
WidthBefore(v, i) == IF i = 1 THEN v.leaf.w ELSE v.casts[i - 1].w
Cast(v, kind, w) == [v EXCEPT !.casts = Append(@, [k |-> kind, w |-> w])]

\* Two's complement: the number that the w bits of n stand for.
Signed(n, w) == IF n >= 2 ^ (w - 1) THEN n - 2 ^ w ELSE n

\* The value after one cast, from width w; an undefined value stays one.
Undef == -1
ApplyCast(n, w, c) ==
  IF n = Undef THEN Undef
  ELSE IF c.k = "extui" THEN n
  ELSE IF c.k = "extsi" THEN Signed(n, w) % 2 ^ c.w
  ELSE n % 2 ^ c.w

\* The bits a number needs: with its sign bit when it is negative, without otherwise.
computeRequiredBitwidth(x) ==
  CHOOSE b \in 1 .. 64 : /\ x >= -(2 ^ (b - 1)) /\ x < 2 ^ b
                         /\ b = 1 \/ x < -(2 ^ (b - 2)) \/ x >= 2 ^ (b - 1)

Minimal(v, ext) == [val |-> v, ext |-> ext]

MinimalConstant(v) ==
  LET b == computeRequiredBitwidth(Signed(v.leaf.n, v.leaf.w))
  IN IF b >= v.leaf.w THEN Minimal(v, "NONE")
     ELSE Minimal(Val(Leaf("const", v.leaf.n % 2 ^ b, b)),
                  IF Signed(v.leaf.n, v.leaf.w) < 0 THEN "SEXT" ELSE "ZEXT")

getMinimalValue(v) ==
  CASE v.casts # <<>> /\ Last(v.casts).k = "extsi" -> Minimal([v EXCEPT !.casts = Front(@)], "SEXT")
    [] v.casts # <<>> /\ Last(v.casts).k = "extui" -> Minimal([v EXCEPT !.casts = Front(@)], "ZEXT")
    [] v.casts = <<>> /\ v.leaf.k = "const" -> MinimalConstant(v)
    [] OTHER -> Minimal(v, "NONE")

\* The extension operation of an extension type: no integer type of the
\* dialect is unsigned, so a value of unknown extension is sign-extended.
ExtKind(ext) == IF ext = "ZEXT" THEN "extui" ELSE "extsi"

modBitWidth(m, targetWidth) ==
  CASE Width(m.val) = targetWidth -> m.val
    [] Width(m.val) < targetWidth -> Cast(m.val, ExtKind(m.ext), targetWidth)
    [] Width(m.val) > targetWidth -> Cast(m.val, "trunci", targetWidth)

-----------------------------------------------------------------------------
(* The transfer functions: the extension and the width of a result, from   *)
(* those of the operands.                                                  *)

ExtWidth(ext, w) == [ext |-> ext, w |-> w]
Widest(l, r) == Max({l.w, r.w})

Rank == [NONE |-> 0, ZEXT |-> 1, SEXT |-> 2]
\* The operands with the larger extension type on the right.
canonicalizeCommutativeExtensionType(l, r) ==
  IF Rank[l.ext] > Rank[r.ext] THEN <<r, l>> ELSE <<l, r>>

addWidth(lhs, rhs) ==
  LET c == canonicalizeCommutativeExtensionType(lhs, rhs)
      l == c[1]
      r == c[2]
  IN CASE r.ext # "SEXT" -> ExtWidth("ZEXT", Widest(l, r) + 1)
       [] r.ext = "SEXT" /\ (l.ext = "SEXT" \/ l.w < r.w) -> ExtWidth("SEXT", Widest(l, r) + 1)
       [] OTHER -> ExtWidth("SEXT", Widest(l, r) + 2)

subWidth(lhs, rhs) ==
  IF lhs.ext = rhs.ext THEN ExtWidth("SEXT", Widest(lhs, rhs) + 1) ELSE addWidth(lhs, rhs)

mulWidth(lhs, rhs) ==
  ExtWidth(canonicalizeCommutativeExtensionType(lhs, rhs)[2].ext, lhs.w + rhs.w)

divWidth(lhs, rhs) == ExtWidth("ZEXT", lhs.w + 1)

andWidth(lhs, rhs) ==
  LET c == canonicalizeCommutativeExtensionType(lhs, rhs)
      l == c[1]
      r == c[2]
  IN CASE r.ext # "SEXT" -> ExtWidth("ZEXT", Min({l.w, r.w}))
       [] r.ext = "SEXT" /\ l.ext = "ZEXT" -> ExtWidth("ZEXT", l.w)
       [] OTHER -> ExtWidth("SEXT", Widest(l, r))

\* Mutant: the sign bit of a wider zero-extended operand would be copied.
orWidth_NoExtraBit(lhs, rhs) ==
  LET c == canonicalizeCommutativeExtensionType(lhs, rhs)
  IN ExtWidth(IF c[2].ext = "SEXT" THEN "SEXT" ELSE "ZEXT", Widest(lhs, rhs))
orWidth(lhs, rhs) ==
  LET c == canonicalizeCommutativeExtensionType(lhs, rhs)
      l == c[1]
      r == c[2]
  IN CASE r.ext # "SEXT" -> ExtWidth("ZEXT", Widest(l, r))
       [] r.ext = "SEXT" /\ l.ext = "ZEXT" /\ l.w >= r.w -> ExtWidth("SEXT", 1 + l.w)
       [] OTHER -> ExtWidth("SEXT", Widest(l, r))

\* What a unit that forwards one of its operands needs: a zero-extended operand
\* of the largest width gets one bit more when others are sign-extended.
computeDataForwardResult(mins) ==
  LET exts == {m.ext : m \in mins}
      w == Max({Width(m.val) : m \in mins})
  IN IF \E ext \in exts : exts = {ext} THEN ExtWidth(CHOOSE ext \in exts : TRUE, w)
     ELSE IF \E m \in mins : m.ext = "ZEXT" /\ Width(m.val) = w THEN ExtWidth("SEXT", w + 1)
     ELSE ExtWidth("SEXT", w)
=============================================================================
