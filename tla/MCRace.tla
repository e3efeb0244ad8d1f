------------------------------- MODULE MCRace -------------------------------
(* Model checking of the race: a token input 0 and two flag inputs 1, 2.   *)
EXTENDS Race

\* The candidates over a token or over flags only.
T(i, after) == [token |-> i, payload |-> Zero, flags |-> {}, unless |-> {}, after |-> after]
G(p, flags, unless, after) ==
  [token |-> NoInput, payload |-> p, flags |-> flags, unless |-> unless, after |-> after]

MCCandidateLists == {
  \* P(F(t, g(a, not b)), h(b))
  <<T(0, {}), G(1, {1}, {2}, {}), G(2, {2}, {}, {1, 2})>>,
  \* t twice, after a or after b: the alternatives of a shared subtree
  <<G(1, {1}, {}, {}), G(2, {2}, {}, {}), T(0, {1}), T(0, {2})>>,
  \* listed against the priority order; a false a refuses everybody before
  \* the others arrive; the second, over a and not a, can never pass
  <<G(2, {1, 2}, {}, {2, 3}), G(1, {1}, {1}, {}), [T(0, {}) EXCEPT !.flags = {1}]>> }
=============================================================================
