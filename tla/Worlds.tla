------------------------------- MODULE Worlds -------------------------------
(***************************************************************************)
(* How the operations of a library are composed: the result of a call      *)
(* decides whether the code goes on, and loops take one turn after the     *)
(* other.  An operation maps a world w, whose result is w.rc, to the set   *)
(* of worlds that it can end in.                                           *)
(***************************************************************************)
EXTENDS Integers

\* The code goes on with F if the call succeeded.
Then(ws, F(_)) == UNION {IF w.rc = "ok" THEN F(w) ELSE {w} : w \in ws}

\* A loop of n turns, each F of its number; none if n is negative.
Turns(n, F(_, _), ws) ==
    LET after[k \in Nat] == IF k = 0 THEN ws ELSE UNION {F(v, k) : v \in after[k - 1]}
    IN  IF n \in Nat THEN after[n] ELSE ws

\* n times F.
Times(n, F(_), ws) == Turns(n, LAMBDA v, k : F(v), ws)

\* F of 1 .. n, one after the other, while the call succeeds.
Each(n, F(_, _), ws) == Turns(n, LAMBDA v, k : IF v.rc = "ok" THEN F(v, k) ELSE {v}, ws)
=============================================================================
