----------------------------- MODULE MCSpecifier -----------------------------
(* Model-checking instances of Specifier: names of one or two characters   *)
(* over a and b, manifest lines padded with a blank or not, and up to two  *)
(* tokens, so that both separators and both kinds of line ending occur.    *)
EXTENDS Specifier

MCNames == BoundedSeq({"a", "b"}, 2) \ {<<>>}
MCPads == {<<>>, <<" ">>}

====
