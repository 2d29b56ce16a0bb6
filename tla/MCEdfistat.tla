----------------------------- MODULE MCEdfistat -----------------------------
(* Model-checking instances of Edfistat.  Sections have up to two keys     *)
(* (x, y) with values from a set holding 0 (zero bases and divisors) and   *)
(* values of both signs (a zero mean with non-zero spread); up to four     *)
(* tokens give single runs, two-section runs (relerr/relincr/div) and      *)
(* three-section runs (odd-length columns, arity violations), with         *)
(* repeated and mismatched sections.                                       *)
EXTENDS Edfistat

CONSTANTS x, y, r1, r2, bad, BadSection

\* Sections whose keys all appear in the order x, y.
SectionsOf(vals) ==
  {<<>>} \cup {<<<<x, a>>>> : a \in vals} \cup {<<<<x, a>>, <<y, b>>>> : a, b \in vals}

\* Every action name of both tables, and one unknown name.
AllActions ==
  {"median", "average", "var", "stddev", "min", "max", "sum", "relerr",
   "relincr", "div", "rsd", "rse", "append", "csv", "matlab", "root",
   "rootm", "mean"}

MainSections == SectionsOf({-1, 0, 2})

====
