--------------------------- MODULE MCMyOrderedDict ---------------------------
(* Model-checking instance of MyOrderedDict: three keys (enough for a      *)
(* middle link with two neighbours), two values (enough to see an          *)
(* overwrite), one link object per key, and update() with up to two        *)
(* items (enough for a repeated key inside one call).                      *)
EXTENDS MyOrderedDict

CONSTANTS k1, k2, k3, v1, v2, n1, n2, n3

MCKeys   == {k1, k2, k3}
MCValues == {v1, v2}
MCNodes  == {n1, n2, n3}
====
