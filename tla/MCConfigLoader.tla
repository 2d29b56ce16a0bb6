---------------------------- MODULE MCConfigLoader ----------------------------
(* Files of up to four lines over sections s, t and DEFAULT, option names   *)
(* x, X (the same after optionxform) and '__name__', and two numbers: enough *)
(* for a repeated or case-folded option, a reopened section, a DEFAULT      *)
(* option shadowed by or added to the section, a continuation, a malformed  *)
(* line before or after the section.                                        *)
EXTENDS ConfigLoader

MCRawKeys == {"x", "X", "__name__"}
MCLower == [k \in MCRawKeys |-> IF k = "X" THEN "x" ELSE k]
MCSectNames == {"s", "t", "DEFAULT"}
====
