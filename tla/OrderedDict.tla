----------------------------- MODULE OrderedDict -----------------------------
(***************************************************************************)
(* What MyOrderedDict (edfistat.py) promises: a dictionary that remembers  *)
(* the order in which keys were first inserted.  The state is the key      *)
(* order (a sequence of distinct keys) and the key -> value mapping; every *)
(* mutating method of the class is one action.  The linked-list module     *)
(* MyOrderedDict is checked to implement this specification.               *)
(*                                                                         *)
(* The pure operators OD* below are also used by the Edfistat module to    *)
(* model the ConfigParser sections that are MyOrderedDict instances.       *)
(***************************************************************************)
EXTENDS Naturals, Sequences, SequencesExt, TLC

CONSTANTS
  Keys,      \* keys that may be stored
  Values,    \* values that may be stored
  None,      \* Python None: the result of a call that returns nothing
  KeyError,  \* the exception raised by a lookup of a missing key
  UpdateLen  \* longest item sequence passed to update()

ASSUME UpdateLen \in Nat

VARIABLES
  order,     \* keys in first-insertion order (what iter(od) yields)
  dict,      \* the key -> value mapping (the inherited dict)
  ret,       \* the value returned by the last call
  exc        \* the exception raised by the last call, or None

vars == <<order, dict, ret, exc>>

-----------------------------------------------------------------------------
(* Pure operators on an ordered dictionary d = [order |-> s, dict |-> f].  *)

ODEmpty == [order |-> <<>>, dict |-> <<>>]

\* od[k] = v: a new key goes at the end, an existing key keeps its place.
ODSet(d, k, v) ==
  [order |-> IF k \in DOMAIN d.dict THEN d.order ELSE Append(d.order, k),
   dict  |-> k :> v @@ d.dict]

\* del od[k] for a present key.
ODDel(d, k) ==
  [order |-> Remove(d.order, k),
   dict  |-> [x \in DOMAIN d.dict \ {k} |-> d.dict[x]]]

\* for k, v in other: od[k] = v
ODUpdate(d, other) ==
  FoldLeft(LAMBDA acc, kv : ODSet(acc, kv[1], kv[2]), d, other)

\* od.items()
ODItems(d) == [i \in 1..Len(d.order) |-> <<d.order[i], d.dict[d.order[i]]>>]

-----------------------------------------------------------------------------
Cur == [order |-> order, dict |-> dict]

Become(d, r, e) ==
  /\ order' = d.order
  /\ dict' = d.dict
  /\ ret' = r
  /\ exc' = e

Raise(e) == /\ ret' = None /\ exc' = e /\ UNCHANGED <<order, dict>>

TypeOK ==
  /\ order \in Seq(Keys)
  /\ IsInjective(order)
  /\ DOMAIN dict = ToSet(order)
  /\ \A k \in DOMAIN dict : dict[k] \in Values
  /\ exc \in {None, KeyError}

Init ==
  /\ order = <<>>
  /\ dict = <<>>
  /\ ret = None
  /\ exc = None

SetItem(k, v) == Become(ODSet(Cur, k, v), None, None)

DelItem(k) ==
  IF k \in DOMAIN dict THEN Become(ODDel(Cur, k), None, None)
                       ELSE Raise(KeyError)

Clear == Become(ODEmpty, None, None)

\* popitem(last): the newest pair if last, the oldest otherwise.
PopItem(last) ==
  IF order = <<>> THEN Raise(KeyError)
  ELSE LET k == IF last THEN Last(order) ELSE Head(order)
       IN  Become(ODDel(Cur, k), <<k, dict[k]>>, None)

\* pop(k[, d]): hasDefault tells whether a default was passed.
Pop(k, hasDefault, d) ==
  CASE k \in DOMAIN dict -> Become(ODDel(Cur, k), dict[k], None)
    [] hasDefault        -> Become(Cur, d, None)
    [] OTHER             -> Raise(KeyError)

SetDefault(k, d) ==
  IF k \in DOMAIN dict THEN Become(Cur, dict[k], None)
                       ELSE Become(ODSet(Cur, k, d), d, None)

Update(other) == Become(ODUpdate(Cur, other), None, None)

\* The arguments update() may be given: short sequences of (key, value).
UpdateArgs == BoundedSeq(Keys \X Values, UpdateLen)

Next ==
  \/ \E k \in Keys, v \in Values : SetItem(k, v)
  \/ \E k \in Keys : DelItem(k)
  \/ Clear
  \/ \E last \in BOOLEAN : PopItem(last)
  \/ \E k \in Keys, hasDefault \in BOOLEAN, d \in Values : Pop(k, hasDefault, d)
  \/ \E k \in Keys, d \in Values : SetDefault(k, d)
  \/ \E other \in UpdateArgs : Update(other)

Spec == Init /\ [][Next]_vars

====
