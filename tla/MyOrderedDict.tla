---------------------------- MODULE MyOrderedDict ----------------------------
(***************************************************************************)
(* The class MyOrderedDict of edfistat.py (lines 24-267): a dict subclass  *)
(* that keeps insertion order in a circular doubly linked list of links    *)
(* [PREV, NEXT, KEY] hanging off a sentinel link self.__root, with         *)
(* self.__map from each key to its link.  ConfigParser stores every        *)
(* section of the input and output files in one of these.                  *)
(*                                                                         *)
(* The state is the heap of links, __map and the inherited dict; each      *)
(* mutating method is one action, modelled as a pure transformer Do* of    *)
(* the state so that update(), which calls __setitem__ in a loop, is one   *)
(* step.  A link is a Python list: <<prev, next, key>>, or <<>> once       *)
(* clear() has run `del node[:]` on it.  Unlinked links are garbage and    *)
(* keep whatever they held, as in the code.                                 *)
(***************************************************************************)
EXTENDS Naturals, Sequences, SequencesExt, FiniteSets, TLC

CONSTANTS
  Keys, Values, None, KeyError, UpdateLen,
  Nodes,     \* identities of the link objects the class may allocate
  Root       \* the sentinel link self.__root

ASSUME Cardinality(Nodes) >= Cardinality(Keys) /\ Root \notin Nodes

VARIABLES
  link,      \* link object -> its list contents
  map,       \* self.__map: key -> link
  dict,      \* the inherited dict: key -> value
  ret,       \* the value returned by the last call
  exc        \* the exception raised by the last call, or None

vars == <<link, map, dict, ret, exc>>

PREV == 1
NEXT == 2
KEY  == 3

Links == Nodes \cup {Root}

\* Follow the dir pointers from n until the sentinel; a walk that meets an
\* emptied link or does not return to the sentinel yields Root as a marker.
RECURSIVE Walk(_, _, _, _)
Walk(lk, n, dir, fuel) ==
  CASE n = Root                   -> <<>>
    [] fuel = 0 \/ lk[n] = <<>>   -> <<Root>>
    [] OTHER -> <<lk[n][KEY]>> \o Walk(lk, lk[n][dir], dir, fuel - 1)

\* __iter__ (lines 71-77) and __reversed__ (lines 79-85) of the links lk.
IterOf(lk)     == Walk(lk, lk[Root][NEXT], NEXT, Cardinality(Nodes))
ReversedOf(lk) == Walk(lk, lk[Root][PREV], PREV, Cardinality(Nodes))
Iter     == IterOf(link)
Reversed == ReversedOf(link)

-----------------------------------------------------------------------------
(* The methods, as transformers of s = [link, map, dict].                  *)

S == [link |-> link, map |-> map, dict |-> dict]

\* A fresh list object: any link not reachable from __map.
NewLink(s) == CHOOSE n \in Nodes \ Range(s.map) : TRUE

\* __setitem__ (lines 52-60).
DoSetItem(s, k, v) ==
  IF k \in DOMAIN s.dict
  THEN [s EXCEPT !.dict = k :> v @@ @]
  ELSE LET last == s.link[Root][PREV]
           new  == NewLink(s)
       IN  [link |-> [s.link EXCEPT ![last][NEXT] = new,
                                    ![Root][PREV] = new,
                                    ![new] = <<last, Root, k>>],
            map  |-> k :> new @@ s.map,
            dict |-> k :> v @@ s.dict]

\* Drop key k from __map and the dict.
Forget(s, k, lnk) ==
  [link |-> lnk,
   map  |-> [x \in DOMAIN s.map \ {k} |-> s.map[x]],
   dict |-> [x \in DOMAIN s.dict \ {k} |-> s.dict[x]]]

\* Mutant: __delitem__ without `link_next[0] = link_prev`.
DoDelItemNoBackLink(s, k) ==
  LET p == s.link[s.map[k]][PREV]
      n == s.link[s.map[k]][NEXT]
  IN  Forget(s, k, [s.link EXCEPT ![p][NEXT] = n])

\* __delitem__ (lines 62-69) of a present key.
DoDelItem(s, k) ==
  LET p == s.link[s.map[k]][PREV]
      n == s.link[s.map[k]][NEXT]
  IN  Forget(s, k, [s.link EXCEPT ![p][NEXT] = n, ![n][PREV] = p])

\* Mutant: popitem taking the link from the wrong end of the ring.
PopLinkWrongEnd(s, last) ==
  IF last THEN s.link[Root][NEXT] ELSE s.link[Root][PREV]

\* Mutant: popitem without `del self.__map[key]`.
DoPopItemKeepsMap(s, last) ==
  LET l == IF last THEN s.link[Root][PREV] ELSE s.link[Root][NEXT]
      o == s.link[l][IF last THEN PREV ELSE NEXT]
      k == s.link[l][KEY]
  IN  [link |-> IF last THEN [s.link EXCEPT ![o][NEXT] = Root, ![Root][PREV] = o]
                        ELSE [s.link EXCEPT ![Root][NEXT] = o, ![o][PREV] = Root],
       map  |-> s.map,
       dict |-> [x \in DOMAIN s.dict \ {k} |-> s.dict[x]]]

\* popitem (lines 99-120) of a non-empty dict: the unlinked link and the
\* new state.
PopLink(s, last) ==
  IF last THEN s.link[Root][PREV] ELSE s.link[Root][NEXT]

DoPopItem(s, last) ==
  LET l == PopLink(s, last)
      o == s.link[l][IF last THEN PREV ELSE NEXT]
  IN  Forget(s, s.link[l][KEY],
             IF last THEN [s.link EXCEPT ![o][NEXT] = Root, ![Root][PREV] = o]
                     ELSE [s.link EXCEPT ![Root][NEXT] = o, ![o][PREV] = Root])

\* clear (lines 87-97).
DoClear(s) ==
  [link |-> [n \in Links |-> CASE n = Root            -> <<Root, Root, None>>
                               [] n \in Range(s.map) -> <<>>
                               [] OTHER              -> s.link[n]],
   map  |-> <<>>,
   dict |-> <<>>]

\* update (lines 150-179) with an iterable of items.
DoUpdate(s, other) ==
  FoldLeft(LAMBDA acc, kv : DoSetItem(acc, kv[1], kv[2]), s, other)

\* The state __init__ gives a new instance (lines 36-49).
EmptyState ==
  [link |-> [n \in Links |-> IF n = Root THEN <<Root, Root, None>> ELSE <<>>],
   map  |-> <<>>,
   dict |-> <<>>]

-----------------------------------------------------------------------------
(* The methods that build a new instance or only read one.                 *)

\* items() (lines 132-134); keys() and values() (lines 124-130) and the
\* iter* generators (lines 136-148) are its two columns.
ItemsOf(s) ==
  LET ks == IterOf(s.link) IN [i \in DOMAIN ks |-> <<ks[i], s.dict[ks[i]]>>]

\* __eq__ with another MyOrderedDict (lines 243-250): order-sensitive.
Eq(s, t) == Cardinality(DOMAIN s.dict) = Cardinality(DOMAIN t.dict) /\ ItemsOf(s) = ItemsOf(t)

\* Mutant: a copy filled in the inherited dict's own key order.
DoCopyDictOrder(s) ==
  LET ks == SetToSeq(DOMAIN s.dict)
  IN  DoUpdate(EmptyState, [i \in DOMAIN ks |-> <<ks[i], s.dict[ks[i]]>>])

\* copy() (lines 228-230) is self.__class__(self): __init__ of a new
\* instance, whose __update iterates the ring of s (`for key in other`).
DoCopy(s) == DoUpdate(EmptyState, ItemsOf(s))

\* fromkeys (lines 232-241): a new instance, then d[key] = value in the
\* iterable's order.
DoFromKeys(ks, v) == DoUpdate(EmptyState, [i \in DOMAIN ks |-> <<ks[i], v>>])

-----------------------------------------------------------------------------
Become(s, r, e) ==
  /\ link' = s.link
  /\ map' = s.map
  /\ dict' = s.dict
  /\ ret' = r
  /\ exc' = e

Raise(e) == /\ ret' = None /\ exc' = e /\ UNCHANGED <<link, map, dict>>

\* __init__ (lines 36-50) of a new, empty instance.
Init ==
  /\ link = EmptyState.link
  /\ map = EmptyState.map
  /\ dict = EmptyState.dict
  /\ ret = None
  /\ exc = None

SetItem(k, v) == Become(DoSetItem(S, k, v), None, None)

\* dict_delitem raises before __map is touched.
DelItem(k) ==
  IF k \in DOMAIN dict THEN Become(DoDelItem(S, k), None, None)
                       ELSE Raise(KeyError)

Clear == Become(DoClear(S), None, None)

PopItem(last) ==
  IF dict = <<>> THEN Raise(KeyError)
  ELSE LET k == link[PopLink(S, last)][KEY]
       IN  Become(DoPopItem(S, last), <<k, dict[k]>>, None)

\* pop (lines 185-196).
Pop(k, hasDefault, d) ==
  CASE k \in DOMAIN dict -> Become(DoDelItem(S, k), dict[k], None)
    [] hasDefault        -> Become(S, d, None)
    [] OTHER             -> Raise(KeyError)

\* setdefault (lines 198-203).
SetDefault(k, d) ==
  IF k \in DOMAIN dict THEN Become(S, dict[k], None)
                       ELSE Become(DoSetItem(S, k, d), d, None)

Update(other) == Become(DoUpdate(S, other), None, None)

Next ==
  \/ \E k \in Keys, v \in Values : SetItem(k, v)
  \/ \E k \in Keys : DelItem(k)
  \/ Clear
  \/ \E last \in BOOLEAN : PopItem(last)
  \/ \E k \in Keys, hasDefault \in BOOLEAN, d \in Values : Pop(k, hasDefault, d)
  \/ \E k \in Keys, d \in Values : SetDefault(k, d)
  \/ \E other \in BoundedSeq(Keys \X Values, UpdateLen) : Update(other)

Spec == Init /\ [][Next]_vars

-----------------------------------------------------------------------------
(* Properties.                                                             *)

TypeOK ==
  /\ link \in [Links -> {<<>>} \cup (Links \X Links \X (Keys \cup {None}))]
  /\ map \in [DOMAIN dict -> Nodes]
  /\ \A k \in DOMAIN dict : dict[k] \in Values
  /\ exc \in {None, KeyError}

\* The ring is consistent with __map in both directions: walking NEXT from
\* the sentinel yields each stored key exactly once, each through the link
\* __map holds for it, and walking PREV yields the same keys backwards.
\* A missed back-pointer update in __delitem__ or popitem only shows up
\* later, through reversed() or popitem(last=True).
RingConsistent ==
  /\ IsInjective(Iter)
  /\ ToSet(Iter) = DOMAIN map
  /\ \A k \in DOMAIN map : link[map[k]][KEY] = k
  /\ Reversed = Reverse(Iter)

\* copy(), which RawConfigParser.options() calls on every section, is
\* equal (__eq__, order included) to the dictionary it copies, and
\* fromkeys() of its keys() lists them in the same order: building a new
\* ring by iterating another one preserves the order of any reachable
\* ring, after deletions, pops and clears.
CopiesPreserveOrder ==
  /\ Eq(DoCopy(S), S)
  /\ IterOf(DoFromKeys(Iter, None).link) = Iter

\* The class implements the ordered-dictionary specification, with the key
\* order being what __iter__ yields.
OD == INSTANCE OrderedDict WITH order <- Iter
ODSpec == OD!Spec

====
