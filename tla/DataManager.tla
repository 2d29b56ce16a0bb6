----------------------------- MODULE DataManager -----------------------------
(***************************************************************************)
(* The reduction library (class DataManager, edfistat.py lines 292-513)    *)
(* and the action tables of ActionManager (lines 515-563), as pure         *)
(* operators.  A list is a sequence of integers (the values getfloat       *)
(* parsed); a reducer returns an Outcome: the value, or the Python         *)
(* exception it raises.  opt is TRUE when the interpreter runs with -O     *)
(* (or PYTHONOPTIMIZE), which strips every `assert`; the code then goes on *)
(* to whatever the next line does with the unchecked input.                *)
(***************************************************************************)
EXTENDS Integers, Sequences, SequencesExt, Arith

CONSTANT None

Ok(v)  == [ok |-> TRUE,  val |-> v,    err |-> None]
Err(e) == [ok |-> FALSE, val |-> None, err |-> e]

\* `assert cond` passes: it holds, or asserts are stripped.
Asserted(cond, opt) == opt \/ cond

QList(l)  == [i \in DOMAIN l |-> Int2Q(l[i])]
SumQ(l)   == FoldLeft(QAdd, QZero, QList(l))
AvgQ(l)   == QDiv(SumQ(l), Int2Q(Len(l)))                          \* l # <<>>
\* listCovariance(l, l): mean squared deviation, divided by N.
VarQ(l)   == LET m == AvgQ(l)
             IN  QDiv(FoldLeft(LAMBDA acc, x : QAdd(acc, QMul(QSub(x, m), QSub(x, m))),
                               QZero, QList(l)),
                      Int2Q(Len(l)))

-----------------------------------------------------------------------------
(* Single-list reducers.                                                   *)

\* listMax, listMin (lines 396-412).
ListMax(l, opt) ==
  CASE ~Asserted(Len(l) > 0, opt) -> Err("AssertionError")
    [] l = <<>>                    -> Err("IndexError")
    [] OTHER -> Ok(Real(Int2Q(Max(ToSet(l)))))

ListMin(l, opt) ==
  CASE ~Asserted(Len(l) > 0, opt) -> Err("AssertionError")
    [] l = <<>>                    -> Err("IndexError")
    [] OTHER -> Ok(Real(Int2Q(Min(ToSet(l)))))

\* listSum (lines 414-419): 0 for the empty list.
ListSum(l, opt) == Ok(Real(SumQ(l)))

\* listAvg (lines 421-424).
ListAvg(l, opt) ==
  CASE ~Asserted(Len(l) > 0, opt) -> Err("AssertionError")
    [] l = <<>>                    -> Err("ZeroDivisionError")
    [] OTHER -> Ok(Real(AvgQ(l)))

\* Mutant: the even case averaging the ends of the sorted list.
ListMedianEvenEnds(l, opt) ==
  LET s == SortSeq(l, <)
      n == Len(l)
  IN  CASE n = 0      -> Err("IndexError")
        [] n % 2 = 1  -> Ok(Real(Int2Q(s[(n + 1) \div 2])))
        [] OTHER      -> Ok(Real(Q(s[1] + s[n], 2)))

\* listMedian (lines 426-434): no assert; the empty list fails on myList[-1].
ListMedian(l, opt) ==
  LET s == SortSeq(l, <)
      n == Len(l)
  IN  CASE n = 0      -> Err("IndexError")
        [] n % 2 = 1  -> Ok(Real(Int2Q(s[(n + 1) \div 2])))
        [] OTHER      -> Ok(Real(Q(s[n \div 2] + s[n \div 2 + 1], 2)))

\* Mutant: listRelIncr without `assert len(list) == 2`.
ListRelIncrNoAssert(l, opt) ==
  CASE Len(l) < 2 -> Err("IndexError")
    [] OTHER ->
         LET base == IF l[1] = 0 THEN Q(1, 1000) ELSE Int2Q(l[1])
         IN  Ok(Real(QDiv(Int2Q(l[2] - l[1]), base)))

\* listRelIncr (lines 440-447): a zero base is replaced by 0.001.
ListRelIncr(l, opt) ==
  CASE ~Asserted(Len(l) = 2, opt) -> Err("AssertionError")
    [] Len(l) < 2                  -> Err("IndexError")
    [] OTHER ->
         LET base == IF l[1] = 0 THEN Q(1, 1000) ELSE Int2Q(l[1])
         IN  Ok(Real(QDiv(Int2Q(l[2] - l[1]), base)))

\* listRelErr (lines 436-438).
ListRelErr(l, opt) ==
  LET r == ListRelIncr(l, opt)
  IN  IF r.ok THEN Ok(RAbs(r.val)) ELSE r

\* listDiv (lines 449-454): a zero first element gives 0; the second
\* element, the divisor, is not checked.
ListDiv(l, opt) ==
  CASE ~Asserted(Len(l) = 2, opt) -> Err("AssertionError")
    [] Len(l) = 0                  -> Err("IndexError")
    [] l[1] = 0                    -> Ok(Real(QZero))
    [] Len(l) = 1                  -> Err("IndexError")
    [] l[2] = 0                    -> Err("ZeroDivisionError")
    [] OTHER                       -> Ok(Real(Q(l[1], l[2])))

\* listVariance and listStddev (lines 477-498): the assert on equal lengths
\* holds for (l, l); listAvg is where an empty list fails.
ListVariance(l, opt) ==
  LET a == ListAvg(l, opt) IN IF a.ok THEN Ok(Real(VarQ(l))) ELSE a

ListStddev(l, opt) ==
  LET a == ListAvg(l, opt) IN IF a.ok THEN Ok(RSqrt(VarQ(l))) ELSE a

\* listRSD (lines 456-461).
ListRSD(l, opt) ==
  LET a == ListAvg(l, opt)
  IN  CASE ~a.ok          -> a
        [] RIsZero(a.val) -> Ok(Real(QZero))
        [] OTHER          -> Ok(RAbs(RDiv(RSqrt(VarQ(l)), a.val)))

\* listRSE with listStderr (lines 463-475): no fabs.
ListRSE(l, opt) ==
  LET a == ListAvg(l, opt)
  IN  CASE ~a.ok          -> a
        [] RIsZero(a.val) -> Ok(Real(QZero))
        [] OTHER -> Ok(RDiv(RDiv(RSqrt(VarQ(l)), RSqrt(Int2Q(Len(l)))), a.val))

\* listNoop (lines 511-513).
ListNoop(l, opt) == Ok(l)

\* DataManager.listsRSE used as a per-element reducer: it runs listsOp over
\* a list of floats, and len() of the first float raises TypeError.
ListsRSEOnColumn(l, opt) ==
  IF l = <<>> THEN Ok(<<>>) ELSE Err("TypeError")

\* The function a table entry names, applied to one list.
ApplyList(f, l, opt) ==
  CASE f = "listMedian"   -> ListMedian(l, opt)
    [] f = "listAvg"      -> ListAvg(l, opt)
    [] f = "listVariance" -> ListVariance(l, opt)
    [] f = "listStddev"   -> ListStddev(l, opt)
    [] f = "listMin"      -> ListMin(l, opt)
    [] f = "listMax"      -> ListMax(l, opt)
    [] f = "listSum"      -> ListSum(l, opt)
    [] f = "listRelErr"   -> ListRelErr(l, opt)
    [] f = "listRelIncr"  -> ListRelIncr(l, opt)
    [] f = "listDiv"      -> ListDiv(l, opt)
    [] f = "listRSD"      -> ListRSD(l, opt)
    [] f = "listsRSE"     -> ListsRSEOnColumn(l, opt)
    [] f = "listNoop"     -> ListNoop(l, opt)

-----------------------------------------------------------------------------
(* Multi-list reducers.                                                    *)

\* The assert of line 313 compares each list with the one before it, and
\* only when the one before is non-empty.
LengthAssertFails(coll) ==
  \E j \in 2..Len(coll) : Len(coll[j-1]) # 0 /\ Len(coll[j-1]) # Len(coll[j])

\* listsOp (lines 309-321): f applied to column i = [l[i] for l in coll]
\* for i below the LAST list's length; a shorter list raises IndexError
\* and the first failing column's exception propagates.
ListsOp(coll, f, opt) ==
  LET listLen == IF coll = <<>> THEN 0 ELSE Len(coll[Len(coll)])
      RECURSIVE Cols(_, _)
      Cols(i, acc) ==
        IF i > listLen THEN Ok(acc)
        ELSE IF \E j \in DOMAIN coll : Len(coll[j]) < i THEN Err("IndexError")
        ELSE LET r == ApplyList(f, [j \in DOMAIN coll |-> coll[j][i]], opt)
             IN  IF r.ok THEN Cols(i + 1, Append(acc, r.val)) ELSE r
  IN  IF ~Asserted(~LengthAssertFails(coll), opt) THEN Err("AssertionError")
                                                  ELSE Cols(1, <<>>)

\* listsAppend (lines 375-380).
ListsAppend(coll) == FlattenSeq(coll)

-----------------------------------------------------------------------------
(* ActionManager (lines 515-563).                                          *)

\* singleActionDictionary (lines 519-527).
SingleTable ==
  [median |-> "listMedian", average |-> "listAvg", var |-> "listVariance",
   stddev |-> "listStddev", min |-> "listMin", max |-> "listMax",
   sum |-> "listSum"]

\* multiActionDictionary (lines 528-546): listsX is listsOp(., listX);
\* "append" is listsAppend; listsRSE passes itself to listsOp (line 361).
MultiTable ==
  [median |-> "listMedian", average |-> "listAvg", var |-> "listVariance",
   stddev |-> "listStddev", min |-> "listMin", max |-> "listMax",
   sum |-> "listSum", relerr |-> "listRelErr", relincr |-> "listRelIncr",
   div |-> "listDiv", rsd |-> "listRSD", rse |-> "listsRSE",
   append |-> "append", csv |-> "listNoop", matlab |-> "listNoop",
   root |-> "listNoop", rootm |-> "listNoop"]

\* __init__ and actionInit: the table consulted (lines 547-555).
Table(isSingle) == IF isSingle THEN SingleTable ELSE MultiTable

\* doAction (lines 557-563).
DoAction(isSingle, action, lists, opt) ==
  LET f == Table(isSingle)[action]
  IN  CASE isSingle ->
             LET r == ApplyList(f, lists[1], opt)
             IN  IF r.ok THEN Ok(<<r.val>>) ELSE r
        [] f = "append" -> Ok(ListsAppend(lists))
        [] OTHER        -> ListsOp(lists, f, opt)

====
