------------------------------ MODULE Edfistat ------------------------------
(***************************************************************************)
(* One run of edfistat.py: main() (lines 672-725) with the loader          *)
(* ConfigManager.configToItems (lines 575-588), the ActionManager and      *)
(* DataManager reductions (module DataManager) and the output writers      *)
(* ConfigManager.itemsTo* (lines 590-652).                                 *)
(*                                                                         *)
(* The command line and the input files are chosen in Init from small     *)
(* sets: the argument count, the file@section tokens, what each token's    *)
(* section holds (or the loader error it raises), the action name, and     *)
(* whether python runs with -O.  Each step of main is one action; an       *)
(* uncaught exception ends the run in "crash" (exit status 1).             *)
(***************************************************************************)
EXTENDS Integers, Sequences, SequencesExt, FiniteSets, DataManager

CONSTANTS
  ArgCounts,    \* len(argv) values to try; 4 is a well-formed command line
  Refs,         \* well-formed file@section tokens
  MalformedTokens, \* tokens that do not split into exactly file and section
  MaxFiles,     \* most tokens in the input specifier
  Sections,     \* possible section contents: sequences of <<key, value>>
  LoadErrors,   \* exceptions configToItems / getfloat may raise for a token
  ActionNames,  \* action arguments to try (may include unknown names)
  Builds,       \* subset of BOOLEAN: TRUE = python -O (asserts stripped)
  OutSections,  \* output section names (argv[1]) to try
  ReservedSections, \* those whose lower() is "default"
  LogLevel      \* CONF['LOG_LEVEL'] (line 285)

ASSUME MalformedTokens \cap Refs = {} /\ MaxFiles \in Nat /\ Builds \subseteq BOOLEAN
       /\ ReservedSections \subseteq OutSections

LOCAL OD == INSTANCE OrderedDict
  WITH order <- <<>>, dict <- <<>>, ret <- None, exc <- None,
       Keys <- {}, Values <- {}, KeyError <- None, UpdateLen <- 0

VARIABLES
  argc, files, fs, action, opt,     \* the run's inputs, fixed in Init
  outSection,
  pc,                               \* where main is
  keysList, valuesList,             \* the sections loaded so far
  outputKeys, outputValues,         \* the output record
  out,                              \* what has been written to stdout
  exc,                              \* the exception that ended the run
  stderr                            \* the lines main and log write to stderr

inputs == <<argc, files, fs, action, opt, outSection>>
vars == <<argc, files, fs, action, opt, outSection, pc, keysList, valuesList,
          outputKeys, outputValues, out, exc, stderr>>

KeysOf(sec)   == [i \in DOMAIN sec |-> sec[i][1]]
ValuesOf(sec) == [i \in DOMAIN sec |-> sec[i][2]]

Crash(e) == /\ pc' = "crash" /\ exc' = e

LOG_LEVELS == [critical |-> 1, error |-> 2, warning |-> 3, info |-> 4, debug |-> 5]

\* log (lines 657-670): the lines it writes to stderr; an unknown level
\* counts as 'error', and a level above CONF['LOG_LEVEL'] writes nothing.
Log(level, line) ==
  LET l == IF level \in DOMAIN LOG_LEVELS THEN level ELSE "error"
  IN  IF LOG_LEVELS[l] <= LOG_LEVELS[LogLevel] THEN <<[level |-> l, line |-> line]>>
      ELSE <<>>

-----------------------------------------------------------------------------
\* Mutant: every multi-section action labelled like "append".
OutputKeysConcatenated(isSingle, act, kl) ==
  IF isSingle THEN Ok(<<act>>) ELSE Ok(FlattenSeq(kl))

\* The output keys of main (lines 707-717); keysList[0] of an empty
\* keysList is an IndexError (only reachable under -O).
OutputKeys(isSingle, act, kl) ==
  CASE isSingle        -> Ok(<<act>>)
    [] act = "append"  -> Ok(FlattenSeq(kl))
    [] kl = <<>>       -> Err("IndexError")
    [] OTHER           -> Ok(kl[1])

\* config.write (line 597) writes a value with str(), 12 significant digits
\* in Python 2; what float() reads back is the value, or another float
\* (Reloaded).  Append writes the input values, read as integers, exactly.
\* A reducer that rounds once (a sum of integers, then at most one
\* division) yields the float nearest its exact result, which survives
\* when that result has a short terminating decimal expansion; a rational
\* whose expansion does not terminate never survives (12 digits are too
\* few to single out a double near p/q for small q).  For the reducers
\* that round several times the outcome depends on binary rounding, which
\* is not modelled, so both are possible.
Reloaded(v) == [reloaded |-> v]

OneRounding == {"median", "average", "sum", "min", "max", "div"}

StrFloat(act, v) ==
  CASE act = "append" \/ RIsZero(v)       -> {v}
    [] RNonTerminating(v)                 -> {Reloaded(v)}
    [] act \in OneRounding                -> {v}
    [] OTHER                              -> {v, Reloaded(v)}

\* itemsToConfig (lines 590-597): add_section, which raises ValueError for
\* a name whose lower() is "default", then config.set for each index of
\* keys into a MyOrderedDict section, then config.write of its items.  A
\* missing values[i] raises before anything is written.  The set of the outcomes
\* str() allows.
ItemsToConfig(act, sect, keys, values) ==
  CASE sect \in ReservedSections -> {[out |-> None, err |-> "ValueError"]}
    [] Len(keys) > Len(values)   -> {[out |-> None, err |-> "IndexError"]}
    [] OTHER ->
     {[out |-> [fmt |-> "ini",
                  rows |-> OD!ODItems(OD!ODUpdate(OD!ODEmpty, Zip(keys, w)))],
         err |-> None] :
        w \in {f \in [1..Len(keys) -> UNION {StrFloat(act, values[i]) : i \in 1..Len(keys)}] :
                 \A i \in 1..Len(keys) : f[i] \in StrFloat(act, values[i])}}

\* itemsToCSV / itemsToMatlab / itemsToRoot (lines 599-625) stream the
\* header (csv and matlab only) and one row per key; a missing values[i]
\* raises after the rows before it were written.  A root writer failing
\* on its first key has written nothing.
ItemsToStream(fmt, keys, values) ==
  LET n   == IF Len(keys) > Len(values) THEN Len(values) ELSE Len(keys)
      row(i) == IF fmt = "root" THEN values[i] ELSE <<keys[i], values[i]>>
      written == fmt # "root" \/ n > 0 \/ Len(keys) = 0
  IN  [out |-> IF written THEN [fmt |-> fmt, rows |-> [i \in 1..n |-> row(i)]] ELSE None,
       err |-> IF Len(keys) > Len(values) THEN "IndexError" ELSE None]

\* itemsToRootm (lines 627-639): one row per index of values[0], holding
\* that element of each value list; everything is built before writing.
ItemsToRootm(keys, values) ==
  CASE values = <<>> \/ Len(keys) > Len(values) -> [out |-> None, err |-> "IndexError"]
    [] \E i \in 1..Len(keys) : Len(values[i]) > Len(values[1])
                                     -> [out |-> None, err |-> "KeyError"]
    [] OTHER ->
         [out |-> [fmt |-> "rootm",
                   rows |-> [j \in 1..Len(values[1]) |->
                              FlattenSeq([i \in 1..Len(keys) |->
                                IF j <= Len(values[i]) THEN <<values[i][j]>> ELSE <<>>])]],
          err |-> None]

\* itemsToOutput (lines 641-652): the format is the action's name; the
\* set of outcomes it may have.
ItemsToOutput(fmt, sect, keys, values) ==
  CASE fmt \in {"csv", "matlab", "root"} -> {ItemsToStream(fmt, keys, values)}
    [] fmt = "rootm"                     -> {ItemsToRootm(keys, values)}
    [] OTHER                             -> ItemsToConfig(fmt, sect, keys, values)

-----------------------------------------------------------------------------
Init ==
  /\ argc \in ArgCounts
  /\ files \in BoundedSeq(Refs \cup MalformedTokens, MaxFiles)
  /\ fs \in [Refs -> Sections \cup LoadErrors]
  /\ action \in ActionNames
  /\ opt \in Builds
  /\ outSection \in OutSections
  /\ pc = "start"
  /\ keysList = <<>> /\ valuesList = <<>>
  /\ outputKeys = <<>> /\ outputValues = <<>>
  /\ out = None
  /\ exc = None
  /\ stderr = <<>>

\* The usage check (lines 675-677) and assert(len(files) > 0) (line 694).
Start ==
  /\ pc = "start"
  /\ CASE argc # 4 -> /\ pc' = "usage" /\ exc' = None
                       /\ stderr' = <<[level |-> None, line |-> "Usage"]>>
       [] ~Asserted(Len(files) > 0, opt) -> Crash("AssertionError") /\ UNCHANGED stderr
       [] OTHER -> pc' = "load" /\ exc' = None /\ UNCHANGED stderr
  /\ UNCHANGED <<inputs, keysList, valuesList, outputKeys, outputValues, out>>

\* Mutant: the loop appends the keys but not the values.
LoadForgetsValues ==
  /\ pc = "load"
  /\ Len(keysList) < Len(files)
  /\ LET tok == files[Len(keysList) + 1]
     IN  IF tok \in MalformedTokens \/ fs[tok] \in LoadErrors
         THEN /\ Crash(IF tok \in MalformedTokens THEN "InvalidToken" ELSE fs[tok])
              /\ UNCHANGED <<keysList, valuesList>>
         ELSE /\ keysList' = Append(keysList, KeysOf(fs[tok]))
              /\ UNCHANGED <<pc, exc, valuesList>>
  /\ UNCHANGED <<inputs, outputKeys, outputValues, out, stderr>>

\* One iteration of the loading loop (lines 695-704).
Load ==
  /\ pc = "load"
  /\ Len(keysList) < Len(files)
  /\ LET tok == files[Len(keysList) + 1]
     IN  IF tok \in MalformedTokens \/ fs[tok] \in LoadErrors
         THEN /\ Crash(IF tok \in MalformedTokens THEN "InvalidToken" ELSE fs[tok])
              /\ UNCHANGED <<keysList, valuesList>>
         ELSE /\ keysList' = Append(keysList, KeysOf(fs[tok]))
              /\ valuesList' = Append(valuesList, ValuesOf(fs[tok]))
              /\ UNCHANGED <<pc, exc>>
  /\ UNCHANGED <<inputs, outputKeys, outputValues, out, stderr>>

\* ActionManager construction, doAction and the output keys (lines 706-717).
Act ==
  /\ pc = "load"
  /\ Len(keysList) = Len(files)
  /\ LET isSingle == Len(keysList) = 1
         r        == DoAction(isSingle, action, valuesList, opt)
         k        == OutputKeys(isSingle, action, keysList)
         e        == CASE action \notin DOMAIN Table(isSingle) -> "BadAction"
                       [] ~r.ok -> r.err
                       [] ~k.ok -> k.err
                       [] OTHER -> None
     IN  IF e # None
         THEN Crash(e) /\ UNCHANGED <<outputKeys, outputValues>>
         ELSE /\ pc' = "write"
              /\ outputKeys' = k.val
              /\ outputValues' = r.val
              /\ UNCHANGED exc
  /\ UNCHANGED <<inputs, keysList, valuesList, out, stderr>>

\* itemsToOutput on stdout, log('debug', 'Done'), then sys.exit(0)
\* (lines 719-725).
Write ==
  /\ pc = "write"
  /\ \E w \in ItemsToOutput(action, outSection, outputKeys, outputValues) :
         /\ out' = w.out
         /\ IF w.err = None
            THEN pc' = "done" /\ stderr' = stderr \o Log("debug", "Done") /\ UNCHANGED exc
            ELSE Crash(w.err) /\ UNCHANGED stderr
  /\ UNCHANGED <<inputs, keysList, valuesList, outputKeys, outputValues>>

Next == Start \/ Load \/ Act \/ Write

\* Each step is the next statement of a sequential program.
Spec == Init /\ [][Next]_vars /\ WF_vars(Next)

-----------------------------------------------------------------------------
(* What the spec says a run computes, written from its reduction table     *)
(* (spec 4.1) and error policy (spec 7), independently of the code.        *)

Loaded == [j \in DOMAIN files |-> fs[files[j]]]
Column(D, i) == [j \in DOMAIN D |-> ValuesOf(D[j])[i]]

\* The k-th smallest element of l.
RefKth(l, k) ==
  CHOOSE x \in ToSet(l) :
    /\ Cardinality({i \in DOMAIN l : l[i] < x}) < k
    /\ k <= Cardinality({i \in DOMAIN l : l[i] <= x})

RefMean(l) == Q(FoldSeq(+, 0, l), Len(l))
\* Population variance as E[x^2] - E[x]^2.
RefVar(l)  == QSub(Q(FoldSeq(LAMBDA x, acc : x * x + acc, 0, l), Len(l)),
                   QMul(RefMean(l), RefMean(l)))

RefMedian(l) ==
  IF Len(l) % 2 = 1 THEN Int2Q(RefKth(l, (Len(l) + 1) \div 2))
  ELSE Q(RefKth(l, Len(l) \div 2) + RefKth(l, Len(l) \div 2 + 1), 2)

RefIncr(l) == QDiv(Int2Q(l[2] - l[1]), IF l[1] = 0 THEN Q(1, 1000) ELSE Int2Q(l[1]))

RefReduce(name, l) ==
  CASE name = "sum"     -> Real(Int2Q(FoldSeq(+, 0, l)))
    [] name = "average" -> Real(RefMean(l))
    [] name = "min"     -> Real(Int2Q(CHOOSE x \in ToSet(l) : \A y \in ToSet(l) : x <= y))
    [] name = "max"     -> Real(Int2Q(CHOOSE x \in ToSet(l) : \A y \in ToSet(l) : x >= y))
    [] name = "median"  -> Real(RefMedian(l))
    [] name = "var"     -> Real(RefVar(l))
    [] name = "stddev"  -> RSqrt(RefVar(l))
    [] name = "relincr" -> Real(RefIncr(l))
    [] name = "relerr"  -> RAbs(Real(RefIncr(l)))
    [] name = "div"     -> IF l[1] = 0 THEN Real(QZero) ELSE Real(Q(l[1], l[2]))
    [] name = "rsd"     -> IF RefMean(l) = QZero THEN Real(QZero)
                           ELSE RAbs(RDiv(RSqrt(RefVar(l)), Real(RefMean(l))))
    [] name = "rse"     -> IF RefMean(l) = QZero THEN Real(QZero)
                           ELSE RDiv(RSqrt(QDiv(RefVar(l), Int2Q(Len(l)))), Real(RefMean(l)))
    [] OTHER            -> l   \* csv, matlab, root, rootm: the values unchanged

\* The output record the spec defines for the loaded sections.
RefOutputValues ==
  LET D == Loaded
  IN  CASE Len(D) = 1         -> <<RefReduce(action, ValuesOf(D[1]))>>
        [] action = "append"  -> FlattenSeq([j \in DOMAIN D |-> ValuesOf(D[j])])
        [] OTHER              -> [i \in DOMAIN D[1] |-> RefReduce(action, Column(D, i))]

\* Spec 7: the inputs for which a run must fail.
LoadFails ==
  \E j \in DOMAIN files : files[j] \in MalformedTokens \/ fs[files[j]] \in LoadErrors

PreconditionFails ==
  LET D == Loaded
      N == Len(D)
  IN  IF N = 1 THEN D[1] = <<>> /\ action # "sum"
      ELSE /\ action # "append"
           /\ \/ \E j, k \in DOMAIN D : Len(D[j]) # Len(D[k])
              \/ action \in {"relerr", "relincr", "div"} /\ N # 2 /\ D[1] # <<>>

InputError ==
  \/ argc # 4
  \/ files = <<>>
  \/ LoadFails
  \/ action \notin DOMAIN Table(Len(files) = 1)
  \/ PreconditionFails

\* The failures of the code on input the spec accepts, each a finding:
\* listsRSE handing itself to listsOp (line 361), listDiv's unchecked
\* divisor (line 454), itemsToRootm's values[0] (line 631), and
\* add_section refusing "default" in the ini writer (line 593).
KnownDefect ==
  LET D == Loaded
  IN  \/ Len(D) > 1 /\ action = "rse" /\ D[Len(D)] # <<>>
      \/ /\ Len(D) = 2 /\ action = "div"
         /\ \E i \in DOMAIN D[1] : ValuesOf(D[1])[i] # 0 /\ ValuesOf(D[2])[i] = 0
      \/ Len(D) > 1 /\ action = "rootm" /\ D[1] = <<>>
      \/ outSection \in ReservedSections /\ action \notin {"csv", "matlab", "root", "rootm"}

-----------------------------------------------------------------------------
(* Properties.                                                             *)

TypeOK ==
  /\ pc \in {"start", "load", "write", "done", "crash", "usage"}
  /\ Len(keysList) = Len(valuesList) /\ Len(keysList) <= Len(files)
  /\ out = None \/ out.fmt \in {"ini", "csv", "matlab", "root", "rootm"}
  /\ (pc = "crash") = (exc # None)
  /\ \A i \in DOMAIN stderr : stderr[i].level \in DOMAIN LOG_LEVELS \cup {None}

\* Spec 7/8: a precondition failure (mismatched lengths, a relerr, relincr
\* or div over other than two sections, an empty section for a reducer
\* that needs values) ends the run with an error and never with exit 0
\* and a silently truncated result.  The code relies on the asserts of
\* listsOp, listAvg, listMin/Max and listRelIncr/listDiv for this.
PreconditionsEnforced == pc = "done" => ~InputError

\* A run that gets past doAction has computed exactly the values the
\* spec's reduction table gives for the loaded sections: the right table
\* entry, applied to the right columns, with the spec's zero-denominator
\* substitutions.
ResultMatchesReference ==
  pc \in {"write", "done"} => outputValues = RefOutputValues

\* A run that fails writes nothing to stdout: no truncated report is left
\* behind for the scripts that consume the output.
NoTruncatedOutput == pc = "crash" => out = None

\* Spec 7: a run fails only on the errors the spec lists (usage, bad file,
\* section or token, unknown action, a violated precondition).
NoSpuriousFailure == pc = "crash" => InputError

\* Spec 8: the ini output holds the output record: every (key, value)
\* pair, in order ("append" keeps all keys of all sections).
IniOutputIsRecord ==
  (pc = "done" /\ out.fmt = "ini") => out.rows = Zip(outputKeys, outputValues)

\* Spec 7, with the code's known defects: a run ends in exit 0 exactly
\* when its input is one the spec accepts and none of the four defects
\* applies.  Failures come from many places (the usage check, the token
\* loop, actionInit, asserts deep in listsOp columns, the writers); this
\* says that no other input fails and none of these succeeds.
FailuresAccountedFor ==
  pc \in {"done", "crash", "usage"} => ((pc = "done") = ~(InputError \/ KnownDefect))

====
