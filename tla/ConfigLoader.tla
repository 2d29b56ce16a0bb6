----------------------------- MODULE ConfigLoader -----------------------------
(***************************************************************************)
(* ConfigManager.configToItems (edfistat.py lines 568-588) loading one     *)
(* file@section token.  getConfigObj builds RawConfigParser(None,           *)
(* MyOrderedDict) (the eval of an assignment at line 570 always raises     *)
(* SyntaxError, so line 572 runs), whose _sections, _defaults and every     *)
(* section are ordered dictionaries.  config.read (line 578) runs the       *)
(* Python 2.7 RawConfigParser._read loop, one action per input line here;  *)
(* options() (line 584) is copy(), update(_defaults) and del '__name__';    *)
(* getfloat (line 585) is float(get()), and get() looks in the section     *)
(* before _defaults.  The dictionaries are the abstract OrderedDict, which  *)
(* MyOrderedDict is checked to implement.                                  *)
(*                                                                         *)
(* A file is a sequence of lines, abstracted to their kind: a section      *)
(* header, an option `key = value`, an indented continuation line, and a   *)
(* line that is neither.  Blank and comment lines change nothing and are   *)
(* left out.  Values are the numbers getfloat accepts; a continuation      *)
(* makes a value "a\nb", which float() rejects.                            *)
(***************************************************************************)
EXTENDS Integers, Sequences, SequencesExt, FiniteSets

CONSTANTS
  RawKeys,     \* option names as written in files
  Lower,       \* optionxform: RawKeys -> RawKeys, str.lower
  NameKey,     \* the option name '__name__'
  SectNames,   \* section names
  DefaultSect, \* 'DEFAULT'
  Nums,        \* values float() accepts
  Text,        \* any other value text
  MaxLines,    \* longest file
  None

ASSUME /\ Lower \in [RawKeys -> RawKeys]
       /\ \A k \in RawKeys : Lower[Lower[k]] = Lower[k]
       /\ NameKey \in RawKeys /\ DefaultSect \in SectNames
       /\ Text \notin Nums

LOCAL OD == INSTANCE OrderedDict
  WITH order <- <<>>, dict <- <<>>, ret <- None, exc <- None,
       Keys <- {}, Values <- {}, KeyError <- None, UpdateLen <- 0

Line ==
  [kind : {"header"}, name : SectNames] \cup
  [kind : {"option"}, key : RawKeys, val : Nums] \cup
  [kind : {"cont", "bad"}]

VARIABLES
  lines, target, readable,  \* the file, the section asked for, whether open() succeeds
  pos,                      \* the next line _read takes
  sections, defaults,       \* _sections (name -> ordered dict) and _defaults
  cursect, optname,         \* _read's current section and option
  perr,                     \* a ParsingError is pending
  opts,                     \* config.options(section)
  keys, values,             \* the lists configToItems builds
  pc, err

vars == <<lines, target, readable, pos, sections, defaults, cursect, optname,
          perr, opts, keys, values, pc, err>>

Fail(e) == pc' = "error" /\ err' = e

\* The dictionary cursect names, and storing a new version of it.
Cur == IF cursect = DefaultSect THEN defaults ELSE sections[cursect]
StoreCur(d) ==
  IF cursect = DefaultSect THEN defaults' = d /\ UNCHANGED sections
  ELSE sections' = [sections EXCEPT ![cursect] = d] /\ UNCHANGED defaults

\* A section header: an existing section is reopened, DEFAULT is _defaults,
\* a new section starts with '__name__' (its value kept as a one-line list).
Header(n) ==
  /\ IF n \in DOMAIN sections \/ n = DefaultSect
     THEN UNCHANGED <<sections, defaults>>
     ELSE /\ sections' = n :> OD!ODSet(OD!ODEmpty, NameKey, <<n>>) @@ sections
          /\ UNCHANGED defaults
  /\ cursect' = n
  /\ optname' = None

\* The end of _read: each value list is joined with '\n'.
Join(l) == IF Len(l) = 1 THEN l[1] ELSE Text
JoinAll(d) == [d EXCEPT !.dict = [k \in DOMAIN @ |-> Join(@[k])]]

Init ==
  /\ lines \in BoundedSeq(Line, MaxLines)
  /\ target \in SectNames
  /\ readable \in BOOLEAN
  /\ pos = 1
  /\ sections = <<>> /\ defaults = OD!ODEmpty
  /\ cursect = None /\ optname = None
  /\ perr = FALSE
  /\ opts = <<>> /\ keys = <<>> /\ values = <<>>
  /\ pc = "read" /\ err = None

\* config.read of a file open() fails on: configToItems raises.
NotRead ==
  /\ pc = "read" /\ ~readable
  /\ Fail("BadFilename")
  /\ UNCHANGED <<lines, target, readable, pos, sections, defaults, cursect,
                 optname, perr, opts, keys, values>>

\* One iteration of _read's loop.
ReadLine ==
  /\ pc = "read" /\ readable /\ pos <= Len(lines)
  /\ pos' = pos + 1
  /\ LET l == lines[pos] IN
     CASE l.kind = "cont" /\ cursect # None /\ optname # None ->
            /\ StoreCur(OD!ODSet(Cur, optname, Append(Cur.dict[optname], Text)))
            /\ UNCHANGED <<cursect, optname, perr, pc, err>>
       [] l.kind = "header" ->
            Header(l.name) /\ UNCHANGED <<perr, pc, err>>
       [] cursect = None ->
            Fail("MissingSectionHeaderError")
            /\ UNCHANGED <<sections, defaults, cursect, optname, perr>>
       [] l.kind = "option" ->
            /\ StoreCur(OD!ODSet(Cur, Lower[l.key], <<l.val>>))
            /\ optname' = Lower[l.key]
            /\ UNCHANGED <<cursect, perr, pc, err>>
       [] OTHER ->
            perr' = TRUE
            /\ UNCHANGED <<sections, defaults, cursect, optname, pc, err>>
  /\ UNCHANGED <<lines, target, readable, opts, keys, values>>

\* Mutant: _read without the final `if e: raise e`.
EndReadIgnoresParsingError ==
  /\ pc = "read" /\ readable /\ pos > Len(lines)
  /\ sections' = [n \in DOMAIN sections |-> JoinAll(sections[n])]
  /\ defaults' = JoinAll(defaults)
  /\ pc' = "options" /\ UNCHANGED err
  /\ UNCHANGED <<lines, target, readable, pos, cursect, optname, perr, opts,
                 keys, values>>

\* The end of _read: a pending ParsingError is raised, else the values
\* are joined.
EndRead ==
  /\ pc = "read" /\ readable /\ pos > Len(lines)
  /\ IF perr
     THEN Fail("ParsingError") /\ UNCHANGED <<sections, defaults>>
     ELSE /\ sections' = [n \in DOMAIN sections |-> JoinAll(sections[n])]
          /\ defaults' = JoinAll(defaults)
          /\ pc' = "options" /\ UNCHANGED err
  /\ UNCHANGED <<lines, target, readable, pos, cursect, optname, perr, opts,
                 keys, values>>

\* has_section (line 580) and options() (line 584).
Options ==
  /\ pc = "options"
  /\ IF target \notin DOMAIN sections
     THEN Fail("BadSection") /\ UNCHANGED opts
     ELSE LET o == OD!ODUpdate(sections[target], OD!ODItems(defaults))
          IN  /\ opts' = (IF NameKey \in DOMAIN o.dict THEN OD!ODDel(o, NameKey)
                                                       ELSE o).order
              /\ pc' = "items" /\ UNCHANGED err
  /\ UNCHANGED <<lines, target, readable, pos, sections, defaults, cursect,
                 optname, perr, keys, values>>

\* Mutant: the loop without `values.append(value)`.
GetFloatForgetsValue ==
  /\ pc = "items" /\ Len(keys) < Len(opts)
  /\ LET o == Lower[opts[Len(keys) + 1]]
         v == IF o \in DOMAIN sections[target].dict THEN sections[target].dict[o]
              ELSE defaults.dict[o]
     IN  IF v \in Nums
         THEN keys' = Append(keys, opts[Len(keys) + 1]) /\ UNCHANGED <<values, pc, err>>
         ELSE Fail("ValueError") /\ UNCHANGED <<keys, values>>
  /\ UNCHANGED <<lines, target, readable, pos, sections, defaults, cursect,
                 optname, perr, opts>>

\* Mutant: get() looking in _defaults before the section.
GetFloatDefaultsFirst ==
  /\ pc = "items" /\ Len(keys) < Len(opts)
  /\ LET o == Lower[opts[Len(keys) + 1]]
         v == IF o \in DOMAIN defaults.dict THEN defaults.dict[o]
              ELSE sections[target].dict[o]
     IN  IF v \in Nums
         THEN keys' = Append(keys, opts[Len(keys) + 1]) /\ values' = Append(values, v)
              /\ UNCHANGED <<pc, err>>
         ELSE Fail("ValueError") /\ UNCHANGED <<keys, values>>
  /\ UNCHANGED <<lines, target, readable, pos, sections, defaults, cursect,
                 optname, perr, opts>>

\* One iteration of the loop of lines 584-587: getfloat, then the appends.
GetFloat ==
  /\ pc = "items" /\ Len(keys) < Len(opts)
  /\ LET o == Lower[opts[Len(keys) + 1]]
         v == IF o \in DOMAIN sections[target].dict THEN sections[target].dict[o]
              ELSE defaults.dict[o]
     IN  IF v \in Nums
         THEN keys' = Append(keys, opts[Len(keys) + 1]) /\ values' = Append(values, v)
              /\ UNCHANGED <<pc, err>>
         ELSE Fail("ValueError") /\ UNCHANGED <<keys, values>>
  /\ UNCHANGED <<lines, target, readable, pos, sections, defaults, cursect,
                 optname, perr, opts>>

\* return (keys, values) (line 588).
Return ==
  /\ pc = "items" /\ Len(keys) = Len(opts)
  /\ pc' = "done"
  /\ UNCHANGED <<lines, target, readable, pos, sections, defaults, cursect,
                 optname, perr, opts, keys, values, err>>

Next == NotRead \/ ReadLine \/ EndRead \/ Options \/ GetFloat \/ Return

\* Each step is the next statement of one sequential call.
Spec == Init /\ [][Next]_vars /\ WF_vars(Next)

-----------------------------------------------------------------------------
(* What the file says the section holds, read off its lines directly.      *)

\* The header in force at line i, or None before the first header.
SectionAt(i) ==
  LET h == SelectLastInSeq(SubSeq(lines, 1, i - 1), LAMBDA l : l.kind = "header")
  IN  IF h = 0 THEN None ELSE lines[h].name

IsOptionOf(S, i) == lines[i].kind = "option" /\ SectionAt(i) = S

Dedup(s) == FoldLeft(LAMBDA acc, k : IF k \in ToSet(acc) THEN acc ELSE Append(acc, k), <<>>, s)

\* The distinct option names of section S, in order of first appearance.
KeysIn(S) ==
  LET idx == SelectSeq([i \in 1..Len(lines) |-> i], LAMBDA i : IsOptionOf(S, i))
  IN  SelectSeq(Dedup([j \in DOMAIN idx |-> Lower[lines[idx[j]].key]]),
                LAMBDA k : k # NameKey)

\* The value of the last line that sets k in S: its number, or Text when
\* a continuation line follows it.
ValueIn(S, k) ==
  LET i == SelectLastInSeq([j \in 1..Len(lines) |-> j],
                           LAMBDA j : IsOptionOf(S, j) /\ Lower[lines[j].key] = k)
  IN  IF i < Len(lines) /\ lines[i + 1].kind = "cont" THEN Text ELSE lines[i].val

RefKeys == KeysIn(target) \o SelectSeq(KeysIn(DefaultSect), LAMBDA k : k \notin ToSet(KeysIn(target)))
RefValue(k) == IF k \in ToSet(KeysIn(target)) THEN ValueIn(target, k) ELSE ValueIn(DefaultSect, k)

\* A continuation line continues an option when the nearest option or
\* header line before it is an option.
ContAttached(i) ==
  LET p == SelectLastInSeq(SubSeq(lines, 1, i - 1), LAMBDA l : l.kind \in {"header", "option"})
  IN  p # 0 /\ lines[p].kind = "option"

\* The files the loader must reject: unreadable, a malformed line, no such
\* section, or a value of the section that is not a number.
RefError ==
  \/ ~readable
  \/ \E i \in 1..Len(lines) :
       \/ lines[i].kind = "bad"
       \/ lines[i].kind = "cont" /\ ~ContAttached(i)
       \/ lines[i].kind = "option" /\ SectionAt(i) = None
  \/ target = DefaultSect
  \/ \A i \in 1..Len(lines) : lines[i] # [kind |-> "header", name |-> target]
  \/ \E k \in ToSet(RefKeys) : RefValue(k) = Text

-----------------------------------------------------------------------------
(* Properties.                                                             *)

TypeOK ==
  /\ pc \in {"read", "options", "items", "done", "error"}
  /\ pos \in 1..Len(lines) + 1
  /\ Len(keys) = Len(values) /\ Len(keys) <= Len(opts)
  /\ (pc = "error") = (err # None)

\* A loaded section holds the distinct options of the section in file
\* order (case folded, a repeated option keeping its first place and its
\* last value, the section reopened by a later header included), then the
\* DEFAULT options it lacks, without '__name__': what the copy(),
\* update(_defaults), del and get() calls on the ordered dictionaries add
\* up to.
LoadedMatchesReference ==
  pc = "done" => /\ keys = RefKeys
                 /\ values = [i \in DOMAIN RefKeys |-> RefValue(RefKeys[i])]

\* configToItems raises exactly for the files the loader must reject,
\* whether _read raises at once (no header yet), at the end (ParsingError)
\* or getfloat fails later.
LoadFailsIffBadFile ==
  pc \in {"done", "error"} => ((pc = "error") = RefError)

\* Spec 3: a dataset is the (key, value) pairs of the named section, in
\* their order of appearance in that section.
DatasetIsSection == pc = "done" => keys = KeysIn(target)

====
