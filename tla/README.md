# TLA+ models of edfistat

`src/llvm/tools/edfi/edfistat/edfistat.py` is a Python 2 command-line tool of the
EDFI fault-injection framework. It reads one or more `file@section` sections of
numeric results (INI files), reduces them with a statistical action
(median, average, var, stddev, min, max, sum, relerr, relincr, div, rsd, rse,
append) or reformats them (csv, matlab, root, rootm), and writes the result
to stdout. This directory holds TLA+ models of the program, the TLC
configurations that check them, and `PROJECT.json`, which maps every modelling
definition to the source lines it translates.

## The parts of the program and how they interact

| Part | Code (edfistat.py) | State | Operations |
|---|---|---|---|
| MyOrderedDict | class, lines 24-267 | sentinel `__root`, links `[PREV, NEXT, KEY]`, `__map`, the inherited dict | `__init__`, `__setitem__`, `__delitem__`, `clear`, `popitem`, `update`, `pop`, `setdefault`; `__iter__`/`__reversed__` read the ring |
| DataManager | lines 292-513 | none (static reducers) | `listX` reducers of one list, `listsOp` that applies one to each column of several lists, `listsAppend` |
| ActionManager | lines 515-563 | the chosen table entry | table construction, `actionInit` (unknown action is an error), `doAction` |
| ConfigManager | lines 565-652 | a `RawConfigParser` whose sections are `MyOrderedDict`s | `configToItems` (load one section), `itemsToConfig`/`CSV`/`Matlab`/`Root`/`Rootm` (write the result) |
| main | lines 672-725 | `files`, `keysList`, `valuesList`, output record | usage check, input specifier (`file://` manifest or `:` list) and `@` split, load loop, action, output keys, write, exit |
| log | lines 657-670 | `LOG_LEVELS`, `CONF` | writes a line to stderr if its level is at or below `CONF['LOG_LEVEL']` |

`main` loads every section through `ConfigManager`, which uses `RawConfigParser`
with `MyOrderedDict` as its dict type so keys keep file order. It hands the value
lists to `ActionManager`, which picks the single-section table (one section) or the
multi-section table. The multi-section reducers are `listsOp` with a
single-list reducer applied column by column. The output keys are the action
name (single), all keys (append), or the first section's keys. The record goes
to one of the writers. The ini writer stores it in another `MyOrderedDict`
section through `config.set`.

What is hard in this code is not concurrency, because there is none. It is:
- pointer updates of the linked ring whose mistakes only show several calls later;
- exceptions that propagate from deep inside `listsOp` columns;
- zero and empty edge cases in the reducers;
- preconditions enforced only by `assert`, which `python -O` strips;
- combining sections by position whatever their key order;
- writers that stream output before they fail;
- an input specifier split on `:` and `@` with no quoting, and manifest lines that are stripped.

## Modules

| Module | Models | How |
|---|---|---|
| `OrderedDict` | what `MyOrderedDict` promises | Variables are the key `order`, the `dict`, and `ret`/`exc` of the last call. There is one action per mutating method. The pure operators `ODSet`, `ODDel`, `ODUpdate` and `ODItems` are reused by `Edfistat` for the ini writer. |
| `MyOrderedDict` | the class itself | The variables are `link`, a heap of link objects, where a link is `<<prev, next, key>>`, or `<<>>` after `del node[:]`; `map` (`__map`); and `dict`. Each method is a transformer `Do*` of the state, so `update()` and `pop()` (which call `__setitem__`/`__delitem__`) are single steps, exactly as a caller observes them. `Iter`/`Reversed` are the walks of `__iter__`/`__reversed__`. `DoCopy`, `DoFromKeys`, `ItemsOf` and `Eq` are `copy`, `fromkeys`, `items` (with `keys`, `values` and the `iter*` generators) and `__eq__`, as operators on a state. `EmptyState` is what `__init__` builds. |
| `MCMyOrderedDict` | TLC instance | 3 keys, 2 values, 3 link objects, update() of at most 2 items. |
| `Arith` | exact numbers | Rationals in lowest terms and `s*sqrt(q)` for the one irrational operation (`math.sqrt`). |
| `DataManager` | DataManager and ActionManager | Each reducer is an operator from an integer list to `Ok(value)` or `Err(exception)`. `opt` is the `-O` build, in which every `assert` passes and the code reaches its next failing line. `ListsOp` is `listsOp` with the line-313 assert exactly as written. `DoAction` is `doAction`. |
| `Edfistat` | one run of `main` with the loader and writers | The inputs (argc, the token sequence, each token's section or loader error as `ConfigLoader` produces them, the action, the output section name, the build) are fixed in `Init`. The actions are `Start` (usage check and the file-list assert), `Load` (one loop iteration), `Act` (ActionManager, doAction, output keys) and `Write` (itemsToOutput, `log('debug', 'Done')` and exit). `stderr` holds what the usage message and `log` write; `Log` is `log` with the level table and `CONF['LOG_LEVEL']` (`LogLevel`, `info`). `pc` ends in `done`, `usage` or `crash`. No property is stated about `stderr`: an uncaught exception also prints a Python traceback there, which is not modelled. The ini writer models `add_section` (which refuses a name whose lower() is `default`) and `str()` of each value (12 significant digits in Python 2). What reads back is the value, or another float `Reloaded(v)`. Three cases are decided exactly. A rational whose decimal expansion does not terminate never reads back unchanged. A reducer that rounds once (sum, average, median, min, max, div) reads back exactly when its result has a short terminating expansion. Input values that append writes always read back exactly. For the other reducers, both outcomes are allowed, because binary rounding is not modelled. A reference section, written from spec.md's reduction table, gives what a run should compute. |
| `ConfigLoader` | `getConfigObj`/`configToItems` with the `RawConfigParser` calls they make | The file is a sequence of lines abstracted to their kind (header, `key = value`, indented continuation, malformed). `ReadLine` is one iteration of Python 2.7's `RawConfigParser._read` loop over ordered-dictionary sections built with the `OrderedDict` operators, which `MyOrderedDict` is checked to implement. `EndRead` raises the deferred ParsingError or joins continuation lines. `Options` is `has_section` and `options()` (copy, `update(_defaults)`, `del '__name__'`). `GetFloat` is one iteration of the loop at lines 584-587 (`get()` looks in the section before DEFAULT). A reference section reads the expected dataset straight off the lines. |
| `MCConfigLoader` | TLC instance | Files of up to 4 lines over sections `s`, `t`, `DEFAULT`, option names `x`, `X`, `__name__`, values 1 and 2. |
| `MCEdfistat` | TLC instance | Keys `x`, `y`; tokens `r1`, `r2` and one malformed token; values in {-1, 0, 2}. |
| `Specifier` | `main` lines 679-704: reading the input specifier | Strings are sequences of characters. `Init` picks the (file, section) pairs the user means and writes them as spec 6 describes: joined by `:`, or as a manifest of padded lines with or without a final newline. `ReadSpecifier` is the `file://` match, `open()`, `for line in file` with `strip()`, or `split(':')`, then the assert. `LoadToken` is one loop iteration: `split('@')`, the length check, and `configToItems`, which returns or raises. |
| `MCSpecifier` | TLC instance | Names of one or two characters over `a`, `b`; a manifest line padded with one blank or none; up to two pairs. |

The refinement: `MyOrderedDict` instantiates `OrderedDict` with `order <- Iter` (the
key sequence the ring yields) and checks `OD!Spec` as a property. Every step of the
linked list is therefore a step of the abstract dictionary with the same return value
and exception.

## Runs

| Run | cfg | Expect | What it shows |
|---|---|---|---|
| ordered_dict_refinement | MCMyOrderedDict.cfg | pass | `RingConsistent`: the ring, walked forward and backward, holds exactly the keys of `__map`, each through its own link. `CopiesPreserveOrder`: `copy()` (which `options()` calls on every section) is `==` to the original, order included, and `fromkeys(keys())` lists the keys in the same order, for every reachable ring. `ODSpec`: the class implements `OrderedDict`. About 31k states. |
| pipeline | MCEdfistat.cfg | pass | Without `-O`, for every input of up to 4 sections: a run exits 0 exactly when the spec accepts its input and none of four known defects applies (`FailuresAccountedFor`). The defects are `rse` over several sections (line 361), `div` by a zero second value (454), `rootm` of empty sections (631), and an output section named `default` (593). Dropping any one of them from `KnownDefect` makes TLC report a violation. Every run that reaches the writer computed the spec's reduction (`ResultMatchesReference`). A failed run leaves no partial output (`NoTruncatedOutput`): without `-O` every writer failure comes before its first write. About 5.5M states, including an output section named `default`. |
| optimized_asserts | MCEdfistat_optimized.cfg | violation | Under `-O`, relincr over three sections exits 0 with `(b-a)/a` of the first two. |
| config_loader | MCConfigLoader.cfg | pass | `LoadedMatchesReference`: a loaded dataset is the section's distinct options in file order. Option names are case folded; a repeated option keeps its first place and its last value; a reopened section adds to the same section; DEFAULT options the section lacks are appended; `__name__` is dropped; the section's value wins over DEFAULT. `LoadFailsIffBadFile`: the loader fails exactly on the files it must reject: unreadable, a line before any header, a malformed or stray continuation line, no such section, a non-numeric value. About 258k states. |
| default_section_in_dataset | MCConfigLoader_default.cfg | violation | `[DEFAULT] x=1` followed by `[s]` loads `s` as `{x: 1}`: DEFAULT options enter every dataset. |
| ini_float_roundtrip | MCEdfistat_roundtrip.cfg | violation | The average of three sections, -2/3, is written as `-0.666666666667`, which does not read back as the computed value (spec 8 round trip). |
| specifier | MCSpecifier.cfg | pass | `LoadsWrittenPairs`: the `:` split, or the manifest's lines with `strip()`, followed by the `@` split, hand `configToItems` exactly the written pairs in order. `NoInvalidToken`: such a specifier is never rejected as malformed. `TypeOK` includes that every handed pair is made of names from `Names`, so no blank or newline survives. About 341k states. |
| manifest_blank_line | MCSpecifier_blank.cfg | violation | A manifest ending in a blank line (`a@a\n\n`) gives the token `''`, and line 698 raises `Invalid file|section name`. |
| rse_typeerror | MCEdfistat_rse.cfg | violation | The multi-section `rse` action raises TypeError on any non-empty input (`listsRSE` passes itself to `listsOp`, line 361). |
| div_zero_divisor | MCEdfistat_div.cfg | violation | `div` raises ZeroDivisionError when the second section's value is 0 (line 454). |
| append_ini_collapse | MCEdfistat_append.cfg | violation | `append` of sections sharing a key writes fewer ini lines than the record has entries (line 596). |
| optimized_truncated_output | MCEdfistat_truncated.cfg | violation | Under `-O`, `matlab` over sections `[x:-1]` and `[]` fails after writing its header: the stripped length assert lets `listsOp` return no values for the one key, and line 615 raises IndexError with the header on stdout (`NoTruncatedOutput`; spec 7: no partial result). |

Each property of the passing runs has a mutant in `PROJECT.json`: a plausible
bug in the mapped code that TLC must catch under the run's own cfg. Examples
are a missing back pointer in `__delitem__`, `popitem` from the wrong end, a
median of the unsorted list, and a dropped `assert len(list) == 2`. A median whose even case averages the ends of the sorted list agrees with the right one on every list of two values: with 3 sections the pipeline run missed it; with 4 it catches it.

## Bounds, and why they are enough

- **MCMyOrderedDict.** With 3 keys, the ring can hold 0 to 3 links, so there is a
  head, a tail and a middle element. Deleting the middle link exercises both
  neighbour updates. There are as many link objects as keys; a fresh link is any
  one not in `__map`, which reuses garbage links just as CPython may. An update
  of 2 items covers new-then-existing keys within one call.
- **MCEdfistat.**
  - Up to 4 tokens. relerr/relincr/div need exactly 2, and the truncation
    needs 3. Four give columns of even length beyond 2, where a median
    taking the wrong middle pair first differs.
  - Sections of 0, 1 or 2 keys, so there are empty, unequal and equal lengths.
  - Values -1, 0 and 2, so there are zero denominators, negative means, odd and
    even medians, and a non-zero stddev.
  - One malformed token and one loader error.
  - argc of 3 or 4.
  - All 17 action names plus one unknown name.

  - Output section `out` or `default`.

  The violation runs narrow the actions and sections so that the counterexample
  is the short one described.
- **MCConfigLoader.** With 4 lines there are:
  - a header plus three options, so a case-folded duplicate can sit between two other keys;
  - DEFAULT shadowing a section option, and DEFAULT adding one;
  - a section reopened after another;
  - a continuation after an option or after a header;
  - a malformed line before or after the headers.

  Two option names that fold together, plus `__name__`, cover every branch of `_read`.
- **MCSpecifier.** Two pairs give a separator between tokens and a last token. One-blank pads on both sides and both line endings give every case of `strip()` and of `for line in file`. The violation run adds a trailing blank line.

## Fairness

`Edfistat.Spec` has weak fairness on `Next`, because `main` is a sequential
program that always runs its next statement. The runs set `CHECK_DEADLOCK FALSE`
because the program terminates: `done`, `usage` and `crash` have no successor.
`ConfigLoader.Spec` has the same weak fairness for the same reason. Its runs set `CHECK_DEADLOCK FALSE` because `configToItems` returns or raises. Termination is not stated as a property: every step of both modules strictly advances a bounded counter (`pos`, the lengths of `keysList` and `keys`) or `pc`, so it would hold by the shape of the model. `Specifier.Spec` has the same weak fairness and `CHECK_DEADLOCK FALSE`: its last state hands over to the action step of `Edfistat`. `MyOrderedDict` is a library object that the caller drives. It is given no
fairness and has no deadlock: `Clear` is always enabled.

## Known failures without a run of their own

`rootm` of sections with no keys raises IndexError on `values[0]` (line 631).
An output section named `default` (any case) makes `add_section` raise
ValueError after the result was computed (line 593). Both are among the
defects that `FailuresAccountedFor` characterises in the pipeline run. One
more has no run:

- The pair (file `a`, section `a:a@a`) is written `a@a:a@a`. This is read as
  two tokens `a@a`, and `LoadsWrittenPairs` fails silently with exit 0 (line 689).

## Not modelled

- **Key order across sections**: multi-section results are combined by
  position and labelled with the first section's keys (line 717). Spec 3 and
  8 define them this way, so there is nothing to check beyond `ResultMatchesReference`.

- **Binary float rounding**: values are exact rationals. `str()` is modelled,
  and where its effect depends on binary rounding both outcomes are allowed.
- **Blank lines, comment lines and inline `;` comments** of the input files:
  they change no parser state.
- **The text of diagnostics**: `log` and the usage message are modelled by
  their level, not by their text.
- **A colon-form specifier that begins with `file://`**: it is read as a
  manifest path. `Specifier` writes names over letters, so this case does not arise.
- **`Edfistat` composed with `Specifier`**: `Edfistat` takes the token
  sequence as an input of model values. `Specifier` checks that the
  sequence is the one written.
- **Dead code**: `listsProd` (it starts its product at 0), `listPCC`,
  `listStringToInt` and `listStringToFloat`. No action reaches them.
- **`MyOrderedDict.__repr__`, `__reduce__` and the Python 2.7 views**: they
  format or wrap the dictionary and change nothing.
- **`Edfistat` composed with `ConfigLoader`**: `configToItems` shares no state
  with `main` beyond its result. `ConfigLoader` checks that result against a
  reference: distinct keys in file order, numeric values or an exception.
  `Edfistat` takes exactly such results as its per-token input. A composed
  run would only multiply the two state spaces.

## Plan for later sittings

Everything `main` reaches is modelled. What could still be added is a
composed instance of `Specifier`, `ConfigLoader` and `Edfistat` over very
small files, as an end-to-end check of the results the three modules
already check one by one.
