------------------------------ MODULE Specifier ------------------------------
(***************************************************************************)
(* main's reading of the input specifier, argv[2] (edfistat.py lines       *)
(* 679-704).  A specifier "file://<path>" names a manifest whose stripped  *)
(* lines are the tokens; any other specifier is split on ':'.  Each token  *)
(* is split on '@' and must have exactly two parts, the file and the       *)
(* section handed to ConfigManager.configToItems (module ConfigLoader),    *)
(* which returns or raises.                                                *)
(*                                                                         *)
(* Strings are sequences of one-character strings.  What the user means    *)
(* is a list of (file, section) pairs, chosen in Init; the specifier or    *)
(* manifest is that list written the way spec 6 describes: tokens          *)
(* file@section, separated by ':' on the command line, one per line in a   *)
(* manifest, where lines may carry surrounding blanks and the last line    *)
(* may or may not end in a newline.                                        *)
(***************************************************************************)
EXTENDS Integers, Sequences, SequencesExt

CONSTANTS
  Names,          \* file and section names: non-empty strings
  Pads,           \* blanks a manifest line may carry on either side
  MaxPairs,       \* most tokens in a specifier
  TrailingBlank,  \* subset of BOOLEAN: whether a manifest may end in a blank line
  LoadErrors,     \* exceptions configToItems may raise
  None

Pair == [file : Names, section : Names]
NL == "\n"

\* What strip() removes: the blanks of Pads and the newline.
Blanks == {NL} \cup UNION {ToSet(p) : p \in Pads}

ASSUME /\ \A n \in Names : n # <<>> /\ ToSet(n) \cap Blanks = {}
       /\ TrailingBlank \subseteq BOOLEAN

VARIABLES
  pairs,        \* the (file, section) list the user means
  viaManifest,  \* argv[2] is file://<path>
  text,         \* argv[2] split on ':', or the manifest's contents
  opens,        \* open() of the manifest succeeds
  files,        \* main's list of tokens
  loaded,       \* the (file, section) pairs handed to configToItems so far
  pc, exc

vars == <<pairs, viaManifest, text, opens, files, loaded, pc, exc>>

Crash(e) == pc' = "crash" /\ exc' = e

-----------------------------------------------------------------------------
(* The string functions main calls.                                        *)

\* s.split(c): the pieces between the occurrences of c, n + 1 of them.
Split(s, c) ==
  FoldLeft(LAMBDA acc, ch : IF ch = c THEN Append(acc, <<>>)
                            ELSE [acc EXCEPT ![Len(acc)] = Append(@, ch)],
           <<<<>>>>, s)

\* Mutant: `for line in file` yielding an empty last line after the final
\* newline.
FileLinesKeepsLast(s) == Split(s, NL)

\* `for line in file`: the lines of s, each without its newline; a final
\* newline ends the last line and starts no new one.
FileLines(s) ==
  LET p == Split(s, NL)
  IN  IF p[Len(p)] = <<>> THEN SubSeq(p, 1, Len(p) - 1) ELSE p

\* Mutant: rstrip() instead of strip().
RStrip(s) ==
  LET kept == {i \in DOMAIN s : s[i] \notin Blanks}
  IN  IF kept = {} THEN <<>> ELSE SubSeq(s, 1, Max(kept))

\* str.strip(): s without its leading and trailing blanks.
Strip(s) ==
  LET kept == {i \in DOMAIN s : s[i] \notin Blanks}
  IN  IF kept = {} THEN <<>> ELSE SubSeq(s, Min(kept), Max(kept))

-----------------------------------------------------------------------------
(* Writing the pairs down as spec 6 describes.                             *)

Token(p) == p.file \o <<"@">> \o p.section

\* The command-line form: the tokens joined with ':'.
ColonForm(P) ==
  FoldLeft(LAMBDA acc, i : IF i = 1 THEN Token(P[1]) ELSE acc \o <<":">> \o Token(P[i]),
           <<>>, [i \in DOMAIN P |-> i])

\* The manifest forms: one padded token per line; a blank last line
\* follows a newline.
ManifestForms(P) ==
  { FlattenSeq([i \in DOMAIN P |->
       lead[i] \o Token(P[i]) \o trail[i] \o (IF i < Len(P) \/ endNL \/ blank THEN <<NL>> ELSE <<>>)])
    \o (IF blank THEN <<NL>> ELSE <<>>) :
      lead \in [DOMAIN P -> Pads], trail \in [DOMAIN P -> Pads],
      endNL \in BOOLEAN, blank \in TrailingBlank}

-----------------------------------------------------------------------------
Init ==
  /\ pairs \in BoundedSeq(Pair, MaxPairs) \ {<<>>}
  /\ viaManifest \in BOOLEAN
  /\ text \in IF viaManifest THEN ManifestForms(pairs) ELSE {ColonForm(pairs)}
  /\ opens \in IF viaManifest THEN BOOLEAN ELSE {TRUE}
  /\ files = <<>> /\ loaded = <<>>
  /\ pc = "read" /\ exc = None

\* Lines 679-694: the file:// match, open() and the stripped lines of the
\* manifest, or the split on ':'; then assert(len(files) > 0).
ReadSpecifier ==
  /\ pc = "read"
  /\ IF viaManifest /\ ~opens
     THEN Crash("IOError") /\ UNCHANGED files
     ELSE LET f == IF viaManifest
                   THEN [i \in DOMAIN FileLines(text) |-> Strip(FileLines(text)[i])]
                   ELSE Split(text, ":")
          IN  /\ files' = f
              /\ IF f = <<>> THEN Crash("AssertionError")
                 ELSE pc' = "load" /\ UNCHANGED exc
  /\ UNCHANGED <<pairs, viaManifest, text, opens, loaded>>

\* Mutant: the two parts of the token taken the other way round.
LoadTokenSwapped ==
  /\ pc = "load"
  /\ Len(loaded) < Len(files)
  /\ LET t == Split(files[Len(loaded) + 1], "@")
     IN  IF Len(t) # 2
         THEN Crash("InvalidToken") /\ UNCHANGED loaded
         ELSE \/ /\ loaded' = Append(loaded, [file |-> t[2], section |-> t[1]])
                 /\ UNCHANGED <<pc, exc>>
              \/ \E e \in LoadErrors : Crash(e) /\ UNCHANGED loaded
  /\ UNCHANGED <<pairs, viaManifest, text, opens, files>>

\* One iteration of the loop at lines 695-704: split('@'), the length
\* check, and configToItems on the two parts, which returns the section
\* or raises.
LoadToken ==
  /\ pc = "load"
  /\ Len(loaded) < Len(files)
  /\ LET t == Split(files[Len(loaded) + 1], "@")
     IN  IF Len(t) # 2
         THEN Crash("InvalidToken") /\ UNCHANGED loaded
         ELSE \/ /\ loaded' = Append(loaded, [file |-> t[1], section |-> t[2]])
                 /\ UNCHANGED <<pc, exc>>
              \/ \E e \in LoadErrors : Crash(e) /\ UNCHANGED loaded
  /\ UNCHANGED <<pairs, viaManifest, text, opens, files>>

Next == ReadSpecifier \/ LoadToken

\* main is sequential: its next statement always runs.
Spec == Init /\ [][Next]_vars /\ WF_vars(Next)

\* The loop has handed every token to the loader; main goes on to the
\* action (module Edfistat, Act).
LoopDone == pc = "load" /\ Len(loaded) = Len(files)

-----------------------------------------------------------------------------
(* Properties.                                                             *)

TypeOK ==
  /\ pc \in {"read", "load", "crash"}
  /\ (pc = "crash") = (exc # None)
  /\ Len(loaded) <= Len(files)
  /\ \A i \in DOMAIN loaded : loaded[i] \in Pair

\* Spec 6: a specifier written as the spec describes, on the command line
\* or in a manifest with blanks around its lines, is never rejected as a
\* malformed token by the '@' split of line 696 and the check at 698.
NoInvalidToken == exc # "InvalidToken"

\* Spec 6: the loop hands configToItems exactly the file and section of
\* each written pair, in order, once: the ':' split, the manifest's line
\* iteration and strip(), and the '@' split together undo the writing.
LoadsWrittenPairs == LoopDone => loaded = pairs

====
