-------------------------------- MODULE Paths --------------------------------
(***************************************************************************)
(* url_decode() and normalize_path() of src/static_file_handler.cpp.  A    *)
(* text is a sequence of characters; a word that is never taken apart,     *)
(* like "index.html", counts as one character.                             *)
(***************************************************************************)
EXTENDS Integers, Sequences, FiniteSets, SequencesExt

HexDigits == <<"0", "1", "2", "3", "4", "5", "6", "7", "8", "9", "a", "b", "c", "d", "e", "f">>
Hex == [c \in ToSet(HexDigits) |-> (CHOOSE i \in 1..16 : HexDigits[i] = c) - 1]

(* The characters that mean something here, and one that does not. *)
Ascii ==
  [c \in {"NUL", " ", "%", "+", ".", "/", "\\", "a"} |->
     CASE c = "NUL" -> 0 [] c = " " -> 32 [] c = "%" -> 37 [] c = "+" -> 43
       [] c = "." -> 46 [] c = "/" -> 47 [] c = "\\" -> 92 [] c = "a" -> 97]
Char(n) ==
  IF \E c \in DOMAIN Ascii : Ascii[c] = n
  THEN CHOOSE c \in DOMAIN Ascii : Ascii[c] = n ELSE "other"

(* What "iss >> std::hex >> value" makes of two characters, as a set of at *)
(* most one value: one digit is enough, and so is a digit after a sign.    *)
(* (Of what >> would skip or take before a digit, only "+" occurs here.)   *)
HexValue(x, y) ==
  CASE x \in DOMAIN Hex /\ y \in DOMAIN Hex -> {16 * Hex[x] + Hex[y]}
    [] x \in DOMAIN Hex /\ y \notin DOMAIN Hex -> {Hex[x]}
    [] x = "+" /\ y \in DOMAIN Hex -> {Hex[y]}
    [] OTHER -> {}

(* Mutant of Escape: a % needs one more character behind it. *)
EscapeShort(s, i) ==
  IF s[i] = "%" /\ i + 2 < Len(s) THEN HexValue(s[i + 1], s[i + 2]) ELSE {}

(* The value that a % at position i introduces, if it does. *)
Escape(s, i) ==
  IF s[i] = "%" /\ i + 2 <= Len(s) THEN HexValue(s[i + 1], s[i + 2]) ELSE {}

url_decode(s) ==
  LET d[i \in 1..(Len(s) + 1)] ==
        IF i > Len(s) THEN <<>>
        ELSE IF Escape(s, i) # {}
             THEN <<Char(CHOOSE n \in Escape(s, i) : TRUE)>> \o d[i + 3]
             ELSE <<IF s[i] = "+" THEN " " ELSE s[i]>> \o d[i + 1]
  IN  d[1]

(* A component of a path is complete: "" and "." are dropped, ".." drops   *)
(* the component before it, if there is one.                               *)
Complete(parts, current) ==
  CASE current \in {<<>>, <<".">>} -> parts
    [] current = <<".", ".">> -> IF parts = <<>> THEN parts ELSE Front(parts)
    [] OTHER -> Append(parts, current)

(* The loop over the characters.  (Leading slashes, which the code removes *)
(* before it, only make empty components.)                                 *)
Components(safe) ==
  LET step(st, c) ==
        IF c = "/" THEN [parts |-> Complete(st.parts, st.current), current |-> <<>>]
                   ELSE [st EXCEPT !.current = Append(@, c)]
      end == FoldLeft(step, [parts |-> <<>>, current |-> <<>>], safe)
  IN  Complete(end.parts, end.current)

(* The erase of every NUL, before anything else is looked at. *)
WithoutNUL(path) ==
  FlattenSeq([i \in DOMAIN path |-> IF path[i] = "NUL" THEN <<>> ELSE <<path[i]>>])

(* Mutant of normalize_path: NULs are removed from the finished components. *)
normalize_pathNulLast(path) ==
  LET parts == Components(ReplaceAll(path, "\\", "/"))
  IN  [i \in DOMAIN parts |-> WithoutNUL(parts[i])]

(* The components of the result, which the code joins with "/" again. *)
normalize_path(path) == Components(ReplaceAll(WithoutNUL(path), "\\", "/"))

-----------------------------------------------------------------------------
(***************************************************************************)
(* References.  How a client encodes the characters at some positions.     *)
(***************************************************************************)
Encode(s, positions) ==
  FlattenSeq([i \in DOMAIN s |->
    IF i \in positions
    THEN <<"%", HexDigits[(Ascii[s[i]] \div 16) + 1], HexDigits[(Ascii[s[i]] % 16) + 1]>>
    ELSE <<s[i]>>])

(***************************************************************************)
(* What a path means: of its components between separators, the names      *)
(* below which the rest of the path never climbs.  A component is known by *)
(* the position of the separator before it.                                *)
(***************************************************************************)
Sep(s, i) == i \in {0, Len(s) + 1} \/ s[i] \in {"/", "\\"}
Starts(s) == {i \in 0..Len(s) : Sep(s, i)}
Comp(s, i) ==
  LET end == CHOOSE j \in (i + 1)..(Len(s) + 1) : Sep(s, j) /\ \A k \in (i + 1)..(j - 1) : ~Sep(s, k)
  IN  SubSeq(s, i + 1, end - 1)
Names(s) == {i \in Starts(s) : Comp(s, i) \notin {<<>>, <<".">>, <<".", ".">>}}
Ups(s) == {i \in Starts(s) : Comp(s, i) = <<".", ".">>}

(* How far the components from i to j lead down. *)
Level(s, i, j) ==
  Cardinality({k \in Names(s) : i <= k /\ k <= j}) - Cardinality({k \in Ups(s) : i <= k /\ k <= j})
Kept(s) == {i \in Names(s) : \A j \in Starts(s) : j > i => Level(s, i, j) >= 1}

Meaning(path) ==
  LET s == WithoutNUL(path)
      kept == Kept(s)
      Nth(n) == CHOOSE i \in kept : Cardinality({k \in kept : k <= i}) = n
  IN  [n \in 1..Cardinality(kept) |-> Comp(s, Nth(n))]

=============================================================================
