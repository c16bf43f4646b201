----------------------------- MODULE JsonReader -----------------------------
(***************************************************************************)
(* json.h: a reader of JSON that cuts a text into the texts of its members *)
(* or elements, and each of them when it is asked for.  A text is a        *)
(* sequence of symbols: the characters the reader looks for, each by       *)
(* itself, and words of all others.  An object (IJObject) is a record      *)
(* [kind, src].  NPOS is the position of what is not found.                *)
(***************************************************************************)
EXTENDS Integers, Sequences, FiniteSets, SequencesExt, FiniteSetsExt, Functions

Q == "\""
Backslash == "\\"
Blank == {" ", "\n", "\r"}   \* what ClearString removes; not the tab
NPOS == 0

\* Behind the text lies a terminating null.
At(s, i) == IF i \in DOMAIN s THEN s[i] ELSE "null"
First(S) == IF S = {} THEN NPOS ELSE Min(S)
Find(s, x, from) == First({i \in DOMAIN s : i >= from /\ s[i] = x})
Picked(s, keep) ==
  LET numbered == [i \in DOMAIN s |-> [at |-> i, is |-> s[i]]]
      kept == SelectSeq(numbered, LAMBDA x : x.at \in keep)
  IN  [k \in DOMAIN kept |-> kept[k].is]

\* Mutant of FindPair: the next closing bracket, whatever opened before it.
FindNext(s, open, close, from) == First({i \in from .. Len(s) : s[i] = close})

\* The bracket that closes the one at from; what is between quotes counts too.
FindPair(s, open, close, from) ==
  LET Count(x, i) == Cardinality({k \in from .. i : s[k] = x})
  IN  First({i \in from .. Len(s) : s[i] = close /\ Count(open, i) = Count(close, i)})

\* Mutant of ClearString: removes both backslashes of a pair.
ClearBoth(s) ==
  LET Quoted(i) == Cardinality({k \in 1 .. i : s[k] = Q}) % 2 = 1
      t == Picked(s, {i \in DOMAIN s : Quoted(i) \/ s[i] \notin Blank})
  IN  Picked(t, {i \in DOMAIN t : ~(t[i] = Backslash
                                   /\ Backslash \in {At(t, i + 1), At(t, i - 1)})})

\* Blanks outside quotes go, and of backslashes in a row all but the last.
ClearString(s) ==
  LET Quoted(i) == Cardinality({k \in 1 .. i : s[k] = Q}) % 2 = 1
      t == Picked(s, {i \in DOMAIN s : Quoted(i) \/ s[i] \notin Blank})
  IN  Picked(t, {i \in DOMAIN t : ~(t[i] = Backslash /\ At(t, i + 1) = Backslash)})

\* The constructor of each kind clears its text.
IJObject(kind, src) == [kind |-> kind, src |-> ClearString(src)]
JObject(src) == IJObject("object", src)
JArray(src) == IJObject("array", src)
JValue(src) == IJObject("value", src)

-----------------------------------------------------------------------------
(* Value(): the map of members by key or of elements by number, or Throws. *)

Throws == [throws |-> TRUE]
Got(map) == [map |-> map]

\* Members from position from on; out holds those before it.
RECURSIVE Members(_, _, _, _)
Members(s, end, from, out) ==
  LET colon == Find(s, ":", from)
      next == At(s, colon + 1)
      comma == Find(s, ",", colon)
      close == CASE next = "{" -> FindPair(s, "{", "}", colon + 1)
                 [] next = "[" -> FindPair(s, "[", "]", colon + 1)
                 [] next = Q   -> Find(s, Q, colon + 2)
                 [] OTHER      -> IF comma # NPOS THEN comma - 1 ELSE end - 1
      missing == close = NPOS \/ (next \notin {"{", "[", Q} /\ comma = NPOS /\ colon > close)
      obj == CASE next = "{" -> JObject(SubSeq(s, colon + 1, close))
               [] next = "[" -> JArray(SubSeq(s, colon + 1, close))
               [] next = Q   -> JValue(SubSeq(s, colon + 2, close - 1))
               [] OTHER      -> JValue(SubSeq(s, colon + 1, close))
      key == SelectSeq(SubSeq(s, from, colon - 1), LAMBDA x : x # Q)
  IN  IF colon = NPOS THEN Got(out)
      ELSE IF missing THEN Throws
      ELSE Members(s, end, close + 2, (key :> obj) @@ out)

\* What one turn of the loop over elements does at position p.start: an object
\* or an array is put under the number k and p goes behind it; then what lies
\* there, unless another begins, is a plain element, put under the same number.
Bracketed(s, k, p, open, close, kind) ==
  LET stop == FindPair(s, open, close, p.start)
  IN  IF At(s, p.start) # open THEN p
      ELSE IF stop = NPOS THEN [p EXCEPT !.stop = NPOS]
      ELSE [start |-> stop + 2, stop |-> stop,
            out |-> (k :> IJObject(kind, SubSeq(s, p.start, stop))) @@ p.out]

Plain(s, k, p, end) ==
  LET quoted == At(s, p.start) = Q
      start == IF quoted THEN p.start + 1 ELSE p.start
      comma == Find(s, ",", start)
      stop == IF quoted THEN Find(s, Q, start + 1)
              ELSE IF comma # NPOS THEN comma
              ELSE IF end <= start THEN NPOS ELSE end
      out == IF stop = start THEN p.out ELSE (k :> JValue(SubSeq(s, start, stop - 1))) @@ p.out
  IN  IF At(s, p.start) \in {"{", "["} THEN p
      ELSE IF stop = NPOS THEN [p EXCEPT !.stop = NPOS]
      ELSE [start |-> stop + 1, stop |-> stop, out |-> out]

RECURSIVE Elements(_, _, _, _)
Elements(s, end, k, p) ==
  LET Next(y) == IF y.stop # NPOS /\ y.start <= Len(s) THEN Elements(s, end, k + 1, y) ELSE Got(y.out)
  IN  Next(Plain(s, k, Bracketed(s, k, Bracketed(s, k, p, "{", "}", "object"), "[", "]", "array"), end))

None == [x \in {} |-> x]

Value(obj) ==
  LET s == obj.src
      brace == FindPair(s, "{", "}", 1)
      bracket == FindPair(s, "[", "]", 1)
  IN  CASE obj.kind = "object" -> IF brace = NPOS THEN Throws ELSE Members(s, brace, 2, None)
        [] obj.kind = "array"  -> IF bracket = NPOS THEN Got(None)
                                  ELSE Elements(s, bracket, 0, [start |-> 2, stop |-> 1, out |-> None])
        [] OTHER               -> Got(None)

\* The first bracket tells what the text is.
Parse(content) ==
  LET i == First({k \in DOMAIN content : content[k] \in {"{", "["}})
  IN  IF i = NPOS THEN Throws
      ELSE IF content[i] = "{" THEN JObject(content) ELSE JArray(content)
=============================================================================
