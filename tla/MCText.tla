------------------------------- MODULE MCText -------------------------------
(***************************************************************************)
(* Bounded inputs for Text: short strings over the characters that the     *)
(* functions tell apart, and texts of code points at every boundary of the *)
(* encodings.                                                              *)
(***************************************************************************)
EXTENDS Text, MCInputs

\* Strings of up to n characters.
Strings(chars, n) == UNION {[1..k -> chars] : k \in 0..n}
Searches == {<<"a">>, <<"a", "a">>, <<"a", "b">>, <<"a", "b", "a">>}
Replaces == {<<>>, <<"a">>, <<"b", "a">>, <<"a", "b", "a">>}
CodePoints == {0, 65, 127, 128, 2047, 2048, 55295, 57344, 65535, 65536, 66559, 1114111}
Units == {65, 2047, 55296, 56319, 56320, 57343, 57344}

TextInit ==
    /\ right = 0 /\ picked = FALSE
    /\ \/ part = "replace" /\ left \in Strings({"a", "b"}, 6)
       \/ part = "lines" /\ left \in Strings({Tab, "a", Newline, Return, Nul}, 4)
       \/ part = "wrap" /\ left \in Strings({"a", " ", "_"}, 7) \union Strings({"a", "b", "-"}, 5)
       \/ part = "points" /\ left \in Strings(CodePoints, 2)
       \/ part = "units" /\ left \in Strings(Units, 3)
       \/ part = "number" /\ left \in 0..70
TextNext ==
    /\ ~picked /\ picked' = TRUE
    /\ \/ part = "replace" /\ right' \in Searches \X Replaces
       \/ part = "lines" /\ right' \in 0..5
       \/ part = "wrap" /\ right' \in {<<c, m>> : c \in 1..3, m \in 0..8}
       \/ part = "points" /\ right' \in CodePoints
       \/ part = "units" /\ right' \in Units
       \/ part = "number" /\ right' \in {2, 8, 10, 16}
    /\ UNCHANGED <<part, left>>

-----------------------------------------------------------------------------
(* References.                                                             *)

\* The string with the first occurrence of search replaced, then the next
\* one behind it, told by marking the places first.
RECURSIVE Places(_, _, _)
Places(s, search, from) ==
    LET all == {i \in from..Len(s) - Len(search) + 1 :
                    \A k \in DOMAIN search : s[i + k - 1] = search[k]}
    IN  IF all = {} THEN {} ELSE {Min(all)} \union Places(s, search, Min(all) + Len(search))
Replaced(s, search, replace) ==
    LET places == Places(s, search, 1)
        covered == {i + k - 1 : i \in places, k \in DOMAIN search}
    IN  FlattenSeq([i \in DOMAIN s |-> CASE i \in places -> replace
                                        [] i \notin places /\ i \in covered -> <<>>
                                        [] OTHER -> <<s[i]>>])

\* The columns at which the characters of a line are shown, with tabs of the
\* given size: column of the k-th one.
Columns(line, size) ==
    LET column[k \in 0..Len(line)] ==
            IF k = 0 THEN 0
            ELSE IF line[k] = Tab THEN (column[k - 1] \div size + 1) * size
            ELSE column[k - 1] + 1
    IN  column
Expanded(line, size) ==
    LET column == Columns(line, size)
    IN  [c \in 1..column[Len(line)] |->
            IF \E k \in DOMAIN line : line[k] # Tab /\ column[k] = c
            THEN line[CHOOSE k \in DOMAIN line : line[k] # Tab /\ column[k] = c]
            ELSE " "]
\* t is what stays of s when the given characters are taken off both ends.
Freed(t, s, chars) ==
    /\ t # <<>> => t[1] \notin chars /\ Last(t) \notin chars
    /\ \E i \in 0..Len(s) - Len(t) :
          /\ t = SubSeq(s, i + 1, i + Len(t))
          /\ \A k \in DOMAIN s \ ((i + 1)..(i + Len(t))) : s[k] \in chars

Without(s, c) == SelectSeq(s, LAMBDA x : x # c)
Lines(s) == SplitFrom(s, <<Newline>>, 1)

\* The code points of a text, and the bytes of whole ones that fit in n.
Whole(points, n) ==
    LET size(k) == Len(utf32ToUtf8(SubSeq(points, 1, k)))
    IN  utf32ToUtf8(SubSeq(points, 1, Max({k \in 0..Len(points) : size(k) <= n})))
DigitsOf(v, base) ==
    LET n == Max({k \in 1..8 : k = 1 \/ base ^ (k - 1) <= v})
    IN  [i \in 1..n |-> CharDigits[((v \div base ^ (n - i)) % base) + 1]]

-----------------------------------------------------------------------------
(* The properties.                                                         *)

\* Splitting and combining are inverse, replacing touches the occurrences
\* found from the left and nothing that a replacement brings in, tabs end at
\* multiples of their size, and wrapping adds line ends only: every line
\* fits, unless a single character does not, and a line that ends in the
\* middle of a word is full.  Both trim() take their characters off both ends
\* and nothing else.
StringsExact == [][(
    /\ Picked("replace") =>
        LET search == right[1]
            replace == right[2]
            parts == splitString(left, search, FALSE)
        IN  /\ combineStrings(parts, search) = left
            /\ splitString(left, search, TRUE) =
                    (IF left = <<>> THEN <<left>> ELSE SelectSeq(parts, LAMBDA x : x # <<>>))
            /\ \A i \in DOMAIN parts : Len(left) > 0 => Places(parts[i], search, 1) = {}
            /\ replaceStrings(left, search, replace) = Replaced(left, search, replace)
    /\ Picked("lines") =>
        LET expanded == replaceTabsWithSpaces(left, right)
            lines == Lines(left)
            clean == preprocessText(left)
        IN  /\ right > 0 =>
                    expanded = combineStrings([i \in DOMAIN lines |-> Expanded(lines[i], right)],
                                              <<Newline>>)
            /\ SelectSeq(clean, LAMBDA x : x \in {Newline, Return, Tab}) =
                    [i \in 1..Cardinality({i \in DOMAIN left :
                        left[i] = Return \/ (left[i] = Newline /\ (i = 1 \/ left[i - 1] # Return))})
                        |-> Newline]
            /\ Freed(trim(left), left, TrimChars)
            /\ Freed(trimView(left), left, SpaceChars)
    /\ Picked("wrap") =>
        LET wrapped == wrapMonospacedString(left, right[1], right[2])
            lines == Lines(wrapped)
            room == right[2] \div right[1]
            capital == capitalizeString(left)
        IN  /\ Without(wrapped, Newline) = left
            /\ \A i \in DOMAIN lines : Len(lines[i]) <= Max({1, room})
            /\ \A i \in 1..Len(lines) - 1 :
                    room > 0 /\ Last(lines[i]) \notin {" ", "_", "-"} => Len(lines[i]) = room
            /\ Len(capital) = Len(left)
            /\ \A i \in DOMAIN left :
                    capital[i] = IF i = 1 \/ left[i - 1] \in {"_", "-", " "}
                                 THEN ToUpper(left[i]) ELSE left[i]
    /\ Picked("number") =>
        LET prefix == CASE right = 2 -> <<"0", "b">> [] right = 8 -> <<"0", "o">>
                        [] right = 10 -> <<>> [] right = 16 -> <<"0", "X">>
            digits == DigitsOf(left, right)
        IN  /\ from_chars(<<VerticalTab>> \o prefix \o digits \o <<Nul>>, 0) = <<0, left>>
            /\ from_chars(<<"-">> \o digits, right) = <<0, -left>>
    )]_picked

\* Every text of code points survives each way through the encodings and
\* back, a text cut off is the longest one of whole code points that fits,
\* and of UTF-16 exactly the texts in which a surrogate is followed by a low
\* one are converted; those whose pairs begin with a high one come back.
EncodingsExact == [][(
    /\ Picked("points") =>
        LET points == Append(left, right)
            bytes == utf32ToUtf8(points)
            units == utf8ToUtf16(bytes)
        IN  /\ utf8ToUtf32(bytes, FALSE) = points
            /\ utf16ToUtf8(units) = bytes
            /\ \A bits \in {16, 32} : wstringToUtf8(utf8ToWstring(bytes, bits), bits) = bytes
            /\ \A n \in 0..Len(bytes) : truncateUtf8(bytes, n) = Whole(points, n)
            /\ utf8ToUtf32(bytes \o <<255>>, FALSE) = Nullopt
            /\ utf8ToUtf32(bytes \o <<255>>, TRUE) = Append(points, 255)
            /\ utf8ToUtf16(SubSeq(bytes, 1, Len(bytes) - 1)) =
                    (IF Last(points) < 128 THEN utf8ToUtf16(utf32ToUtf8(left)) ELSE Nullopt)
    /\ Picked("units") =>
        LET units == Append(left, right)
            first[i \in 0..Len(units)] ==
                IF i = 0 THEN FALSE
                ELSE units[i] \in High..57343 /\ ~(i > 1 /\ first[i - 1])
            firsts == {i \in DOMAIN units : first[i]}
            bytes == utf16ToUtf8(units)
        IN  /\ (bytes # Nullopt) = (\A i \in firsts : i < Len(units) /\ units[i + 1] \in Low..57343)
            /\ bytes # Nullopt /\ (\A i \in firsts : units[i] < Low) =>
                    utf8ToUtf16(bytes) = units
    )]_picked
=============================================================================
