-------------------------------- MODULE Text --------------------------------
(***************************************************************************)
(* The functions of utils/string.cpp, string.hpp and charconv.hpp.  A      *)
(* string is a sequence of characters, which are strings of length one (or *)
(* names, where TLA+ has no such string), and in the conversions between   *)
(* encodings a sequence of code units.                                     *)
(* Positions count from 1 here and from 0 in the code.                     *)
(***************************************************************************)
EXTENDS Integers, Sequences, SequencesExt

Newline == "\n"
Tab == "\t"
Return == "\r"
FormFeed == "\f"
VerticalTab == "VT"
Nul == "NUL"
Grave == "GRAVE"

From(s, i) == SubSeq(s, i, Len(s))

\* The positions from start on where text occurs in s.
Occurrences(s, text, start) ==
    {i \in start..Len(s) - Len(text) + 1 : SubSeq(s, i, i + Len(text) - 1) = text}

-----------------------------------------------------------------------------
(* Splitting, combining and replacing.                                     *)

RECURSIVE SplitFrom(_, _, _)
SplitFrom(string, delimiter, start) ==
    LET found == Occurrences(string, delimiter, start)
        end == Min(found)
    IN  IF found = {} THEN <<From(string, start)>>
        ELSE <<SubSeq(string, start, end - 1)>>
                \o SplitFrom(string, delimiter, end + Len(delimiter))

splitString(string, delimiter, removeEmpty) ==
    LET all == SplitFrom(string, delimiter, 1)
    IN  IF delimiter = <<>> \/ string = <<>> THEN <<string>>
        ELSE IF removeEmpty THEN SelectSeq(all, LAMBDA part : part # <<>>) ELSE all

\* The delimiter behind the last string is cut off again.
combineStrings(strings, delimiter) ==
    LET all == FlattenSeq([i \in DOMAIN strings |-> strings[i] \o delimiter])
    IN  IF strings = <<>> THEN <<>> ELSE SubSeq(all, 1, Len(all) - Len(delimiter))

\* The search goes on behind the replacement.
RECURSIVE ReplaceFrom(_, _, _, _)
ReplaceFrom(string, search, replace, pos) ==
    LET found == Occurrences(string, search, pos)
        at == Min(found)
    IN  IF found = {} THEN string
        ELSE ReplaceFrom(SubSeq(string, 1, at - 1) \o replace \o From(string, at + Len(search)),
                         search, replace, at + Len(replace))
replaceStrings(string, search, replace) ==
    IF search = <<>> THEN string ELSE ReplaceFrom(string, search, replace, 1)

\* The blanks for a tab at a position, which counts from 0.  A wrong one takes
\* every tab for one at the beginning of a column.
FullTab(at, tabSize) == tabSize
Spaces(at, tabSize) == tabSize - (at % tabSize)

RECURSIVE ExpandTabs(_, _, _)
ExpandTabs(line, pos, tabSize) ==
    LET found == Occurrences(line, <<Tab>>, pos + 1)
        at == Min(found) - 1
        spaces == Spaces(at, tabSize)
    IN  IF found = {} THEN line
        ELSE ExpandTabs(SubSeq(line, 1, at) \o [i \in 1..spaces |-> " "] \o From(line, at + 2),
                        at + spaces - 1, tabSize)

replaceTabsWithSpaces(string, tabSize) ==
    LET lines == splitString(string, <<Newline>>, FALSE)
        result == FlattenSeq([i \in DOMAIN lines |->
                                ExpandTabs(lines[i], 0, tabSize) \o <<Newline>>])
    IN  IF tabSize = 0 \/ string = <<>> \/ Occurrences(string, <<Tab>>, 1) = {}
        THEN string ELSE Front(result)

preprocessText(code) ==
    replaceTabsWithSpaces(
        replaceStrings(replaceStrings(code, <<Return, Newline>>, <<Newline>>),
                       <<Return>>, <<Newline>>), 4)

\* Every part of the string begins with a capital letter, for one delimiter
\* after the other.
ToUpper(c) == CASE c = "a" -> "A" [] c = "b" -> "B" [] OTHER -> c
Capitalized(string, delimiter) ==
    LET parts == splitString(string, <<delimiter>>, FALSE)
    IN  combineStrings([i \in DOMAIN parts |->
            IF parts[i] = <<>> THEN <<>> ELSE [parts[i] EXCEPT ![1] = ToUpper(@)]],
            <<delimiter>>)
capitalizeString(string) == FoldLeft(Capitalized, string, <<"_", "-", " ">>)

\* trim() of a string and of a string_view, which do not trim the same.
TrimChars == {" ", Tab, Newline, Return, Nul}
SpaceChars == {" ", Tab, Newline, VerticalTab, FormFeed, Return}
Trimmed(s, chars) ==
    LET kept == {i \in DOMAIN s : s[i] \notin chars}
    IN  IF kept = {} THEN <<>> ELSE SubSeq(s, Min(kept), Max(kept))
trim(s) == Trimmed(s, TrimChars)
trimView(s) == Trimmed(s, SpaceChars)

-----------------------------------------------------------------------------
(* Wrapping.                                                               *)

\* Candidates for the end of a line: a blank and what std::ispunct() accepts.
Punctuation == {"!", "\"", "#", "$", "%", "&", "'", "(", ")", "*", "+", ",", "-", ".", "/",
                ":", ";", "<", "=", ">", "?", "@", "[", "\\", "]", "^", "_", Grave,
                "{", "|", "}", "~"}
IsBreak(c) == c \in Punctuation \union {" "}

\* One turn of the loop for index i (from 0); s is the state of the loop.
WrapStep(string, charWidth, maxWidth, s, i) ==
    LET fits == s.currentWidth + charWidth <= maxWidth
        next == s.candidateLineBreakIndex + 1
        broken == [s EXCEPT !.result = @ \o SubSeq(string, s.startOfLineIndex + 1, next)
                                         \o <<Newline>>,
                            !.startOfLineIndex = next,
                            !.candidateLineBreakIndex = 0,
                            !.currentWidth = (i - next + 1) * charWidth]
        forced == [s EXCEPT !.result = @ \o SubSeq(string, s.startOfLineIndex + 1, i)
                                         \o <<Newline>>,
                            !.startOfLineIndex = i,
                            !.candidateLineBreakIndex = 0,
                            !.currentWidth = charWidth]
        after == CASE fits -> [s EXCEPT !.currentWidth = @ + charWidth]
                   [] ~fits /\ s.candidateLineBreakIndex > 0 -> broken
                   [] OTHER -> forced
    IN  IF IsBreak(string[i + 1]) THEN [after EXCEPT !.candidateLineBreakIndex = i] ELSE after

wrapMonospacedString(string, charWidth, maxWidth) ==
    LET start == [result |-> <<>>, startOfLineIndex |-> 0,
                  candidateLineBreakIndex |-> 0, currentWidth |-> 0]
        end == FoldLeft(LAMBDA s, i : WrapStep(string, charWidth, maxWidth, s, i), start,
                        [i \in DOMAIN string |-> i - 1])
    IN  IF string = <<>> \/ charWidth < 0 \/ maxWidth < 0 THEN string
        ELSE end.result \o From(string, end.startOfLineIndex + 1)

-----------------------------------------------------------------------------
(* Encodings.  A conversion that fails yields the text Nullopt.            *)

Nullopt == <<-1>>
Continuation(v) == 128 + (v % 64)

Utf8Of(ch) ==
    CASE ch <= 127 -> <<ch>>
      [] ch \in 128..2047 -> <<192 + ch \div 64, Continuation(ch)>>
      [] ch \in 2048..65535 ->
            <<224 + ch \div 4096, Continuation(ch \div 64), Continuation(ch)>>
      [] OTHER ->
            <<240 + ch \div 262144, Continuation(ch \div 4096),
              Continuation(ch \div 64), Continuation(ch)>>

utf32ToUtf8(input) ==
    IF \E i \in DOMAIN input : input[i] > 1114111 THEN Nullopt
    ELSE FlattenSeq([i \in DOMAIN input |-> Utf8Of(input[i])])

\* Any surrogate may come first; the second one has to be a low one.
High == 55296
Low == 56320
RECURSIVE Utf16Loop(_, _)
Utf16Loop(input, output) ==
    LET ch == Head(input)
        surrogate == ch \in High..57343
        pair == Len(input) >= 2 /\ input[2] \in Low..57343
        fullChar == (ch - High) * 1024 + (input[2] - Low) + 65536
    IN  CASE input = <<>> -> output
          [] input # <<>> /\ ~surrogate -> Utf16Loop(Tail(input), output \o Utf8Of(ch))
          [] input # <<>> /\ surrogate /\ pair ->
                Utf16Loop(From(input, 3), output \o Utf8Of(fullChar))
          [] OTHER -> Nullopt
utf16ToUtf8(input) == Utf16Loop(input, <<>>)

\* The number of bytes that the first one announces, 0 if it announces none.
SequenceLength(byte) ==
    CASE byte <= 127 -> 1
      [] byte \in 192..223 -> 2
      [] byte \in 224..239 -> 3
      [] byte \in 240..247 -> 4
      [] OTHER -> 0
\* The bits that the bytes of a sequence carry.
CodePoint(bytes) ==
    LET first == CASE Len(bytes) = 1 -> 128 [] Len(bytes) = 2 -> 32
                   [] Len(bytes) = 3 -> 16 [] Len(bytes) = 4 -> 8
    IN  FoldLeft(LAMBDA v, byte : v * 64 + (byte % 64), bytes[1] % first, Tail(bytes))

\* The code points of a text; a byte that announces nothing is one itself if
\* invalid bytes are allowed.  utf8ToUtf32() does not look whether the bytes
\* it reads are there: the model is for texts whose last sequence is whole.
RECURSIVE Decode(_, _, _)
Decode(input, output, allowInvalid) ==
    LET n == SequenceLength(Head(input))
    IN  CASE input = <<>> -> output
          [] input # <<>> /\ n = 0 ->
                IF allowInvalid THEN Decode(Tail(input), Append(output, Head(input)), TRUE)
                ELSE Nullopt
          [] input # <<>> /\ n > Len(input) -> Nullopt
          [] OTHER -> Decode(From(input, n + 1),
                             Append(output, CodePoint(SubSeq(input, 1, n))), allowInvalid)
utf8ToUtf32(input, allowInvalid) == Decode(input, <<>>, allowInvalid)

\* A wrong one: the pair does not count from the first code point it is for.
Utf16OfRaw(codepoint) ==
    IF codepoint > 65535 THEN <<High + codepoint \div 1024, Low + (codepoint % 1024)>>
    ELSE <<codepoint>>
Utf16Of(codepoint) ==
    IF codepoint > 65535
    THEN <<High + (codepoint - 65536) \div 1024, Low + ((codepoint - 65536) % 1024)>>
    ELSE <<codepoint>>
utf8ToUtf16(input) ==
    LET points == Decode(input, <<>>, FALSE)
    IN  IF points = Nullopt THEN Nullopt
        ELSE FlattenSeq([i \in DOMAIN points |-> Utf16Of(points[i])])

\* wchar_t has 16 bits on Windows and 32 elsewhere.
utf8ToWstring(input, bits) == IF bits = 16 THEN utf8ToUtf16(input) ELSE utf8ToUtf32(input, FALSE)
wstringToUtf8(input, bits) == IF bits = 16 THEN utf16ToUtf8(input) ELSE utf32ToUtf8(input)

\* The sequence that begins last within the first max_bytes bytes is dropped
\* if it does not end there.
truncateUtf8(string, max_bytes) ==
    LET leads == {i \in 1..max_bytes : string[i] \notin 128..191}
        lead == Max(leads)
        cp_len == SequenceLength(string[lead])
    IN  CASE Len(string) <= max_bytes -> string
          [] Len(string) > max_bytes /\ leads = {} -> <<>>
          [] Len(string) > max_bytes /\ leads # {} ->
                IF cp_len = 0 THEN <<>>
                ELSE IF lead - 1 + cp_len > max_bytes THEN SubSeq(string, 1, lead - 1)
                ELSE SubSeq(string, 1, lead - 1 + cp_len)

-----------------------------------------------------------------------------
(* charconv.hpp                                                            *)

CharDigits == <<"0", "1", "2", "3", "4", "5", "6", "7", "8", "9",
                "a", "b", "c", "d", "e", "f">>
DigitValue(c) == (CHOOSE i \in DOMAIN CharDigits : CharDigits[i] = c) - 1
IsDigitOf(c, base) == \E i \in 1..base : CharDigits[i] = c

\* std::from_chars: as many digits as there are, at least one.
StdFromChars(string, base) ==
    LET minus == string # <<>> /\ string[1] = "-"
        body == IF minus THEN Tail(string) ELSE string
        n == Max({n \in 0..Len(body) : \A i \in 1..n : IsDigitOf(body[i], base)})
        value == FoldLeft(LAMBDA v, c : v * base + DigitValue(c), 0, SubSeq(body, 1, n))
    IN  IF n = 0 THEN Nullopt ELSE <<0, IF minus THEN -value ELSE value>>

\* Without a base the prefix tells it; what follows the digits is ignored.
from_chars(string, base) ==
    LET trimmed == trimView(string)
        marks == Len(trimmed) >= 2 /\ trimmed[1] = "0"
        told == CASE marks /\ trimmed[2] \in {"x", "X"} -> 16
                  [] marks /\ trimmed[2] \in {"o", "O"} -> 8
                  [] marks /\ trimmed[2] \in {"b", "B"} -> 2
                  [] OTHER -> 10
    IN  CASE base # 0 -> StdFromChars(string, base)
          [] base = 0 /\ told # 10 -> StdFromChars(From(trimmed, 3), told)
          [] base = 0 /\ told = 10 -> StdFromChars(trimmed, 10)
=============================================================================
