----------------------------- MODULE StringReader -----------------------------
(* The searches of src/drac_string.h, over sequences of bytes.  Positions     *)
(* count from 1; a search that finds nothing answers the position behind the  *)
(* text, which a reader takes for its end.  What a seek answers is `at`,      *)
(* where it leaves the reader is `cursor`.                                    *)
EXTENDS Integers, Sequences, FiniteSetsExt

Digits == <<"0", "1", "2", "3", "4", "5", "6", "7", "8", "9">>
Lower == <<"a", "b", "c", "d", "e", "f", "g", "h", "i", "j", "k", "l", "m",
           "n", "o", "p", "q", "r", "s", "t", "u", "v", "w", "x", "y", "z">>
Upper == <<"A", "B", "C", "D", "E", "F", "G", "H", "I", "J", "K", "L", "M",
           "N", "O", "P", "Q", "R", "S", "T", "U", "V", "W", "X", "Y", "Z">>

(* Every byte in none of these, a mark or a part of a longer character, is    *)
(* neither alphanumeric nor white.                                            *)
Whitespace == {" ", "TAB", "CR", "LF"}
isNumber(c) == \E d \in DOMAIN Digits : Digits[d] = c
Alphabet == {Lower[i] : i \in DOMAIN Lower} \cup {Upper[i] : i \in DOMAIN Upper}
isAlpha(c) == c \in Alphabet
isAlphanumeric(c) == isNumber(c) \/ isAlpha(c) \/ c = "_"

behind(s) == Len(s) + 1

(* The first position from start on of which P holds.                         *)
first(s, start, P(_)) == Min({behind(s)} \cup {i \in start..Len(s) : P(i)})

find(s, start, thing) ==
    first(s, start, LAMBDA i : /\ i + Len(thing) - 1 <= Len(s)
                               /\ SubSeq(s, i, i + Len(thing) - 1) = thing)

contains(s, thing) == find(s, 1, thing) # behind(s)

(* Definitions whose name ends in _Mutant are faulty variants of the one that *)
(* follows, kept to show that a property notices the fault.                   *)

seek_next_string_Mutant(s, cursor, thing) ==   \* stays where it is if there is none
    LET at == find(s, cursor, thing)
    IN  [at |-> at, cursor |-> IF at = behind(s) THEN cursor ELSE at + Len(thing)]

(* A reader at its end stays there.                                           *)
seek_next_string(s, cursor, thing) ==
    LET at == find(s, cursor, thing)
    IN  [at |-> at, cursor |-> IF at = behind(s) THEN at ELSE at + Len(thing)]

seek_next_char(s, cursor, c) == seek_next_string(s, cursor, <<c>>)

LineBreak == [CARRIAGE_RETURN |-> <<"CR">>, LINE_FEED |-> <<"LF">>, END_OF_LINE |-> <<"CR", "LF">>]

(* Answers where it leaves the reader.                                        *)
seek_next_line(s, cursor, newLineType) ==
    seek_next_string(s, cursor, LineBreak[newLineType]).cursor

(* The seeks for a kind of byte step over the one they find.                  *)
seek_next(s, cursor, P(_)) ==
    LET at == first(s, cursor, LAMBDA i : P(s[i]))
    IN  [at |-> at, cursor |-> Min({at + 1, behind(s)})]

seek_next_alpha(s, cursor) == seek_next(s, cursor, isAlpha)
seek_next_alphanumeric(s, cursor) == seek_next(s, cursor, isAlphanumeric)
seek_next_non_alphanumeric(s, cursor) == seek_next(s, cursor, LAMBDA c : ~isAlphanumeric(c))
seek_next_whitespace(s, cursor) == seek_next(s, cursor, LAMBDA c : c \in Whitespace)
seek_past_whitespace(s, cursor) == first(s, cursor, LAMBDA i : s[i] \notin Whitespace)

(* The byte a pointer to position i reads, the terminating zero behind s.     *)
byteAt(s, i) == IF i \in 1..Len(s) THEN s[i] ELSE "NUL"

(* The number the digits from start on spell; it stays below 2^64.            *)
parse_u64(s, start) ==
    LET end == first(s, start, LAMBDA i : ~isNumber(s[i])) - 1
        ret[i \in (start - 1)..end] ==
            IF i < start THEN 0
            ELSE 10 * ret[i - 1] + (CHOOSE d \in 0..9 : Digits[d + 1] = s[i])
    IN  ret[end]

(* What append writes of a number: its digits come lowest first, and are then *)
(* swapped end for end.                                                       *)
append_u64(u) ==
    LET digits[n \in 0..u] ==
            <<Digits[(n % 10) + 1]>> \o (IF n < 10 THEN <<>> ELSE digits[n \div 10])
    IN  [k \in 1..Len(digits[u]) |-> digits[u][Len(digits[u]) + 1 - k]]

append_s64(i) == IF i < 0 THEN <<"-">> \o append_u64(-i) ELSE append_u64(i)

match_Mutant(a, b) ==   \* all of the first
    Len(a) <= Len(b) /\ SubSeq(b, 1, Len(a)) = a

(* Equal as far as the shorter goes.                                          *)
match(a, b) == \A k \in 1..Min({Len(a), Len(b)}) : a[k] = b[k]

-----------------------------------------------------------------------------
(* Without regard to case.                                                    *)

char_to_lower(c) ==
    IF \E i \in DOMAIN Upper : Upper[i] = c
    THEN Lower[CHOOSE i \in DOMAIN Upper : Upper[i] = c] ELSE c

to_lower(s) == [i \in 1..Len(s) |-> char_to_lower(s[i])]

char_equals_ignore_case(c, d) ==
    c = d \/ \E i \in DOMAIN Lower : {c, d} = {Lower[i], Upper[i]}

equals_ignore_case(s, t) ==
    Len(s) = Len(t) /\ \A k \in 1..Len(s) : char_equals_ignore_case(s[k], t[k])

match_ignore_case(a, b) ==
    LET n == Min({Len(a), Len(b)})
    IN  equals_ignore_case(SubSeq(a, 1, n), SubSeq(b, 1, n))

(* Nothing contains the empty name.                                           *)
contains_ignore_case(s, thing) ==
    /\ thing # <<>>
    /\ \E i \in 1..(Len(s) - Len(thing) + 1) :
          equals_ignore_case(SubSeq(s, i, i + Len(thing) - 1), thing)

-----------------------------------------------------------------------------
(* The first n words of a text, as highp_teams reads them: an empty one when  *)
(* the text has come to its end.                                              *)
wordsIn(text, n) ==
    LET after[k \in 0..n] ==
            IF k = 0 THEN [cursor |-> 1, words |-> <<>>]
            ELSE LET start == seek_next_alphanumeric(text, after[k - 1].cursor)
                     end == seek_next_non_alphanumeric(text, start.cursor)
                 IN  [cursor |-> end.cursor,
                      words |-> Append(after[k - 1].words, SubSeq(text, start.at, end.at - 1))]
    IN  SelectSeq(after[n].words, LAMBDA word : word # <<>>)
=============================================================================
