--------------------------- MODULE BotConfigProofs ---------------------------
(* Proofs about BotConfig, for every file of bytes without a zero: what is    *)
(* read of an option stays as it was read, and of a readable file every       *)
(* option is read.                                                            *)
EXTENDS BotConfig, TLAPS, FiniteSetTheorems, SequenceTheorems, WellFoundedInduction

(* The bytes that may come to stand in the buffer.  What the provers are not  *)
(* told of STRING is who its members are.                                     *)
Byte == STRING \cup {"NUL", "CR", "LF", ":", "#"} \cup {Lower[i] : i \in 1..26}
Text == Seq(Byte)

-----------------------------------------------------------------------------
(* Numbers.                                                                   *)

LEMMA LeastExists ==
    ASSUME NEW T \in SUBSET Nat, T # {}
    PROVE  \E n \in T : \A m \in T : n <= m
<1> DEFINE below == {0..n : n \in T}
<1>1. below \subseteq FiniteSubsetsOf(Nat) /\ below # {}
  <2>1. ASSUME NEW n \in T PROVE 0..n \in SUBSET Nat /\ IsFiniteSet(0..n)
    BY FS_Interval
  <2> QED
    BY <2>1 DEF FiniteSubsetsOf
<1>2. \E x \in below : \A y \in below : ~(<<y, x>> \in StrictSubsetOrdering(Nat))
  <2>1. IsWellFoundedOn(StrictSubsetOrdering(Nat), FiniteSubsetsOf(Nat))
    BY FS_StrictSubsetOrderingWellFounded
  <2> HIDE DEF below
  <2> QED
    BY <1>1, <2>1, WFMin
<1>3. PICK n \in T : \A m \in T : <<0..m, 0..n>> \notin StrictSubsetOrdering(Nat)
  BY <1>2
<1>4. ASSUME NEW m \in T, m < n PROVE FALSE
  <2>1. 0..m \subseteq 0..n /\ n \in 0..n /\ n \notin 0..m /\ 0..n \subseteq Nat
    BY <1>4
  <2> QED
    BY <1>3, <2>1 DEF StrictSubsetOrdering
<1> QED
  BY <1>4

(* What holds at 0 and is passed on from each number to the next holds of all *)
(* of them.                                                                   *)
LEMMA Induction ==
    ASSUME NEW N \in Nat, NEW G, 0 \in G,
           \A n \in 1..N : n - 1 \in G => n \in G
    PROVE  0..N \subseteq G
<1> DEFINE T == {n \in 0..N : n \notin G}
<1>1. CASE T = {}
  BY <1>1
<1>2. CASE T # {}
  <2> HIDE DEF T
  <2>0. T \in SUBSET Nat
    BY DEF T
  <2>1. PICK n \in T : \A m \in T : n <= m
    BY <1>2, <2>0, LeastExists
  <2> USE DEF T
  <2>2. n \in 1..N /\ n - 1 \in 0..N /\ n - 1 \notin T
    BY <2>1
  <2> QED
    BY <2>1, <2>2
<1> QED
  BY <1>1, <1>2

LEMMA MinIs ==
    ASSUME NEW n \in Nat, NEW T \in SUBSET Nat
    PROVE  Min({n} \cup T) \in {n} \cup T /\ \A m \in {n} \cup T : Min({n} \cup T) <= m
  BY LeastExists DEF Min

-----------------------------------------------------------------------------
(* The searches.                                                              *)

(* f is the first position of those from start on in T, or behind the text.   *)
IsFirst(f, text, start, T) ==
    /\ f \in Nat /\ f <= behind(text)
    /\ f < behind(text) => f \in start..Len(text) /\ f \in T
    /\ \A i \in start..Len(text) : i < f => i \notin T

LEMMA FirstIs ==
    ASSUME NEW text \in Text, NEW start \in Nat \ {0}, NEW T
    PROVE  IsFirst(Min({behind(text)} \cup {i \in start..Len(text) : i \in T}), text, start, T)
<1> DEFINE hits == {i \in start..Len(text) : i \in T}
           f == Min({behind(text)} \cup hits)
<1>1. Len(text) \in Nat /\ behind(text) \in Nat /\ hits \in SUBSET Nat
  BY LenProperties DEF Text, behind
<1> HIDE DEF hits
<1>2. f \in {behind(text)} \cup hits /\ \A m \in {behind(text)} \cup hits : f <= m
  BY <1>1, MinIs
<1> HIDE DEF f
<1> USE DEF hits
<1>3. f \in Nat /\ f <= behind(text) /\ (f < behind(text) => f \in hits)
  BY <1>1, <1>2
<1>4. \A i \in start..Len(text) : i < f => i \notin hits
  BY <1>1, <1>2
<1>5. IsFirst(f, text, start, T)
  BY <1>3, <1>4 DEF IsFirst
<1> QED
  BY <1>5 DEF f

Zeros(text) == {i \in 1..Len(text) : text[i] = "NUL"}
Spaces(text) == {i \in 1..Len(text) : text[i] \in Whitespace}
Letters(text) == {i \in 1..Len(text) : isAlpha(text[i])}
Places(text, c) == {i \in 1..Len(text) : text[i] = c}

zeroFrom(text, start) == first(text, start, LAMBDA i : text[i] = "NUL")

LEMMA ZeroIs ==
    ASSUME NEW text \in Text, NEW start \in Nat \ {0}
    PROVE  IsFirst(zeroFrom(text, start), text, start, Zeros(text))
<1>1. {i \in start..Len(text) : text[i] = "NUL"} = {i \in start..Len(text) : i \in Zeros(text)}
  BY LenProperties DEF Zeros, Text
<1> QED
  BY <1>1, FirstIs DEF zeroFrom, first

LEMMA LetterIs ==
    ASSUME NEW text \in Text, NEW start \in Nat \ {0}
    PROVE  /\ IsFirst(seek_next_alpha(text, start).at, text, start, Letters(text))
           /\ seek_next_alpha(text, start).cursor = Min({seek_next_alpha(text, start).at + 1, behind(text)})
<1>1. {i \in start..Len(text) : isAlpha(text[i])} = {i \in start..Len(text) : i \in Letters(text)}
  BY LenProperties DEF Letters, Text
<1> QED
  BY <1>1, FirstIs DEF seek_next_alpha, seek_next, first

LEMMA SpaceIs ==
    ASSUME NEW text \in Text, NEW start \in Nat \ {0}
    PROVE  /\ IsFirst(seek_next_whitespace(text, start).at, text, start, Spaces(text))
           /\ seek_next_whitespace(text, start).cursor
                 = Min({seek_next_whitespace(text, start).at + 1, behind(text)})
<1>1. {i \in start..Len(text) : text[i] \in Whitespace} = {i \in start..Len(text) : i \in Spaces(text)}
  BY LenProperties DEF Spaces, Text
<1> QED
  BY <1>1, FirstIs DEF seek_next_whitespace, seek_next, first

LEMMA PastIs ==
    ASSUME NEW text \in Text, NEW start \in Nat \ {0}
    PROVE  IsFirst(seek_past_whitespace(text, start), text, start, (1..Len(text)) \ Spaces(text))
<1>1. {i \in start..Len(text) : text[i] \notin Whitespace}
         = {i \in start..Len(text) : i \in (1..Len(text)) \ Spaces(text)}
  BY LenProperties DEF Spaces, Text
<1> QED
  BY <1>1, FirstIs DEF seek_past_whitespace, first

LEMMA CharIs ==
    ASSUME NEW text \in Text, NEW start \in Nat \ {0}, NEW c \in Byte
    PROVE  /\ IsFirst(seek_next_char(text, start, c).at, text, start, Places(text, c))
           /\ seek_next_char(text, start, c).cursor
                 = IF seek_next_char(text, start, c).at = behind(text)
                   THEN behind(text) ELSE seek_next_char(text, start, c).at + 1
<1> DEFINE one == <<c>>
<1>1. Len(one) = 1 /\ one[1] = c /\ one \in Text
  BY DEF Text
<1>2. ASSUME NEW i \in start..Len(text)
      PROVE  (i + Len(one) - 1 <= Len(text) /\ SubSeq(text, i, i + Len(one) - 1) = one) <=> text[i] = c
  <2>1. i \in 1..Len(text) /\ i + Len(one) - 1 = i /\ Len(text) \in Nat
    BY <1>1, LenProperties DEF Text
  <2>2. SubSeq(text, i, i) \in Text /\ Len(SubSeq(text, i, i)) = 1 /\ SubSeq(text, i, i)[1] = text[i]
    <3>1. \A j \in i..i : text[j] \in Byte
      BY <2>1, ElementOfSeq DEF Text
    <3> QED
      BY <2>1, <3>1, SubSeqProperties DEF Text
  <2>3. SubSeq(text, i, i) = one <=> text[i] = c
    <3> HIDE DEF one
    <3>1. ASSUME text[i] = c PROVE SubSeq(text, i, i) = one
      <4>1. \A j \in 1..1 : SubSeq(text, i, i)[j] = one[j]
        BY <1>1, <2>2, <3>1
      <4> QED
        BY <1>1, <2>2, <4>1, SeqEqual DEF Text
    <3> QED
      BY <1>1, <2>2, <3>1
  <2> QED
    BY <2>1, <2>3
<1>3. {i \in start..Len(text) : i + Len(one) - 1 <= Len(text) /\ SubSeq(text, i, i + Len(one) - 1) = one}
         = {i \in start..Len(text) : i \in Places(text, c)}
  BY <1>2, LenProperties DEF Places, Text
<1>4. seek_next_char(text, start, c).at = Min({behind(text)} \cup {i \in start..Len(text) : i \in Places(text, c)})
  BY <1>3 DEF seek_next_char, seek_next_string, find, first
<1>5. seek_next_char(text, start, c).cursor
         = IF seek_next_char(text, start, c).at = behind(text)
           THEN seek_next_char(text, start, c).at ELSE seek_next_char(text, start, c).at + Len(one)
  BY DEF seek_next_char, seek_next_string
<1> QED
  BY <1>1, <1>4, <1>5, FirstIs

(* Where a seek for a kind of byte leaves the reader.                         *)
LEMMA StepOver ==
    ASSUME NEW text \in Text, NEW at \in Nat, at <= behind(text)
    PROVE  Min({at + 1, behind(text)}) = IF at = behind(text) THEN at ELSE at + 1
<1> DEFINE T == {behind(text)}
<1>1. behind(text) \in Nat
  BY LenProperties DEF Text, behind
<1>2. {at + 1, behind(text)} = {at + 1} \cup T /\ T \in SUBSET Nat
  BY <1>1
<1> HIDE DEF T
<1>3. Min({at + 1} \cup T) \in {at + 1} \cup T /\ \A m \in {at + 1} \cup T : Min({at + 1} \cup T) <= m
  BY <1>2, MinIs
<1> QED
  BY <1>1, <1>2, <1>3 DEF T

LEMMA LineIs ==
    ASSUME NEW text \in Text, NEW start \in Nat \ {0}
    PROVE  \E at :
              /\ IsFirst(at, text, start, Places(text, "LF"))
              /\ seek_next_line(text, start, "LINE_FEED") = IF at = behind(text) THEN at ELSE at + 1
<1>1. seek_next_line(text, start, "LINE_FEED") = seek_next_char(text, start, "LF").cursor
  BY DEF seek_next_line, seek_next_char, LineBreak
<1>2. "LF" \in Byte
  BY DEF Byte
<1> QED
  BY <1>1, <1>2, CharIs

-----------------------------------------------------------------------------
(* Writing into the buffer.                                                   *)

LEMMA LowerIs ==
    ASSUME NEW c \in Byte
    PROVE  char_to_lower(c) \in Byte /\ (char_to_lower(c) = "NUL" => c = "NUL")
<1>1. DOMAIN Upper = 1..26
  BY DEF Upper
<1>2. \A i \in 1..26 : Lower[i] # "NUL"
  BY DEF Lower
<1> QED
  BY <1>1, <1>2 DEF char_to_lower, Byte

LEMMA TerminatedIs ==
    ASSUME NEW text \in Text, NEW end \in Nat
    PROVE  /\ terminated(text, end) \in Text
           /\ Len(terminated(text, end)) = Len(text)
           /\ \A i \in 1..Len(text) : terminated(text, end)[i] = IF i = end THEN "NUL" ELSE text[i]
<1>1. "NUL" \in Byte
  BY DEF Byte
<1>2. CASE end \in 1..Len(text)
  BY <1>1, <1>2, ExceptSeq DEF terminated, Text
<1>3. CASE end \notin 1..Len(text)
  BY <1>3 DEF terminated
<1> QED
  BY <1>2, <1>3

LEMMA LoweredIs ==
    ASSUME NEW text \in Text, NEW start \in Nat \ {0}, start <= behind(text)
    PROVE  /\ lowerFrom(text, start) \in Text
           /\ Len(lowerFrom(text, start)) = Len(text)
           /\ \A i \in 1..Len(text) :
                 lowerFrom(text, start)[i] = IF start <= i /\ i < zeroFrom(text, start)
                                             THEN char_to_lower(text[i]) ELSE text[i]
<1> DEFINE end == zeroFrom(text, start)
           a == SubSeq(text, 1, start - 1)
           m == SubSeq(text, start, end - 1)
           l == to_lower(m)
           z == SubSeq(text, end, Len(text))
<1>1. Len(text) \in Nat /\ \A i \in 1..Len(text) : text[i] \in Byte
  BY LenProperties, ElementOfSeq DEF Text
<1>2. end \in Nat /\ start <= end /\ end <= Len(text) + 1
  BY <1>1, ZeroIs DEF IsFirst, behind
<1>3. a \in Text /\ Len(a) = start - 1 /\ \A i \in 1..(start - 1) : a[i] = text[i]
  BY <1>1, SubSeqProperties DEF Text, behind
<1>4. m \in Text /\ Len(m) = end - start /\ \A i \in 1..(end - start) : m[i] = text[start + i - 1]
  BY <1>1, <1>2, SubSeqProperties DEF Text
<1>5. z \in Text /\ Len(z) = Len(text) - end + 1 /\ \A i \in 1..(Len(text) - end + 1) : z[i] = text[end + i - 1]
  BY <1>1, <1>2, SubSeqProperties DEF Text
<1>6. l \in Text /\ Len(l) = end - start /\ \A i \in 1..(end - start) : l[i] = char_to_lower(text[start + i - 1])
  <2> HIDE DEF m, end
  <2>1. \A i \in 1..(end - start) : m[i] \in Byte /\ char_to_lower(m[i]) \in Byte
    BY <1>4, LowerIs, ElementOfSeq DEF Text
  <2>2. l = [i \in 1..(end - start) |-> char_to_lower(m[i])]
    BY <1>4 DEF to_lower
  <2>3. end - start \in Nat
    BY <1>2
  <2> HIDE DEF l
  <2>4. l \in Text
    BY <2>1, <2>2, <2>3 DEF Text
  <2> QED
    BY <1>4, <2>1, <2>2, <2>3, <2>4
<1>7. lowerFrom(text, start) = a \o l \o z
  BY DEF lowerFrom, zeroFrom
<1> HIDE DEF end, a, m, l, z
<1>8. /\ a \o l \in Text /\ Len(a \o l) = end - 1
      /\ \A i \in 1..(end - 1) : (a \o l)[i] = IF i <= start - 1 THEN a[i] ELSE l[i - (start - 1)]
  <2>1. a \in Seq(Byte) /\ l \in Seq(Byte) /\ Len(a) = start - 1 /\ Len(l) = end - start
    BY <1>3, <1>6 DEF Text
  <2>2. /\ a \o l \in Seq(Byte) /\ Len(a \o l) = Len(a) + Len(l)
        /\ \A i \in 1..(Len(a) + Len(l)) :
              (a \o l)[i] = IF i <= Len(a) THEN a[i] ELSE l[i - Len(a)]
    BY <2>1, ConcatProperties
  <2>3. (start - 1) + (end - start) = end - 1
    BY <1>2
  <2> QED
    BY <2>1, <2>2, <2>3 DEF Text
<1>9. /\ a \o l \o z \in Text /\ Len(a \o l \o z) = Len(text)
      /\ \A i \in 1..Len(text) : (a \o l \o z)[i] = IF i <= end - 1 THEN (a \o l)[i] ELSE z[i - (end - 1)]
  BY <1>1, <1>2, <1>5, <1>8, ConcatProperties DEF Text
<1>10. ASSUME NEW i \in 1..Len(text)
       PROVE  (a \o l \o z)[i] = IF start <= i /\ i < end THEN char_to_lower(text[i]) ELSE text[i]
  <2>1. CASE i < start
    BY <1>1, <1>2, <1>3, <1>8, <1>9, <2>1
  <2>2. CASE start <= i /\ i < end
    <3>1. i - (start - 1) \in 1..(end - start) /\ start + (i - (start - 1)) - 1 = i
      BY <1>1, <1>2, <2>2
    <3>2. (a \o l \o z)[i] = (a \o l)[i] /\ (a \o l)[i] = l[i - (start - 1)]
      BY <1>1, <1>2, <1>8, <1>9, <2>2
    <3> QED
      BY <1>6, <2>2, <3>1, <3>2
  <2>3. CASE end <= i
    <3>1. i - (end - 1) \in 1..(Len(text) - end + 1) /\ end + (i - (end - 1)) - 1 = i
      BY <1>1, <1>2, <2>3
    <3>2. (a \o l \o z)[i] = z[i - (end - 1)]
      BY <1>1, <1>2, <1>9, <2>3
    <3>3. z[i - (end - 1)] = text[i]
      BY <1>5, <3>1
    <3> QED
      BY <1>2, <2>3, <3>2, <3>3
  <2>4. i < start \/ (start <= i /\ i < end) \/ end <= i
    BY <1>1, <1>2
  <2> QED
    BY <2>1, <2>2, <2>3, <2>4
<1> QED
  BY <1>7, <1>9, <1>10 DEF end

-----------------------------------------------------------------------------
(* What a file holds.                                                         *)

pieceOf(f, n) ==
    bytesOf(f.lines[n]) \o (IF n < Len(f.lines) \/ f.ended THEN f.lineBreak ELSE <<>>)

upTo(f) ==
    CHOOSE u : u = [n \in 0..Len(f.lines) |->
                       IF n = 0 THEN <<>>
                       ELSE u[n - 1] \o bytesOf(f.lines[n])
                              \o (IF n < Len(f.lines) \/ f.ended THEN f.lineBreak ELSE <<>>)]

LEMMA BytesIsText == Bytes \subseteq Text
  BY SeqMonotonic DEF Bytes, Text, Byte

LEMMA WordType ==
    ASSUME NEW key \in Keys
    PROVE  word[key] \in Text
<1>1. key \in {"nick", "pass", "channel"}
  BY DEF Keys
<1>2. \A c \in {"n", "i", "c", "k", "p", "a", "s", "h", "e", "l"} : c \in Byte
  <2>1. Lower[14] = "n" /\ Lower[9] = "i" /\ Lower[3] = "c" /\ Lower[11] = "k" /\ Lower[16] = "p"
        /\ Lower[1] = "a" /\ Lower[19] = "s" /\ Lower[8] = "h" /\ Lower[5] = "e" /\ Lower[12] = "l"
    BY DEF Lower
  <2>2. \A i \in 1..26 : Lower[i] \in Byte
    BY DEF Byte
  <2> QED
    BY <2>1, <2>2
<1>3. /\ word["nick"] = <<"n", "i", "c", "k">> /\ word["pass"] = <<"p", "a", "s", "s">>
      /\ word["channel"] = <<"c", "h", "a", "n", "n", "e", "l">>
  BY DEF word
<1>4. <<"n", "i", "c", "k">> \in Text
  BY <1>2 DEF Text
<1>5. <<"p", "a", "s", "s">> \in Text
  BY <1>2 DEF Text
<1>6. <<"c", "h", "a", "n", "n", "e", "l">> \in Text
  BY <1>2 DEF Text
<1> QED
  BY <1>1, <1>3, <1>4, <1>5, <1>6

LEMMA LineBytes ==
    ASSUME NEW line \in Line
    PROVE  bytesOf(line) \in Text
<1>1. \A key \in Keys : word[key] \in Text
  BY WordType
<1>2. <<":">> \in Text /\ <<"#">> \in Text /\ <<>> \in Text
  BY DEF Byte, Text
<1>3. CASE isOption(line)
  <2>1. line \in [key : Keys, gap : Bytes, value : Bytes]
    BY <1>3 DEF isOption, Line
  <2>2. line.key \in Keys /\ line.gap \in Text /\ line.value \in Text
    BY <2>1, BytesIsText
  <2>3. word[line.key] \o <<":">> \o line.gap \o line.value \in Text
    BY <1>1, <1>2, <2>2, ConcatProperties DEF Text
  <2> QED
    BY <1>3, <2>3 DEF bytesOf, isOption
<1>4. CASE isComment(line) /\ ~isOption(line)
  <2>1. line \in [comment : Bytes]
    BY <1>4 DEF isComment, Line
  <2>2. <<"#">> \o line.comment \in Text
    BY <1>2, <2>1, BytesIsText, ConcatProperties DEF Text
  <2> QED
    BY <1>4, <2>2 DEF bytesOf, isComment
<1>5. CASE line # Blank /\ ~isOption(line) /\ ~isComment(line)
  <2>1. line \in [text : Bytes]
    BY <1>5 DEF isOption, isComment, Line
  <2> QED
    BY <1>5, <2>1, BytesIsText DEF bytesOf
<1>6. CASE line = Blank
  BY <1>2, <1>6 DEF bytesOf
<1> QED
  BY <1>3, <1>4, <1>5, <1>6 DEF isOption, isComment

LEMMA FileParts ==
    ASSUME NEW f \in Files
    PROVE  /\ f.lines \in Seq(Line) /\ Len(f.lines) \in Nat /\ f.ended \in BOOLEAN
           /\ f.lineBreak \in Text
           /\ \A n \in 1..Len(f.lines) : /\ f.lines[n] \in Line
                                         /\ bytesOf(f.lines[n]) \in Text
                                         /\ pieceOf(f, n) \in Text
<1>1. f \in [lines : Seq(Line), lineBreak : Bytes, ended : BOOLEAN]
  BY BotConfigAssumption
<1>2. /\ f.lines \in Seq(Line) /\ Len(f.lines) \in Nat /\ f.ended \in BOOLEAN
      /\ f.lineBreak \in Text
  BY <1>1, BytesIsText, LenProperties
<1>3. ASSUME NEW n \in 1..Len(f.lines)
      PROVE  f.lines[n] \in Line /\ bytesOf(f.lines[n]) \in Text /\ pieceOf(f, n) \in Text
  <2>1. f.lines[n] \in Line
    BY <1>2, ElementOfSeq
  <2>2. bytesOf(f.lines[n]) \in Text
    BY <2>1, LineBytes
  <2>3. <<>> \in Text
    BY DEF Text
  <2> QED
    BY <1>2, <2>1, <2>2, <2>3, ConcatProperties DEF pieceOf, Text
<1> QED
  BY <1>2, <1>3

LEMMA SpelledIs ==
    ASSUME NEW f \in Files
    PROVE  /\ spelled(f) = upTo(f)[Len(f.lines)]
           /\ upTo(f)[0] = <<>>
           /\ \A n \in 0..Len(f.lines) : upTo(f)[n] \in Text
           /\ \A n \in 1..Len(f.lines) : upTo(f)[n] = upTo(f)[n - 1] \o pieceOf(f, n)
<1> DEFINE N == Len(f.lines)
           sep(k) == IF k < N \/ f.ended THEN f.lineBreak ELSE <<>>
           body(u, k) == IF k = 0 THEN <<>> ELSE u[k - 1] \o bytesOf(f.lines[k]) \o sep(k)
           begun(u, n) == u \in [0..n -> Text] /\ \A k \in 0..n : u[k] = body(u, k)
           G == {n \in 0..N : \E u : begun(u, n)}
<1>1. N \in Nat /\ \A k \in 1..N : bytesOf(f.lines[k]) \in Text /\ sep(k) \in Text
  <2>1. <<>> \in Text
    BY DEF Text
  <2> QED
    BY <2>1, FileParts
<1>2. 0 \in G
  <2> DEFINE u == [k \in 0..0 |-> <<>>]
  <2>1. begun(u, 0)
    BY DEF Text
  <2> HIDE DEF begun
  <2> QED
    BY <1>1, <2>1
<1>3. ASSUME NEW n \in 1..N, n - 1 \in G
      PROVE  n \in G
  <2>1. PICK u : begun(u, n - 1)
    BY <1>3
  <2> DEFINE last == u[n - 1] \o bytesOf(f.lines[n]) \o sep(n)
             w == [k \in 0..n |-> IF k = n THEN last ELSE u[k]]
  <2>2. n \in Nat /\ n # 0 /\ n - 1 \in 0..(n - 1) /\ u[n - 1] \in Text
    BY <1>1, <2>1
  <2>3. last \in Text
    <3>1. u[n - 1] \o bytesOf(f.lines[n]) \in Text
      BY <1>1, <2>2, ConcatProperties DEF Text
    <3> QED
      BY <1>1, <3>1, ConcatProperties DEF Text
  <2>4. w \in [0..n -> Text]
    <3> HIDE DEF last
    <3> QED
      BY <2>1, <2>2, <2>3
  <2>5. ASSUME NEW k \in 0..n PROVE w[k] = body(w, k)
    <3>1. CASE k = n
      <4>1. w[n - 1] = u[n - 1]
        BY <2>2
      <4> QED
        BY <2>2, <3>1, <4>1
    <3>2. CASE k # n
      <4>1. k \in 0..(n - 1) /\ (k # 0 => k - 1 \in 0..(n - 1) /\ k - 1 # n)
        BY <2>2, <3>2
      <4>2. w[k] = u[k] /\ (k # 0 => w[k - 1] = u[k - 1])
        BY <2>2, <3>2, <4>1
      <4> QED
        BY <2>1, <4>1, <4>2
    <3> QED
      BY <3>1, <3>2
  <2>6. begun(w, n)
    <3> HIDE DEF body, w
    <3> QED
      BY <2>4, <2>5
  <2> HIDE DEF begun
  <2> QED
    BY <1>1, <2>6
<1>4. PICK u : begun(u, N)
  <2> HIDE DEF G
  <2>0. \A n \in 1..N : n - 1 \in G => n \in G
    BY <1>3
  <2>1. 0..N \subseteq G
    BY <1>1, <1>2, <2>0, Induction
  <2>2. N \in G
    BY <1>1, <2>1
  <2> USE DEF G
  <2> HIDE DEF begun
  <2> QED
    BY <2>2
<1> DEFINE after == CHOOSE x : x = [n \in 0..N |-> body(x, n)]
<1>5. u = [k \in 0..N |-> body(u, k)]
  <2> HIDE DEF body
  <2> QED
    BY <1>4
<1>6. after = [k \in 0..N |-> body(after, k)]
  <2> HIDE DEF body
  <2> QED
    BY <1>5
<1>7. upTo(f) = after /\ spelled(f) = after[N]
  BY DEF upTo, spelled
<1> HIDE DEF after
<1>8. \A k \in 0..N : after[k] = body(after, k)
  <2> HIDE DEF body
  <2> QED
    BY <1>6
<1>9. after[0] = <<>> /\ \A n \in 1..N : after[n] = after[n - 1] \o bytesOf(f.lines[n]) \o sep(n)
  <2>1. N \in Nat
    BY <1>1
  <2>2. 0 \in 0..N /\ \A n \in 1..N : n \in 0..N /\ n # 0
    BY <2>1
  <2>3. ASSUME NEW n \in 0..N PROVE after[n] = body(after, n)
    <3> HIDE DEF body
    <3> QED
      BY <1>8
  <2>4. after[0] = <<>>
    BY <2>2, <2>3, Zenon
  <2>5. ASSUME NEW n \in 1..N PROVE after[n] = after[n - 1] \o bytesOf(f.lines[n]) \o sep(n)
    <3> HIDE DEF sep, N
    <3> QED
      BY <2>2, <2>3, Zenon
  <2> HIDE DEF sep
  <2> QED
    BY <2>4, <2>5
<1> HIDE DEF body, begun
<1> DEFINE T == {n \in 0..N : after[n] \in Text}
<1>10. 0..N \subseteq T
  <2>1. 0 \in T
    <3>1. <<>> \in Text /\ 0 \in 0..N
      BY <1>1 DEF Text
    <3> QED
      BY <1>9, <3>1, Zenon
  <2>2. ASSUME NEW n \in 1..N, n - 1 \in T PROVE n \in T
    <3>1. after[n - 1] \o bytesOf(f.lines[n]) \in Text
      BY <1>1, <2>2, ConcatProperties DEF Text
    <3>2. after[n] \in Text
      BY <1>1, <1>9, <3>1, ConcatProperties DEF Text
    <3> QED
      BY <1>1, <3>2
  <2> HIDE DEF T
  <2>3. \A n \in 1..N : n - 1 \in T => n \in T
    BY <2>2
  <2> QED
    BY <1>1, <2>1, <2>3, Induction
<1>11. ASSUME NEW n \in 1..N PROVE after[n] = after[n - 1] \o pieceOf(f, n)
  <2>1. n - 1 \in 0..N
    BY <1>1
  <2>2. after[n - 1] \in Text
    BY <1>10, <2>1
  <2>3. pieceOf(f, n) = bytesOf(f.lines[n]) \o sep(n)
    BY DEF pieceOf
  <2>4. bytesOf(f.lines[n]) \in Seq(Byte) /\ sep(n) \in Seq(Byte) /\ after[n - 1] \in Seq(Byte)
    BY <1>1, <2>2 DEF Text
  <2> HIDE DEF sep
  <2>5. after[n] = after[n - 1] \o bytesOf(f.lines[n]) \o sep(n)
    BY <1>9
  <2>6. (after[n - 1] \o bytesOf(f.lines[n])) \o sep(n) = after[n - 1] \o (bytesOf(f.lines[n]) \o sep(n))
    <3>1. \A a, b, c \in Seq(Byte) : (a \o b) \o c = a \o (b \o c)
      BY ConcatAssociative
    <3> QED
      BY <2>4, <3>1
  <2> QED
    BY <2>3, <2>5, <2>6
<1> HIDE DEF T, sep, N
<1>12. \A n \in 0..N : after[n] \in Text
  BY <1>10 DEF T
<1> QED
  BY <1>7, <1>9, <1>11, <1>12 DEF N

-----------------------------------------------------------------------------
(* What one turn of the loop reads and writes.                                *)

LEMMA TextLength ==
    ASSUME NEW text \in Text
    PROVE  /\ Len(text) \in Nat /\ behind(text) = Len(text) + 1
           /\ behind(text) \in Nat \ {0}
           /\ \A i \in 1..Len(text) : text[i] \in Byte
  BY LenProperties, ElementOfSeq DEF Text, behind

LEMMA ValueIs ==
    ASSUME NEW text \in Text, NEW at \in 1..behind(text)
    PROVE  LET v == valueAfter(text, at) IN
           /\ v.start \in at..behind(text)
           /\ v.end \in v.start..behind(text)
           /\ v.cursor = IF v.end = behind(text) THEN v.end ELSE v.end + 1
           /\ v.cursor \in 1..behind(text)
<1> DEFINE colon == seek_next_char(text, at, ":").cursor
           start == seek_past_whitespace(text, colon)
           end == seek_next_whitespace(text, start)
<1>1. behind(text) \in Nat /\ at \in Nat \ {0} /\ Len(text) \in Nat /\ behind(text) = Len(text) + 1
  BY TextLength
<1>2. colon \in Nat \ {0} /\ at <= colon /\ colon <= behind(text)
  <2>1. ":" \in Byte
    BY DEF Byte
  <2> QED
    BY <1>1, <2>1, CharIs DEF IsFirst
<1>3. start \in Nat \ {0} /\ colon <= start /\ start <= behind(text)
  <2> HIDE DEF colon
  <2> QED
    BY <1>1, <1>2, PastIs DEF IsFirst
<1>4. end.at \in Nat /\ start <= end.at /\ end.at <= behind(text)
      /\ end.cursor = Min({end.at + 1, behind(text)})
  <2> HIDE DEF start
  <2>1. IsFirst(end.at, text, start, Spaces(text)) /\ end.cursor = Min({end.at + 1, behind(text)})
    BY <1>3, SpaceIs
  <2> HIDE DEF end
  <2>2. end.at < behind(text) => end.at \in start..Len(text)
    BY <2>1 DEF IsFirst
  <2> QED
    BY <1>1, <1>3, <2>1, <2>2 DEF IsFirst
<1>5. end.cursor = IF end.at = behind(text) THEN end.at ELSE end.at + 1
  <2> HIDE DEF end
  <2> QED
    BY <1>4, StepOver
<1>6. valueAfter(text, at) = [start |-> start, end |-> end.at, cursor |-> end.cursor]
  BY DEF valueAfter
<1> HIDE DEF start, end, colon
<1> QED
  BY <1>1, <1>2, <1>3, <1>4, <1>5, <1>6

LEMMA LetterAhead ==
    ASSUME NEW text \in Text, NEW start \in 1..behind(text)
    PROVE  LET at == seek_next_alpha(text, start) IN
           /\ at.at \in start..behind(text)
           /\ at.cursor = IF at.at = behind(text) THEN at.at ELSE at.at + 1
           /\ at.cursor \in start..behind(text)
<1> DEFINE at == seek_next_alpha(text, start)
<1>1. behind(text) \in Nat /\ start \in Nat \ {0} /\ Len(text) \in Nat /\ behind(text) = Len(text) + 1
  BY TextLength
<1>2. at.at \in Nat /\ start <= at.at /\ at.at <= behind(text)
      /\ at.cursor = Min({at.at + 1, behind(text)})
  <2>1. IsFirst(at.at, text, start, Letters(text)) /\ at.cursor = Min({at.at + 1, behind(text)})
    BY <1>1, LetterIs
  <2> HIDE DEF at
  <2>2. at.at < behind(text) => at.at \in start..Len(text)
    BY <2>1 DEF IsFirst
  <2> QED
    BY <1>1, <2>1, <2>2 DEF IsFirst
<1> HIDE DEF at
<1>3. at.cursor = IF at.at = behind(text) THEN at.at ELSE at.at + 1
  BY <1>2, StepOver
<1> QED
  BY <1>1, <1>2, <1>3 DEF at

LEMMA LineAhead ==
    ASSUME NEW text \in Text, NEW at \in 1..behind(text)
    PROVE  seek_next_line(text, at, "LINE_FEED") \in at..behind(text)
  BY LineIs, TextLength DEF IsFirst

(* The buffer with the value of an option read in it.                         *)
written(key, text, v) ==
    LET cut == terminated(text, v.end)
    IN  IF key \in Lowered THEN lowerFrom(cut, v.start) ELSE cut

LEMMA WrittenIs ==
    ASSUME NEW text \in Text, NEW key \in Keys,
           NEW v, v.start \in 1..behind(text), v.end \in v.start..behind(text)
    PROVE  LET new == written(key, text, v) IN
           /\ new \in Text /\ Len(new) = Len(text)
           /\ \A i \in 1..Len(text) : i < v.start => new[i] = text[i]
           /\ v.end <= Len(text) => new[v.end] = "NUL"
           /\ (\A i \in v.start..(v.end - 1) : text[i] # "NUL") =>
                 \A i \in 1..Len(text) :
                    /\ v.start <= i /\ i < v.end =>
                          new[i] = IF key \in Lowered THEN char_to_lower(text[i]) ELSE text[i]
                    /\ v.end < i => new[i] = text[i]
<1> DEFINE cut == terminated(text, v.end)
           low == lowerFrom(cut, v.start)
           zero == zeroFrom(cut, v.start)
<1>1. Len(text) \in Nat /\ behind(text) = Len(text) + 1 /\ v.start \in Nat \ {0} /\ v.end \in Nat
  BY TextLength
<1>2. cut \in Text /\ Len(cut) = Len(text)
      /\ \A i \in 1..Len(text) : cut[i] = IF i = v.end THEN "NUL" ELSE text[i]
  BY <1>1, TerminatedIs
<1> HIDE DEF cut
<1>3. behind(cut) = behind(text)
  BY <1>2 DEF behind
<1>4. IsFirst(zero, cut, v.start, Zeros(cut))
  BY <1>1, <1>2, ZeroIs
<1>5. /\ low \in Text /\ Len(low) = Len(text)
      /\ \A i \in 1..Len(text) :
            low[i] = IF v.start <= i /\ i < zero THEN char_to_lower(cut[i]) ELSE cut[i]
  BY <1>1, <1>2, <1>3, LoweredIs
<1>6. zero \in Nat /\ (v.end <= Len(text) => zero <= v.end)
  <2>1. v.end <= Len(text) => v.end \in Zeros(cut)
    BY <1>1, <1>2 DEF Zeros
  <2> HIDE DEF zero
  <2> QED
    BY <1>1, <1>2, <1>3, <1>4, <2>1 DEF IsFirst
<1>7. (\A i \in v.start..(v.end - 1) : text[i] # "NUL") => zero >= v.end
  <2> SUFFICES ASSUME \A i \in v.start..(v.end - 1) : text[i] # "NUL", zero < v.end
               PROVE  FALSE
    BY <1>1, <1>6
  <2>1. zero \in v.start..Len(cut) /\ cut[zero] = "NUL"
    BY <1>1, <1>3, <1>4 DEF IsFirst, Zeros
  <2> HIDE DEF zero
  <2>2. zero \in v.start..(v.end - 1) /\ zero \in 1..Len(text) /\ zero # v.end
    BY <1>1, <1>2, <2>1
  <2> QED
    BY <1>2, <2>1, <2>2
<1> HIDE DEF zero, low
<1>8. CASE key \in Lowered
  <2>1. written(key, text, v) = low
    BY <1>8 DEF written, low, cut
  <2>2. \A i \in 1..Len(text) : i < v.start => low[i] = text[i]
    BY <1>1, <1>2, <1>5
  <2>3. v.end <= Len(text) => low[v.end] = "NUL"
    BY <1>1, <1>2, <1>5, <1>6
  <2>4. ASSUME \A i \in v.start..(v.end - 1) : text[i] # "NUL", NEW i \in 1..Len(text)
        PROVE  /\ v.start <= i /\ i < v.end => low[i] = char_to_lower(text[i])
               /\ v.end < i => low[i] = text[i]
    <3>1. i < v.end => i < zero
      BY <1>1, <1>6, <1>7, <2>4
    <3>2. v.end < i => ~(i < zero)
      BY <1>1, <1>6, <2>4
    <3> QED
      BY <1>1, <1>2, <1>5, <3>1, <3>2
  <2> QED
    BY <1>5, <1>8, <2>1, <2>2, <2>3, <2>4
<1>9. CASE key \notin Lowered
  <2>1. written(key, text, v) = cut
    BY <1>9 DEF written, low, cut
  <2> QED
    BY <1>1, <1>2, <1>9, <2>1
<1> QED
  BY <1>8, <1>9

(* A text that ends before the place where two buffers begin to differ is the *)
(* same in both.                                                              *)
LEMMA SameText ==
    ASSUME NEW old \in Text, NEW new \in Text, Len(new) = Len(old), NEW c \in Nat,
           \A i \in 1..Len(old) : i < c => new[i] = old[i],
           NEW p \in 1..Len(old), NEW e \in Nat, p <= e, e < c, e <= Len(old), old[e] = "NUL"
    PROVE  textAt(new, p) = textAt(old, p)
<1> DEFINE z == zeroFrom(old, p)
           y == zeroFrom(new, p)
<1>1. Len(old) \in Nat /\ p \in Nat \ {0} /\ e \in Nat
      /\ behind(old) = Len(old) + 1 /\ behind(new) = Len(old) + 1
      /\ \A i \in 1..Len(old) : old[i] \in Byte /\ new[i] \in Byte
  BY TextLength
<1>2. IsFirst(z, old, p, Zeros(old)) /\ IsFirst(y, new, p, Zeros(new))
  BY <1>1, ZeroIs
<1> HIDE DEF z, y
<1>3. e \in Zeros(old) /\ e \in Zeros(new)
  BY <1>1 DEF Zeros
<1>4. z \in p..e /\ z \in Zeros(old) /\ y \in p..e /\ y \in Zeros(new)
  BY <1>1, <1>2, <1>3 DEF IsFirst
<1>5. z \in Zeros(new) /\ y \in Zeros(old)
  BY <1>1, <1>4 DEF Zeros
<1>6. y = z
  BY <1>1, <1>2, <1>4, <1>5 DEF IsFirst
<1>7. SubSeq(old, p, z - 1) = SubSeq(new, p, z - 1)
  <2>1. \A i \in p..(z - 1) : i \in 1..Len(old) /\ new[i] = old[i]
    BY <1>1, <1>4
  <2>2. /\ SubSeq(old, p, z - 1) \in Seq(Byte) /\ SubSeq(new, p, z - 1) \in Seq(Byte)
        /\ Len(SubSeq(old, p, z - 1)) = z - p /\ Len(SubSeq(new, p, z - 1)) = z - p
        /\ \A i \in 1..(z - p) : SubSeq(old, p, z - 1)[i] = old[p + i - 1]
                                 /\ SubSeq(new, p, z - 1)[i] = new[p + i - 1]
    BY <1>1, <1>4, <2>1, SubSeqProperties DEF Text
  <2>3. \A i \in 1..(z - p) : p + i - 1 \in p..(z - 1)
    BY <1>1, <1>4
  <2> QED
    BY <1>1, <1>4, <2>1, <2>2, <2>3, SeqEqual
<1> QED
  BY <1>6, <1>7 DEF textAt, zeroFrom, z, y

-----------------------------------------------------------------------------
(* While the loop runs, every option read ends, with a zero, in front of the  *)
(* cursor, behind which all is written that is written from then on.          *)
EndsBefore ==
    \A key \in Keys : option[key] # NULL =>
        /\ option[key] \in 1..behind(buffer)
        /\ reading => \E e \in Nat : option[key] <= e /\ e < cursor /\ buffer[e] = "NUL"

(* The pointers and the cursor lie in the buffer, whatever it holds.          *)
Placed ==
    /\ file \in Files
    /\ buffer \in Text
    /\ cursor \in 1..behind(buffer)
    /\ option \in [Keys -> Nat \cup {NULL}]
    /\ EndsBefore

LEMMA InitPlaced == Init => Placed
<1> SUFFICES ASSUME Init PROVE Placed
  OBVIOUS
<1>1. file \in Files /\ buffer \in Text
  <2>1. Len(file.lines) \in 0..Len(file.lines)
    BY FileParts DEF Init
  <2> QED
    BY <2>1, SpelledIs DEF Init
<1>2. cursor \in 1..behind(buffer)
  BY <1>1, TextLength DEF Init
<1> QED
  BY <1>1, <1>2 DEF Init, Placed, EndsBefore

LEMMA SkipKeepsPlaced ==
    ASSUME Placed, skipComment \/ skipLine
    PROVE  Placed' /\ UNCHANGED <<buffer, option>>
<1>1. UNCHANGED <<file, buffer, option>> /\ reading
  BY DEF skipComment, skipLine
<1>2. \E at \in cursor..behind(buffer) : cursor' = seek_next_line(buffer, at, "LINE_FEED")
  <2>1. CASE skipComment
    <3>1. cursor \in cursor..behind(buffer)
      BY TextLength DEF Placed
    <3> QED
      BY <2>1, <3>1 DEF skipComment, continueFrom
  <2>2. CASE skipLine
    BY <2>2, LetterAhead DEF skipLine, continueFrom, Placed
  <2> QED
    BY <2>1, <2>2
<1>3. cursor' \in cursor..behind(buffer)
  <2>1. PICK at \in cursor..behind(buffer) : cursor' = seek_next_line(buffer, at, "LINE_FEED")
    BY <1>2
  <2>2. at \in 1..behind(buffer)
    BY TextLength DEF Placed
  <2>3. cursor' \in at..behind(buffer)
    BY <2>1, <2>2, LineAhead DEF Placed
  <2> QED
    BY <2>3, TextLength DEF Placed
<1>4. EndsBefore'
  <2> SUFFICES ASSUME NEW key \in Keys, option[key] # NULL
               PROVE  /\ option[key] \in 1..behind(buffer)
                      /\ \E e \in Nat : option[key] <= e /\ e < cursor' /\ buffer[e] = "NUL"
    BY <1>1 DEF EndsBefore
  <2>1. PICK e \in Nat : option[key] <= e /\ e < cursor /\ buffer[e] = "NUL"
    BY <1>1 DEF Placed, EndsBefore
  <2>2. option[key] \in 1..behind(buffer)
    BY DEF Placed, EndsBefore
  <2>3. behind(buffer) \in Nat /\ cursor \in Nat
    BY TextLength DEF Placed
  <2>4. e < cursor'
    BY <1>3, <2>1, <2>2, <2>3
  <2> QED
    BY <2>1, <2>2, <2>4
<1> QED
  BY <1>1, <1>3, <1>4, TextLength DEF Placed

(* What the reading of an option does, and that it is all behind the cursor.  *)
LEMMA ReadIs ==
    ASSUME Placed, NEW key \in Keys, readOption(key)
    PROVE  \E v :
              /\ v = valueAfter(buffer, seek_next_alpha(buffer, cursor).cursor)
              /\ v.start \in cursor..behind(buffer)
              /\ v.end \in v.start..behind(buffer)
              /\ v.cursor = IF v.end = behind(buffer) THEN v.end ELSE v.end + 1
              /\ v.cursor \in 1..behind(buffer)
              /\ buffer' = written(key, buffer, v)
              /\ option' = [option EXCEPT ![key] = v.start]
              /\ continueFrom(v.cursor)
              /\ file' = file
<1> DEFINE at == seek_next_alpha(buffer, cursor)
           v == valueAfter(buffer, at.cursor)
<1>1. at.cursor \in cursor..behind(buffer) /\ at.cursor \in 1..behind(buffer)
  BY LetterAhead, TextLength DEF Placed
<1>2. /\ v.start \in at.cursor..behind(buffer)
      /\ v.end \in v.start..behind(buffer)
      /\ v.cursor = IF v.end = behind(buffer) THEN v.end ELSE v.end + 1
      /\ v.cursor \in 1..behind(buffer)
  BY <1>1, ValueIs DEF Placed
<1>3. v.start \in cursor..behind(buffer)
  <2> HIDE DEF v
  <2> QED
    BY <1>1, <1>2, TextLength DEF Placed
<1>4. /\ buffer' = written(key, buffer, v)
      /\ option' = [option EXCEPT ![key] = v.start]
      /\ continueFrom(v.cursor)
      /\ file' = file
  BY DEF readOption, written
<1> HIDE DEF v, at
<1> QED
  BY <1>2, <1>3, <1>4 DEF v, at

LEMMA ReadKeepsPlaced ==
    ASSUME Placed, reading, NEW key \in Keys, readOption(key)
    PROVE  /\ Placed'
           /\ \A k \in Keys : option[k] # NULL /\ option'[k] = option[k] => has(k)' = has(k)
<1>1. PICK v :
         /\ v.start \in cursor..behind(buffer)
         /\ v.end \in v.start..behind(buffer)
         /\ v.cursor = IF v.end = behind(buffer) THEN v.end ELSE v.end + 1
         /\ v.cursor \in 1..behind(buffer)
         /\ buffer' = written(key, buffer, v)
         /\ option' = [option EXCEPT ![key] = v.start]
         /\ continueFrom(v.cursor)
         /\ file' = file
  BY ReadIs
<1>2. /\ Len(buffer) \in Nat /\ behind(buffer) = Len(buffer) + 1 /\ cursor \in Nat \ {0}
      /\ v.start \in 1..behind(buffer) /\ v.start \in Nat
  BY <1>1, TextLength DEF Placed
<1>3. /\ buffer' \in Text /\ Len(buffer') = Len(buffer)
      /\ \A i \in 1..Len(buffer) : i < v.start => buffer'[i] = buffer[i]
      /\ v.end <= Len(buffer) => buffer'[v.end] = "NUL"
  BY <1>1, <1>2, WrittenIs DEF Placed
<1>4. behind(buffer') = behind(buffer)
  BY <1>3 DEF behind
<1>5. /\ cursor' \in v.cursor..behind(buffer)
      /\ reading' => cursor' < behind(buffer)
  BY <1>1, LineAhead DEF Placed, continueFrom
<1>6. option' \in [Keys -> Nat \cup {NULL}] /\ option'[key] = v.start
      /\ \A k \in Keys \ {key} : option'[k] = option[k]
  BY <1>1, <1>2 DEF Placed
<1>7. ASSUME NEW k \in Keys, option[k] # NULL
      PROVE  /\ option[k] \in 1..Len(buffer)
             /\ \E e \in Nat : option[k] <= e /\ e < v.start /\ buffer[e] = "NUL" /\ e <= Len(buffer)
  <2>1. PICK e \in Nat : option[k] <= e /\ e < cursor /\ buffer[e] = "NUL"
    BY <1>7 DEF Placed, EndsBefore
  <2>2. option[k] \in 1..behind(buffer)
    BY <1>7 DEF Placed, EndsBefore
  <2>3. e < v.start /\ e <= Len(buffer)
    BY <1>1, <1>2, <2>1, <2>2 DEF Placed
  <2> QED
    BY <1>2, <2>1, <2>2, <2>3
<1>8. EndsBefore'
  <2> SUFFICES ASSUME NEW k \in Keys, option'[k] # NULL
               PROVE  /\ option'[k] \in 1..behind(buffer)
                      /\ reading' => \E e \in Nat : option'[k] <= e /\ e < cursor' /\ buffer'[e] = "NUL"
    BY <1>4 DEF EndsBefore
  <2>1. CASE k = key
    <3>1. reading' => v.end \in Nat /\ v.start <= v.end /\ v.end < cursor' /\ v.end <= Len(buffer)
      BY <1>1, <1>2, <1>5
    <3> QED
      BY <1>2, <1>3, <1>6, <2>1, <3>1
  <2>2. CASE k # key
    <3>1. option'[k] = option[k] /\ option[k] # NULL
      BY <1>6, <2>2
    <3>2. PICK e \in Nat : option[k] <= e /\ e < v.start /\ buffer[e] = "NUL" /\ e <= Len(buffer)
      BY <1>7, <3>1
    <3>3. option[k] \in 1..Len(buffer)
      BY <1>7, <3>1
    <3>4. v.start <= cursor' /\ cursor' \in Nat
      BY <1>1, <1>2, <1>5
    <3>5. e < cursor'
      BY <1>2, <3>2, <3>3, <3>4
    <3>6. e \in 1..Len(buffer) /\ e < v.start
      BY <1>2, <3>2, <3>3
    <3>7. buffer'[e] = "NUL"
      BY <1>3, <3>2, <3>6
    <3>8. option'[k] \in 1..behind(buffer)
      BY <1>2, <3>1, <3>3
    <3> QED
      BY <3>1, <3>2, <3>5, <3>7, <3>8
  <2> QED
    BY <2>1, <2>2
<1>9. Placed'
  <2>1. cursor' \in 1..behind(buffer')
    BY <1>1, <1>2, <1>4, <1>5
  <2> QED
    BY <1>1, <1>3, <1>6, <1>8, <2>1 DEF Placed
<1>10. ASSUME NEW k \in Keys, option[k] # NULL, option'[k] = option[k]
       PROVE  has(k)' = has(k)
  <2>1. PICK e \in Nat : option[k] <= e /\ e < v.start /\ buffer[e] = "NUL" /\ e <= Len(buffer)
    BY <1>7, <1>10
  <2>2. option[k] \in 1..Len(buffer)
    BY <1>7, <1>10
  <2>3. textAt(buffer', option[k]) = textAt(buffer, option[k])
    BY <1>2, <1>3, <2>1, <2>2, SameText DEF Placed
  <2> QED
    BY <1>10, <2>3 DEF has
<1> QED
  BY <1>9, <1>10

LEMMA NextKeepsPlaced ==
    Placed /\ [Next]_vars =>
       /\ Placed'
       /\ \A key \in Keys : option[key] # NULL /\ option'[key] = option[key] => has(key)' = has(key)
<1> SUFFICES ASSUME Placed, [Next]_vars
             PROVE  /\ Placed'
                    /\ \A k \in Keys : option[k] # NULL /\ option'[k] = option[k] => has(k)' = has(k)
  OBVIOUS
<1>1. CASE UNCHANGED vars
  BY <1>1 DEF vars, Placed, EndsBefore, has
<1>2. CASE skipComment \/ skipLine
  BY <1>2, SkipKeepsPlaced DEF has
<1>3. ASSUME NEW key \in Keys, readOption(key)
      PROVE  /\ Placed'
             /\ \A k \in Keys : option[k] # NULL /\ option'[k] = option[k] => has(k)' = has(k)
  BY <1>3, ReadKeepsPlaced DEF readOption
<1> QED
  BY <1>1, <1>2, <1>3 DEF Next

(* However the loop that reads bot.config goes on, the pointers it has set    *)
(* stay in the buffer, and while it runs each text they point to ends in      *)
(* front of the cursor, whatever the bytes of the file.                       *)
THEOREM AlwaysPlaced == Spec => []Placed
  BY InitPlaced, NextKeepsPlaced, PTL DEF Spec

(* A value once read is not changed by the reading of the others, whatever    *)
(* the file holds: mainCRTStartup writes the zeros and the small letters      *)
(* behind everything it has read.                                             *)
THEOREM AlwaysReadStaysRead == Spec => ReadStaysRead
<1>1. Placed /\ [Next]_vars =>
         [\A key \in Keys : option[key] # NULL /\ option'[key] = option[key] => has(key)' = has(key)]_vars
  BY NextKeepsPlaced
<1> QED
  BY <1>1, AlwaysPlaced, PTL DEF Spec, ReadStaysRead

-----------------------------------------------------------------------------
(* Where the lines of a file stand in it.                                     *)

(* How many bytes the first n lines take.                                     *)
offset(f, n) == Len(upTo(f)[n])

LEMMA OffsetIs ==
    ASSUME NEW f \in Files
    PROVE  /\ Len(f.lines) \in Nat
           /\ offset(f, 0) = 0
           /\ \A n \in 0..Len(f.lines) : offset(f, n) \in Nat
           /\ \A n \in 1..Len(f.lines) : /\ Len(pieceOf(f, n)) \in Nat
                                         /\ offset(f, n) = offset(f, n - 1) + Len(pieceOf(f, n))
           /\ spelled(f) \in Text /\ Len(spelled(f)) = offset(f, Len(f.lines))
<1>1. Len(f.lines) \in Nat
  BY FileParts
<1>2. offset(f, 0) = 0
  BY SpelledIs, EmptySeq DEF offset
<1>3. ASSUME NEW n \in 0..Len(f.lines) PROVE offset(f, n) \in Nat
  BY SpelledIs, TextLength DEF offset
<1>4. ASSUME NEW n \in 1..Len(f.lines)
      PROVE  Len(pieceOf(f, n)) \in Nat /\ offset(f, n) = offset(f, n - 1) + Len(pieceOf(f, n))
  <2>1. n - 1 \in 0..Len(f.lines)
    BY <1>1
  <2>2. upTo(f)[n - 1] \in Text /\ pieceOf(f, n) \in Text
    BY <2>1, SpelledIs, FileParts
  <2>3. upTo(f)[n] = upTo(f)[n - 1] \o pieceOf(f, n)
    BY SpelledIs
  <2> QED
    BY <2>2, <2>3, ConcatProperties, TextLength DEF offset, Text
<1>5. spelled(f) \in Text /\ Len(spelled(f)) = offset(f, Len(f.lines))
  <2>1. Len(f.lines) \in 0..Len(f.lines)
    BY <1>1
  <2> QED
    BY <2>1, SpelledIs DEF offset
<1> QED
  BY <1>1, <1>2, <1>3, <1>4, <1>5

LEMMA OffsetsGrow ==
    ASSUME NEW f \in Files, NEW n \in 0..Len(f.lines), NEW m \in 0..n
    PROVE  offset(f, m) <= offset(f, n)
<1> DEFINE N == Len(f.lines)
           G == {k \in 0..N : \A i \in 0..k : offset(f, i) <= offset(f, k)}
<1>1. N \in Nat
  BY OffsetIs
<1>2. 0 \in G
  <2>1. \A i \in 0..0 : offset(f, i) <= offset(f, 0)
    BY OffsetIs
  <2> QED
    BY <1>1, <2>1
<1>3. ASSUME NEW k \in 1..N, k - 1 \in G
      PROVE  k \in G
  <2>1. offset(f, k - 1) \in Nat /\ offset(f, k) \in Nat /\ offset(f, k - 1) <= offset(f, k)
    <3>1. k - 1 \in 0..N /\ k \in 0..N
      BY <1>1
    <3> QED
      BY <3>1, OffsetIs
  <2>2. ASSUME NEW i \in 0..k PROVE offset(f, i) <= offset(f, k)
    <3>1. CASE i = k
      BY <2>1, <3>1
    <3>2. CASE i # k
      <4>1. i \in 0..(k - 1) /\ i \in 0..N
        BY <1>1, <3>2
      <4>2. offset(f, i) \in Nat /\ offset(f, i) <= offset(f, k - 1)
        BY <1>3, <4>1, OffsetIs
      <4> QED
        BY <2>1, <4>2
    <3> QED
      BY <3>1, <3>2
  <2> QED
    BY <1>1, <2>2
<1> HIDE DEF G
<1>4. \A k \in 1..N : k - 1 \in G => k \in G
  BY <1>3
<1>5. 0..N \subseteq G
  BY <1>1, <1>2, <1>4, Induction
<1> QED
  BY <1>5 DEF G

(* The bytes of a line stand behind those of the lines before it.             *)
LEMMA PieceStands ==
    ASSUME NEW f \in Files, NEW n \in 1..Len(f.lines), NEW k \in 1..Len(pieceOf(f, n))
    PROVE  spelled(f)[offset(f, n - 1) + k] = pieceOf(f, n)[k]
<1> DEFINE N == Len(f.lines)
           G == {m \in 0..N : m >= n => upTo(f)[m][offset(f, n - 1) + k] = pieceOf(f, n)[k]}
<1>1. N \in Nat /\ n \in Nat \ {0} /\ n <= N
  BY OffsetIs
<1>2. 0 \in G
  BY <1>1
<1>3. /\ offset(f, n - 1) \in Nat /\ Len(pieceOf(f, n)) \in Nat
      /\ offset(f, n) = offset(f, n - 1) + Len(pieceOf(f, n))
  <2>1. n - 1 \in 0..N
    BY <1>1
  <2> QED
    BY <2>1, OffsetIs
<1>4. ASSUME NEW m \in 1..N, m - 1 \in G
      PROVE  m \in G
  <2> SUFFICES ASSUME m >= n
               PROVE  upTo(f)[m][offset(f, n - 1) + k] = pieceOf(f, n)[k]
    BY <1>1
  <2>1. m - 1 \in 0..N
    BY <1>1
  <2>2. /\ upTo(f)[m - 1] \in Seq(Byte) /\ pieceOf(f, m) \in Seq(Byte)
        /\ upTo(f)[m] = upTo(f)[m - 1] \o pieceOf(f, m)
        /\ Len(upTo(f)[m - 1]) = offset(f, m - 1) /\ offset(f, m - 1) \in Nat
        /\ Len(pieceOf(f, m)) \in Nat
    BY <2>1, SpelledIs, FileParts, OffsetIs DEF offset, Text
  <2>3. \A i \in 1..(offset(f, m - 1) + Len(pieceOf(f, m))) :
           upTo(f)[m][i] = IF i <= offset(f, m - 1) THEN upTo(f)[m - 1][i]
                           ELSE pieceOf(f, m)[i - offset(f, m - 1)]
    BY <2>2, ConcatProperties
  <2>4. CASE m = n
    <3> DEFINE i == offset(f, n - 1) + k
    <3>1. /\ i \in 1..(offset(f, m - 1) + Len(pieceOf(f, m)))
          /\ ~(i <= offset(f, m - 1)) /\ i - offset(f, m - 1) = k
      BY <1>3, <2>4
    <3> HIDE DEF i
    <3>2. upTo(f)[m][i] = pieceOf(f, m)[k]
      BY <2>3, <3>1
    <3> QED
      BY <2>4, <3>2 DEF i
  <2>5. CASE m # n
    <3>1. m - 1 >= n /\ n \in 0..(m - 1)
      BY <1>1, <2>5
    <3>2. offset(f, n) <= offset(f, m - 1)
      BY <2>1, <3>1, OffsetsGrow
    <3>3. offset(f, n - 1) + k \in 1..offset(f, m - 1)
      BY <1>3, <2>2, <3>2
    <3>4. upTo(f)[m][offset(f, n - 1) + k] = upTo(f)[m - 1][offset(f, n - 1) + k]
      BY <2>2, <2>3, <3>3
    <3> QED
      BY <1>4, <3>1, <3>4
  <2> QED
    BY <2>4, <2>5
<1> HIDE DEF G
<1>5. \A m \in 1..N : m - 1 \in G => m \in G
  BY <1>4
<1>6. N \in G
  <2>1. 0..N \subseteq G
    BY <1>1, <1>2, <1>5, Induction
  <2> QED
    BY <1>1, <2>1
<1> QED
  BY <1>1, <1>6, SpelledIs DEF G

(* Every byte of a file is one of a line.                                     *)
LEMMA Covered ==
    ASSUME NEW f \in Files, NEW p \in 1..Len(spelled(f))
    PROVE  \E n \in 1..Len(f.lines) : offset(f, n - 1) < p /\ p <= offset(f, n)
<1> DEFINE N == Len(f.lines)
           G == {m \in 0..N : p <= offset(f, m) =>
                                 \E n \in 1..N : offset(f, n - 1) < p /\ p <= offset(f, n)}
<1>1. N \in Nat /\ Len(spelled(f)) = offset(f, N) /\ offset(f, N) \in Nat
  BY OffsetIs
<1>2. 0 \in G
  BY <1>1, OffsetIs
<1>3. ASSUME NEW m \in 1..N, m - 1 \in G PROVE m \in G
  <2>1. offset(f, m - 1) \in Nat
    <3>1. m - 1 \in 0..N
      BY <1>1
    <3> QED
      BY <3>1, OffsetIs
  <2>2. p <= offset(f, m - 1) \/ offset(f, m - 1) < p
    BY <1>1, <2>1
  <2> QED
    BY <1>1, <1>3, <2>2
<1> HIDE DEF G
<1>4. \A m \in 1..N : m - 1 \in G => m \in G
  BY <1>3
<1>5. N \in G
  <2>1. 0..N \subseteq G
    BY <1>1, <1>2, <1>4, Induction
  <2> QED
    BY <1>1, <2>1
<1> QED
  BY <1>1, <1>5 DEF G

-----------------------------------------------------------------------------
(* The lines of a readable file.                                              *)

LEMMA MinOfTwo ==
    ASSUME NEW a \in Nat, NEW b \in Nat
    PROVE  Min({a, b}) = IF a <= b THEN a ELSE b
<1> DEFINE T == {b}
<1>1. {a, b} = {a} \cup T /\ T \in SUBSET Nat
  OBVIOUS
<1> HIDE DEF T
<1>2. Min({a} \cup T) \in {a} \cup T /\ \A m \in {a} \cup T : Min({a} \cup T) <= m
  BY <1>1, MinIs
<1> QED
  BY <1>1, <1>2 DEF T

LEMMA MatchIs ==
    ASSUME NEW w \in Text, NEW t \in Text
    PROVE  match(w, t) <=> \A k \in 1..Len(w) : k <= Len(t) => w[k] = t[k]
<1>1. Len(w) \in Nat /\ Len(t) \in Nat
  BY TextLength
<1>2. Min({Len(w), Len(t)}) = IF Len(w) <= Len(t) THEN Len(w) ELSE Len(t)
  BY <1>1, MinOfTwo
<1>3. 1..Min({Len(w), Len(t)}) = {k \in 1..Len(w) : k <= Len(t)}
  BY <1>1, <1>2
<1> QED
  BY <1>3 DEF match

(* A word as far as it goes from a place in a text on.                        *)
LEMMA MatchFrom ==
    ASSUME NEW w \in Text, NEW text \in Text, NEW at \in 1..behind(text)
    PROVE  match(w, SubSeq(text, at, Len(text)))
              <=> \A k \in 1..Len(w) : at + k - 1 <= Len(text) => w[k] = text[at + k - 1]
<1> DEFINE t == SubSeq(text, at, Len(text))
<1>1. Len(text) \in Nat /\ behind(text) = Len(text) + 1 /\ Len(w) \in Nat
  BY TextLength
<1>2. /\ t \in Text /\ Len(t) = Len(text) - at + 1
      /\ \A k \in 1..(Len(text) - at + 1) : t[k] = text[at + k - 1]
  <2>1. \A i \in at..Len(text) : text[i] \in Byte
    BY <1>1, TextLength
  <2> QED
    BY <1>1, <2>1, SubSeqProperties DEF Text
<1> HIDE DEF t
<1>3. \A k \in 1..Len(w) : k <= Len(t) <=> at + k - 1 <= Len(text)
  BY <1>1, <1>2
<1>4. \A k \in 1..Len(w) : k <= Len(t) => t[k] = text[at + k - 1]
  BY <1>1, <1>2
<1>5. match(w, t) <=> \A k \in 1..Len(w) : k <= Len(t) => w[k] = t[k]
  BY <1>2, MatchIs
<1> QED
  BY <1>3, <1>4, <1>5 DEF t

LEMMA WordIs ==
    ASSUME NEW key \in Keys
    PROVE  /\ word[key] \in Text /\ Len(word[key]) \in Nat /\ Len(word[key]) >= 1
           /\ isAlpha(word[key][1])
           /\ \A k \in 1..Len(word[key]) : word[key][k] \notin {":", "NUL", "CR", "LF", "#"}
           /\ \A other \in Keys \ {key} : word[other][1] # word[key][1]
<1>1. key \in {"nick", "pass", "channel"}
  BY DEF Keys
<1>2. /\ word["nick"] = <<"n", "i", "c", "k">> /\ word["pass"] = <<"p", "a", "s", "s">>
      /\ word["channel"] = <<"c", "h", "a", "n", "n", "e", "l">>
  BY DEF word
<1>3. word[key] \in Text
  BY WordType
<1>4. Len(word[key]) \in Nat /\ Len(word[key]) >= 1
  BY <1>1, <1>2
<1>5. \A c \in {"n", "p", "c"} : isAlpha(c)
  <2>1. /\ 14 \in DOMAIN Lower /\ 16 \in DOMAIN Lower /\ 3 \in DOMAIN Lower
        /\ Lower[14] = "n" /\ Lower[16] = "p" /\ Lower[3] = "c"
    BY DEF Lower
  <2> QED
    BY <2>1 DEF isAlpha, Alphabet
<1>6. isAlpha(word[key][1])
  BY <1>1, <1>2, <1>5
<1>7. \A k \in 1..Len(word[key]) : word[key][k] \notin {":", "NUL", "CR", "LF", "#"}
  BY <1>1, <1>2
<1>8. \A other \in Keys \ {key} : word[other][1] # word[key][1]
  BY <1>1, <1>2 DEF Keys
<1> QED
  BY <1>3, <1>4, <1>6, <1>7, <1>8

LEMMA JoinIs ==
    ASSUME NEW s \in Text, NEW t \in Text
    PROVE  /\ s \o t \in Text /\ Len(s \o t) = Len(s) + Len(t)
           /\ \A k \in 1..Len(s) : (s \o t)[k] = s[k]
           /\ \A k \in 1..Len(t) : (s \o t)[Len(s) + k] = t[k]
<1>1. Len(s) \in Nat /\ Len(t) \in Nat
  BY TextLength
<1>2. /\ s \o t \in Text /\ Len(s \o t) = Len(s) + Len(t)
      /\ \A k \in 1..(Len(s) + Len(t)) : (s \o t)[k] = IF k <= Len(s) THEN s[k] ELSE t[k - Len(s)]
  BY ConcatProperties DEF Text
<1>3. ASSUME NEW k \in 1..Len(t) PROVE (s \o t)[Len(s) + k] = t[k]
  <2>1. Len(s) + k \in 1..(Len(s) + Len(t)) /\ ~(Len(s) + k <= Len(s)) /\ Len(s) + k - Len(s) = k
    BY <1>1
  <2> QED
    BY <1>2, <2>1
<1> QED
  BY <1>1, <1>2, <1>3

(* The bytes of an option, from the first letter of its name on.              *)
LEMMA OptionIs ==
    ASSUME NEW line \in Line, isOption(line), wellFormed(line)
    PROVE  LET W == Len(word[line.key])
               g == Len(line.gap)
               v == Len(line.value)
               bytes == bytesOf(line) IN
           /\ line.key \in Keys /\ line.gap \in Text /\ line.value \in Text
           /\ W \in Nat /\ W >= 1 /\ g \in Nat /\ v \in Nat /\ v >= 1
           /\ Len(bytes) = W + 1 + g + v
           /\ \A k \in 1..W : bytes[k] = word[line.key][k]
           /\ bytes[W + 1] = ":"
           /\ \A k \in 1..g : bytes[W + 1 + k] \in Whitespace
           /\ \A k \in 1..v : /\ bytes[W + 1 + g + k] = line.value[k]
                              /\ line.value[k] \notin Whitespace
                              /\ line.value[k] # "NUL"
<1> DEFINE w == word[line.key]
           gap == line.gap
           value == line.value
           bytes == bytesOf(line)
<1>1. /\ line \in [key : Keys, gap : Bytes, value : Bytes]
      /\ line.key \in Keys /\ gap \in Bytes /\ value \in Bytes
  BY DEF isOption, Line
<1>2. /\ gap \in Text /\ value \in Text
      /\ Len(gap) \in Nat /\ Len(value) \in Nat
  BY <1>1, BytesIsText, TextLength
<1>3. w \in Text /\ Len(w) \in Nat /\ Len(w) >= 1
  BY <1>1, WordIs
<1>4. <<":">> \in Text /\ Len(<<":">>) = 1 /\ <<":">>[1] = ":"
  BY DEF Byte, Text
<1>5. bytes = w \o <<":">> \o gap \o value
  BY DEF bytesOf, isOption
<1>6. DOMAIN gap = 1..Len(gap) /\ DOMAIN value = 1..Len(value)
  BY <1>2 DEF Text
<1>7. Len(value) >= 1
  <2>1. value # <<>>
    BY DEF wellFormed
  <2> QED
    BY <1>2, <2>1, EmptySeq DEF Text
<1>8. \A k \in 1..Len(gap) : gap[k] \in Whitespace
  BY <1>6 DEF wellFormed
<1>9. \A k \in 1..Len(value) : value[k] \notin Whitespace /\ value[k] # "NUL"
  <2>1. \A k \in 1..Len(value) : value[k] \in STRING \ {"NUL"}
    BY <1>1, ElementOfSeq DEF Bytes
  <2> QED
    BY <1>6, <2>1 DEF wellFormed
<1> HIDE DEF gap, value, w
<1> DEFINE a == w \o <<":">>
           c == a \o gap
<1>10. /\ a \in Text /\ Len(a) = Len(w) + 1
       /\ \A k \in 1..Len(w) : a[k] = w[k]
       /\ a[Len(w) + 1] = ":"
  BY <1>3, <1>4, JoinIs
<1> HIDE DEF a
<1>11. /\ c \in Text /\ Len(c) = Len(a) + Len(gap)
       /\ \A k \in 1..Len(a) : c[k] = a[k]
       /\ \A k \in 1..Len(gap) : c[Len(a) + k] = gap[k]
  BY <1>2, <1>10, JoinIs
<1>12. bytes = c \o value
  BY <1>5 DEF c, a
<1> HIDE DEF c, bytes
<1>13. /\ bytes \in Text /\ Len(bytes) = Len(c) + Len(value)
       /\ \A k \in 1..Len(c) : bytes[k] = c[k]
       /\ \A k \in 1..Len(value) : bytes[Len(c) + k] = value[k]
  BY <1>2, <1>11, <1>12, JoinIs
<1>14. \A k \in 1..Len(w) : bytes[k] = w[k]
  <2> TAKE k \in 1..Len(w)
  <2>1. k \in 1..Len(a) /\ k \in 1..Len(c)
    BY <1>2, <1>3, <1>10, <1>11
  <2> QED
    BY <1>10, <1>11, <1>13, <2>1
<1>15. bytes[Len(w) + 1] = ":"
  <2>1. Len(w) + 1 \in 1..Len(a) /\ Len(w) + 1 \in 1..Len(c)
    BY <1>2, <1>3, <1>10, <1>11
  <2>2. bytes[Len(w) + 1] = c[Len(w) + 1]
    BY <1>13, <2>1
  <2>3. c[Len(w) + 1] = a[Len(w) + 1]
    BY <1>11, <2>1
  <2> QED
    BY <1>10, <2>2, <2>3
<1>16. \A k \in 1..Len(gap) : bytes[Len(w) + 1 + k] \in Whitespace
  <2> TAKE k \in 1..Len(gap)
  <2>1. Len(a) + k \in 1..Len(c) /\ Len(a) + k = Len(w) + 1 + k
    BY <1>2, <1>3, <1>10, <1>11
  <2>2. bytes[Len(a) + k] = c[Len(a) + k]
    BY <1>13, <2>1
  <2>3. c[Len(a) + k] = gap[k] /\ gap[k] \in Whitespace
    BY <1>8, <1>11
  <2> QED
    BY <2>1, <2>2, <2>3
<1>17. \A k \in 1..Len(value) : bytes[Len(w) + 1 + Len(gap) + k] = value[k]
  BY <1>10, <1>11, <1>13
<1>18. Len(bytes) = Len(w) + 1 + Len(gap) + Len(value)
  BY <1>10, <1>11, <1>13
<1> QED
  BY <1>1, <1>2, <1>3, <1>7, <1>9, <1>14, <1>15, <1>16, <1>17, <1>18 DEF w, gap, value, bytes

hasBreak(f, n) == n < Len(f.lines) \/ f.ended

LEMMA OtherIs ==
    ASSUME NEW line \in Line, line # Blank, ~isOption(line), ~isComment(line)
    PROVE  line.text \in Bytes /\ bytesOf(line) = line.text /\ "text" \in DOMAIN line
<1>1. line \in [text : Bytes]
  BY DEF isOption, isComment, Line
<1>2. "text" \in DOMAIN line /\ line.text \in Bytes
  BY <1>1
<1> QED
  BY <1>2 DEF bytesOf

LEMMA NotBlankHasBytes ==
    ASSUME NEW line \in Line, wellFormed(line), line # Blank
    PROVE  Len(bytesOf(line)) >= 1
<1>1. CASE isOption(line)
  <2> DEFINE W == Len(word[line.key])
             g == Len(line.gap)
             v == Len(line.value)
  <2>1. W \in Nat /\ g \in Nat /\ v \in Nat /\ Len(bytesOf(line)) = W + 1 + g + v
    BY <1>1, OptionIs
  <2> HIDE DEF W, g, v
  <2> QED
    BY <2>1
<1>2. CASE ~isOption(line) /\ isComment(line)
  <2>1. line \in [comment : Bytes]
    BY <1>2 DEF isOption, isComment, Line
  <2>2. <<"#">> \in Text /\ line.comment \in Text
    BY <2>1, BytesIsText DEF Byte, Text
  <2>3. Len(<<"#">> \o line.comment) = 1 + Len(line.comment) /\ Len(line.comment) \in Nat
    BY <2>2, JoinIs, TextLength
  <2> QED
    BY <1>2, <2>3 DEF bytesOf
<1>3. CASE ~isOption(line) /\ ~isComment(line)
  <2>1. line.text \in Bytes /\ bytesOf(line) = line.text /\ "text" \in DOMAIN line
    BY <1>3, OtherIs
  <2>2. line.text \in Text /\ Len(line.text) \in Nat
    BY <2>1, BytesIsText, TextLength
  <2> SUFFICES ASSUME Len(line.text) = 0 PROVE FALSE
    BY <2>1, <2>2
  <2> DEFINE at == seek_next_alpha(line.text, 1).at
  <2>3. at \in 1..behind(line.text) /\ behind(line.text) = 1
    BY <2>2, LetterAhead, TextLength
  <2>4. ~match(word["nick"], SubSeq(line.text, at, Len(line.text)))
    BY <2>1 DEF wellFormed, Keys
  <2>5. word["nick"] \in Text
    BY WordType DEF Keys
  <2> HIDE DEF at
  <2>6. \A k \in 1..Len(word["nick"]) : ~(at + k - 1 <= Len(line.text))
    BY <2>2, <2>3, <2>5, TextLength
  <2>7. match(word["nick"], SubSeq(line.text, at, Len(line.text)))
    BY <2>2, <2>3, <2>5, <2>6, MatchFrom
  <2> QED
    BY <2>4, <2>7
<1> QED
  BY <1>1, <1>2, <1>3

LEMMA LineStands ==
    ASSUME NEW f \in Files, readable(f), NEW n \in 1..Len(f.lines)
    PROVE  LET b == offset(f, n - 1)
               e == offset(f, n)
               bytes == bytesOf(f.lines[n])
               L == Len(bytes) IN
           /\ bytes \in Text /\ L \in Nat /\ b \in Nat /\ e \in Nat /\ b < e
           /\ e <= Len(spelled(f)) /\ (n = Len(f.lines) => e = Len(spelled(f)))
           /\ IF hasBreak(f, n)
              THEN e = b + L + 2 /\ spelled(f)[b + L + 1] = "CR" /\ spelled(f)[b + L + 2] = "LF"
              ELSE e = b + L
           /\ \A k \in 1..L : spelled(f)[b + k] = bytes[k] /\ bytes[k] \notin {"CR", "LF"}
           /\ f.lines[n] # Blank => L >= 1
<1> DEFINE N == Len(f.lines)
           line == f.lines[n]
           b == offset(f, n - 1)
           e == offset(f, n)
           bytes == bytesOf(line)
           L == Len(bytes)
           piece == pieceOf(f, n)
<1>1. N \in Nat /\ n - 1 \in 0..N /\ N \in 0..N /\ n \in 0..N /\ n \in 0..N
  BY OffsetIs
<1>2. b \in Nat /\ e \in Nat /\ Len(piece) \in Nat /\ e = b + Len(piece)
  BY <1>1, OffsetIs
<1>3. e <= Len(spelled(f)) /\ (n = N => e = Len(spelled(f)))
  BY <1>1, OffsetIs, OffsetsGrow
<1>4. line \in Line /\ bytes \in Text /\ L \in Nat
  BY FileParts, TextLength
<1>5. wellFormed(line)
  <2>1. DOMAIN f.lines = 1..Len(f.lines)
    BY FileParts
  <2> QED
    BY <2>1 DEF readable
<1>6. \A k \in 1..Len(piece) : spelled(f)[b + k] = piece[k]
  BY PieceStands
<1>7. \A k \in 1..L : bytes[k] \notin {"CR", "LF"}
  <2>1. DOMAIN bytes = 1..L
    BY <1>4 DEF Text
  <2> QED
    BY <1>5, <2>1 DEF wellFormed
<1>8. line # Blank => L >= 1
  BY <1>4, <1>5, NotBlankHasBytes
<1> HIDE DEF b, e
<1>9. CASE hasBreak(f, n)
  <2> DEFINE break == <<"CR", "LF">>
  <2>1. break \in Text /\ Len(break) = 2 /\ break[1] = "CR" /\ break[2] = "LF"
    BY DEF Byte, Text
  <2>2. piece = bytes \o break
    BY <1>9 DEF pieceOf, hasBreak, readable
  <2> HIDE DEF break, piece, bytes
  <2>3. /\ Len(piece) = L + 2
        /\ \A k \in 1..L : piece[k] = bytes[k]
        /\ piece[L + 1] = "CR" /\ piece[L + 2] = "LF"
    <3>1. 1 \in 1..Len(break) /\ 2 \in 1..Len(break)
      BY <2>1
    <3>2. /\ Len(piece) = L + Len(break)
          /\ \A k \in 1..L : piece[k] = bytes[k]
          /\ \A k \in 1..Len(break) : piece[L + k] = break[k]
      BY <1>4, <2>1, <2>2, JoinIs
    <3> QED
      BY <2>1, <3>1, <3>2
  <2>4. e = b + L + 2 /\ b < e
    BY <1>2, <1>4, <2>3
  <2>5. L + 1 \in 1..Len(piece) /\ L + 2 \in 1..Len(piece) /\ \A k \in 1..L : k \in 1..Len(piece)
    BY <1>4, <2>3
  <2>6. spelled(f)[b + (L + 1)] = "CR" /\ spelled(f)[b + (L + 2)] = "LF"
    BY <1>6, <2>3, <2>5
  <2>7. b + (L + 1) = b + L + 1 /\ b + (L + 2) = b + L + 2
    BY <1>2, <1>4
  <2>8. \A k \in 1..L : spelled(f)[b + k] = bytes[k]
    BY <1>6, <2>3, <2>5
  <2> QED
    BY <1>2, <1>3, <1>4, <1>7, <1>8, <1>9, <2>4, <2>6, <2>7, <2>8 DEF b, e, bytes
<1>10. CASE ~hasBreak(f, n)
  <2>1. piece = bytes \o <<>>
    BY <1>10 DEF pieceOf, hasBreak
  <2>2. piece = bytes
    BY <1>4, <2>1, ConcatEmptySeq DEF Text
  <2>3. n = N
    BY <1>1, <1>10 DEF hasBreak
  <2>4. line # Blank
    <3> SUFFICES ASSUME line = Blank PROVE FALSE
      OBVIOUS
    <3>1. DOMAIN f.lines = 1..Len(f.lines)
      BY FileParts
    <3>2. PICK j \in DOMAIN f.lines : j > n
      BY <3>1 DEF readable
    <3> QED
      BY <1>1, <2>3, <3>1, <3>2
  <2>5. e = b + L /\ b < e
    BY <1>2, <1>4, <1>8, <2>2, <2>4
  <2> QED
    BY <1>2, <1>3, <1>4, <1>6, <1>7, <1>8, <1>10, <2>2, <2>5 DEF b, e
<1> QED
  BY <1>9, <1>10

-----------------------------------------------------------------------------
(* The lines behind the cursor, which are still as they were in the file.     *)

Fresh(f, text, n) ==
    /\ Len(text) = Len(spelled(f))
    /\ \A p \in 1..Len(text) : offset(f, n) < p => text[p] = spelled(f)[p]

(* Line j as it stands in the text, behind the first n lines.                 *)
LineAt(f, text, n, j) ==
    LET b == offset(f, j - 1)
        e == offset(f, j)
        bytes == bytesOf(f.lines[j])
        L == Len(bytes) IN
    /\ bytes \in Text /\ L \in Nat /\ b \in Nat /\ e \in Nat /\ b < e
    /\ offset(f, n) \in Nat /\ offset(f, n) <= b
    /\ e <= Len(text) /\ (j = Len(f.lines) => e = Len(text))
    /\ IF hasBreak(f, j)
       THEN e = b + L + 2 /\ text[b + L + 1] = "CR" /\ text[b + L + 2] = "LF"
       ELSE e = b + L /\ e = Len(text)
    /\ \A k \in 1..L : text[b + k] = bytes[k] /\ bytes[k] \notin {"CR", "LF"}
    /\ f.lines[j] # Blank => L >= 1

LEMMA LineInText ==
    ASSUME NEW f \in Files, readable(f), NEW text \in Text,
           NEW n \in 0..Len(f.lines), Fresh(f, text, n),
           NEW j \in 1..Len(f.lines), n < j
    PROVE  LineAt(f, text, n, j)
<1> DEFINE b == offset(f, j - 1)
           e == offset(f, j)
           bytes == bytesOf(f.lines[j])
           L == Len(bytes)
<1>1. /\ bytes \in Text /\ L \in Nat /\ b \in Nat /\ e \in Nat /\ b < e
      /\ e <= Len(spelled(f)) /\ (j = Len(f.lines) => e = Len(spelled(f)))
      /\ IF hasBreak(f, j)
         THEN e = b + L + 2 /\ spelled(f)[b + L + 1] = "CR" /\ spelled(f)[b + L + 2] = "LF"
         ELSE e = b + L
      /\ \A k \in 1..L : spelled(f)[b + k] = bytes[k] /\ bytes[k] \notin {"CR", "LF"}
      /\ f.lines[j] # Blank => L >= 1
  BY LineStands
<1>2. offset(f, n) \in Nat /\ offset(f, n) <= b
  <2>1. Len(f.lines) \in Nat
    BY OffsetIs
  <2>2. j - 1 \in 0..Len(f.lines) /\ n \in 0..(j - 1)
    BY <2>1
  <2> QED
    BY <2>2, OffsetIs, OffsetsGrow
<1> HIDE DEF b, e, bytes
<1>3. ASSUME NEW p \in Nat, b < p, p <= e PROVE text[p] = spelled(f)[p]
  <2>1. p \in 1..Len(text) /\ offset(f, n) < p
    BY <1>1, <1>2, <1>3 DEF Fresh
  <2> QED
    BY <2>1 DEF Fresh
<1>4. e <= Len(text) /\ (j = Len(f.lines) => e = Len(text))
  BY <1>1 DEF Fresh
<1>5. CASE hasBreak(f, j)
  <2>1. text[b + L + 1] = "CR" /\ text[b + L + 2] = "LF"
    BY <1>1, <1>3, <1>5
  <2>2. \A k \in 1..L : text[b + k] = bytes[k]
    <3> TAKE k \in 1..L
    <3>1. b + k \in Nat /\ b < b + k /\ b + k <= e
      BY <1>1, <1>5
    <3>2. text[b + k] = spelled(f)[b + k]
      BY <1>3, <3>1
    <3> QED
      BY <1>1, <3>2
  <2> QED
    BY <1>1, <1>2, <1>4, <1>5, <2>1, <2>2 DEF b, e, bytes, LineAt
<1>6. CASE ~hasBreak(f, j)
  <2>1. \A k \in 1..L : text[b + k] = bytes[k]
    <3> TAKE k \in 1..L
    <3>1. b + k \in Nat /\ b < b + k /\ b + k <= e
      BY <1>1, <1>6
    <3>2. text[b + k] = spelled(f)[b + k]
      BY <1>3, <3>1
    <3> QED
      BY <1>1, <3>2
  <2>2. j = Len(f.lines)
    BY <1>6, OffsetIs DEF hasBreak
  <2> QED
    BY <1>1, <1>2, <1>4, <1>6, <2>1, <2>2 DEF b, e, bytes, LineAt
<1> QED
  BY <1>5, <1>6

(* From anywhere in a line the loop goes on behind it.                        *)
LEMMA OnToNextLine ==
    ASSUME NEW f \in Files, readable(f), NEW text \in Text,
           NEW n \in 0..Len(f.lines), Fresh(f, text, n),
           NEW j \in 1..Len(f.lines), n < j,
           NEW at \in Nat, offset(f, j - 1) < at, at <= offset(f, j) + 1,
           at = offset(f, j) + 1 => at = behind(text)
    PROVE  seek_next_line(text, at, "LINE_FEED") = offset(f, j) + 1
<1> DEFINE b == offset(f, j - 1)
           e == offset(f, j)
           bytes == bytesOf(f.lines[j])
           L == Len(bytes)
<1>1. /\ L \in Nat /\ b \in Nat /\ e \in Nat /\ b < e /\ e <= Len(text)
      /\ IF hasBreak(f, j)
         THEN e = b + L + 2 /\ text[b + L + 1] = "CR" /\ text[b + L + 2] = "LF"
         ELSE e = b + L /\ e = Len(text)
      /\ \A k \in 1..L : text[b + k] = bytes[k] /\ bytes[k] \notin {"CR", "LF"}
  <2>1. LineAt(f, text, n, j)
    BY LineInText
  <2> QED
    BY <2>1 DEF LineAt
<1>0. b < at /\ at <= e + 1 /\ (at = e + 1 => at = behind(text))
  OBVIOUS
<1> HIDE DEF L, bytes, b, e
<1>2. Len(text) \in Nat /\ behind(text) = Len(text) + 1 /\ at \in Nat \ {0}
  BY <1>0, <1>1, TextLength
<1>3. PICK lf : /\ IsFirst(lf, text, at, Places(text, "LF"))
                /\ seek_next_line(text, at, "LINE_FEED") = IF lf = behind(text) THEN lf ELSE lf + 1
  BY <1>2, LineIs
<1>4. ASSUME NEW p \in Nat, b < p, p <= e, text[p] = "LF"
      PROVE  hasBreak(f, j) /\ p = e
  <2>1. p - b \in Nat /\ b + (p - b) = p /\ p - b >= 1
    BY <1>1, <1>4
  <2>2. ~(p - b <= L)
    <3> SUFFICES ASSUME p - b <= L PROVE FALSE
      OBVIOUS
    <3>1. p - b \in 1..L
      BY <1>1, <2>1
    <3> QED
      BY <1>1, <1>4, <2>1, <3>1
  <2>3. p # b + L + 1 \/ ~hasBreak(f, j)
    BY <1>1, <1>4
  <2> QED
    BY <1>1, <1>4, <2>1, <2>2, <2>3
<1>5. CASE hasBreak(f, j) /\ at <= e
  <2>1. text[e] = "LF" /\ e < behind(text) /\ at <= e
    BY <1>0, <1>1, <1>2, <1>5
  <2>2. e \in at..Len(text) /\ e \in Places(text, "LF")
    BY <1>1, <1>2, <2>1 DEF Places
  <2>3. lf <= e
    BY <1>1, <1>2, <1>3, <2>1, <2>2 DEF IsFirst
  <2>4. lf \in at..Len(text) /\ text[lf] = "LF"
    BY <1>1, <1>2, <1>3, <2>1, <2>3 DEF IsFirst, Places
  <2>5. lf = e
    <3>1. lf \in Nat /\ b < lf
      BY <1>0, <1>1, <1>2, <2>4
    <3> QED
      BY <1>4, <2>3, <2>4, <3>1
  <2> QED
    BY <1>2, <1>3, <2>1, <2>5 DEF e
<1>6. CASE ~hasBreak(f, j) \/ at = e + 1
  <2>1. e = Len(text)
    BY <1>0, <1>1, <1>2, <1>6
  <2>2. lf = behind(text)
    <3> SUFFICES ASSUME lf # behind(text) PROVE FALSE
      OBVIOUS
    <3>1. lf \in at..Len(text) /\ text[lf] = "LF"
      BY <1>2, <1>3 DEF IsFirst, Places
    <3>2. lf \in Nat /\ b < lf /\ lf <= e /\ at <= e
      BY <1>0, <1>1, <1>2, <2>1, <3>1
    <3>3. at # e + 1
      BY <1>1, <3>2
    <3> QED
      BY <1>4, <1>6, <3>1, <3>2, <3>3
  <2> QED
    BY <1>2, <1>3, <2>1, <2>2 DEF e
<1>7. at <= e \/ at = e + 1
  BY <1>0, <1>1
<1> QED
  BY <1>5, <1>6, <1>7

(* Between the lines n and j there are only blank ones.                       *)
LEMMA BlankBytes ==
    ASSUME NEW f \in Files, readable(f), NEW text \in Text,
           NEW n \in 0..Len(f.lines), Fresh(f, text, n),
           NEW j \in 1..Len(f.lines), n < j,
           \A m \in 1..Len(f.lines) : n < m /\ m < j => f.lines[m] = Blank,
           NEW p \in Nat, offset(f, n) < p, p <= offset(f, j - 1)
    PROVE  text[p] \in {"CR", "LF"}
<1>1. /\ Len(f.lines) \in Nat /\ j - 1 \in 0..Len(f.lines) /\ offset(f, n) \in Nat
      /\ offset(f, j - 1) \in Nat /\ offset(f, j - 1) <= Len(text)
      /\ Len(text) = Len(spelled(f)) /\ Len(text) \in Nat
  <2>1. Len(f.lines) \in Nat /\ j - 1 \in 0..Len(f.lines) /\ Len(text) \in Nat
    BY OffsetIs, TextLength
  <2>2. offset(f, n) \in Nat /\ offset(f, j - 1) \in Nat
    BY <2>1, OffsetIs
  <2>3. /\ offset(f, j - 1) < offset(f, j) /\ offset(f, j) <= Len(text)
        /\ offset(f, j) \in Nat
    <3>1. LineAt(f, text, n, j)
      BY LineInText
    <3> QED
      BY <3>1 DEF LineAt
  <2> QED
    BY <2>1, <2>2, <2>3 DEF Fresh
<1>2. p \in 1..Len(spelled(f))
  BY <1>1
<1>3. PICK m \in 1..Len(f.lines) : offset(f, m - 1) < p /\ p <= offset(f, m)
  BY <1>2, Covered
<1>4. m - 1 \in 0..Len(f.lines) /\ offset(f, m) \in Nat /\ offset(f, m - 1) \in Nat
  BY <1>1, OffsetIs
<1>5. n < m
  <2> SUFFICES ASSUME m <= n PROVE FALSE
    BY <1>1
  <2>1. m \in 0..n
    BY <1>1
  <2>2. offset(f, m) <= offset(f, n)
    BY <2>1, OffsetsGrow
  <2> QED
    BY <1>1, <1>3, <1>4, <2>2
<1>6. m < j
  <2> SUFFICES ASSUME j <= m PROVE FALSE
    BY <1>1
  <2>1. j - 1 \in 0..(m - 1)
    BY <1>1
  <2>2. offset(f, j - 1) <= offset(f, m - 1)
    BY <1>4, <2>1, OffsetsGrow
  <2> QED
    BY <1>1, <1>3, <1>4, <2>2
<1>7. bytesOf(f.lines[m]) = <<>> /\ hasBreak(f, m)
  BY <1>1, <1>5, <1>6 DEF bytesOf, hasBreak
<1> DEFINE b == offset(f, m - 1)
           L == Len(bytesOf(f.lines[m]))
<1>8. L = 0 /\ offset(f, m) = b + L + 2 /\ text[b + L + 1] = "CR" /\ text[b + L + 2] = "LF"
  <2>1. offset(f, m) = b + L + 2 /\ text[b + L + 1] = "CR" /\ text[b + L + 2] = "LF"
    <3>1. LineAt(f, text, n, m)
      BY <1>5, <1>7, LineInText
    <3> QED
      BY <1>7, <3>1 DEF LineAt
  <2> QED
    BY <1>7, <2>1, EmptySeq
<1> HIDE DEF b, L
<1>9. p = b + L + 1 \/ p = b + L + 2
  BY <1>3, <1>4, <1>8 DEF b
<1> QED
  BY <1>8, <1>9

LEMMA OnlyFirst ==
    ASSUME NEW text \in Text, NEW start \in Nat \ {0}, NEW T, NEW f, IsFirst(f, text, start, T),
           NEW m \in Nat, start <= m, m <= behind(text),
           m < behind(text) => m \in T,
           \A i \in Nat : start <= i /\ i < m => i \notin T
    PROVE  f = m
<1>1. Len(text) \in Nat /\ behind(text) = Len(text) + 1
  BY TextLength
<1>2. f <= m
  <2>1. CASE m < behind(text)
    <3>1. m \in start..Len(text)
      BY <1>1, <2>1
    <3> QED
      BY <2>1, <3>1 DEF IsFirst
  <2>2. CASE m = behind(text)
    BY <1>1, <2>2 DEF IsFirst
  <2> QED
    BY <1>1, <2>1, <2>2
<1>3. ~(f < m)
  <2> SUFFICES ASSUME f < m PROVE FALSE
    OBVIOUS
  <2>1. f \in start..Len(text) /\ f \in T
    BY <1>1 DEF IsFirst
  <2> QED
    BY <1>1, <2>1
<1> QED
  BY <1>2, <1>3 DEF IsFirst

LEMMA BreaksAreNoLetters == ~isAlpha("CR") /\ ~isAlpha("LF")
<1>1. \A i \in 1..26 : Lower[i] \notin {"CR", "LF"}
  BY SMTT(30) DEF Lower
<1>2. \A i \in 1..26 : Upper[i] \notin {"CR", "LF"}
  BY SMTT(30) DEF Upper
<1>3. DOMAIN Lower = 1..26 /\ DOMAIN Upper = 1..26
  BY DEF Lower, Upper
<1> QED
  BY <1>1, <1>2, <1>3 DEF isAlpha, Alphabet

(* The first letter from the cursor on is the first of the next line that is  *)
(* not blank.                                                                 *)
LEMMA LetterOfLine ==
    ASSUME NEW f \in Files, readable(f), NEW text \in Text,
           NEW n \in 0..Len(f.lines), Fresh(f, text, n),
           NEW j \in 1..Len(f.lines), n < j,
           \A m \in 1..Len(f.lines) : n < m /\ m < j => f.lines[m] = Blank,
           NEW a \in 1..Len(bytesOf(f.lines[j])), isAlpha(bytesOf(f.lines[j])[a]),
           \A i \in 1..Len(bytesOf(f.lines[j])) : i < a => ~isAlpha(bytesOf(f.lines[j])[i])
    PROVE  LET at == seek_next_alpha(text, offset(f, n) + 1) IN
           at.at = offset(f, j - 1) + a /\ at.cursor = offset(f, j - 1) + a + 1
<1> DEFINE b == offset(f, j - 1)
           e == offset(f, j)
           bytes == bytesOf(f.lines[j])
           L == Len(bytes)
           start == offset(f, n) + 1
           at == seek_next_alpha(text, start)
<1>1. /\ L \in Nat /\ b \in Nat /\ e \in Nat /\ offset(f, n) \in Nat /\ offset(f, n) <= b
      /\ e <= Len(text) /\ e >= b + L
      /\ \A k \in 1..L : text[b + k] = bytes[k]
  <2>1. /\ L \in Nat /\ b \in Nat /\ e \in Nat /\ offset(f, n) \in Nat /\ offset(f, n) <= b
        /\ e <= Len(text)
        /\ e = b + L + 2 \/ e = b + L
        /\ \A k \in 1..L : text[b + k] = bytes[k]
    <3>1. LineAt(f, text, n, j)
      BY LineInText
    <3> QED
      BY <3>1 DEF LineAt
  <2> HIDE DEF e, b, L, bytes
  <2> QED
    BY <2>1
<1>2. ~isAlpha("CR") /\ ~isAlpha("LF")
  BY BreaksAreNoLetters
<1>3. ASSUME NEW p \in Nat, start <= p, p <= b PROVE ~isAlpha(text[p])
  <2>1. text[p] \in {"CR", "LF"}
    <3>1. offset(f, n) < p /\ p <= offset(f, j - 1)
      BY <1>1, <1>3
    <3> QED
      BY <3>1, BlankBytes
  <2> QED
    BY <1>2, <2>1
<1>4. a \in 1..L /\ isAlpha(bytes[a]) /\ \A i \in 1..L : i < a => ~isAlpha(bytes[i])
  OBVIOUS
<1>5. /\ start \in Nat \ {0} /\ b + a \in start..Len(text) /\ start <= b + a /\ b + a < behind(text)
      /\ b + a \in Nat /\ Len(text) \in Nat /\ behind(text) = Len(text) + 1
  BY <1>1, <1>4, TextLength
<1>6. /\ IsFirst(at.at, text, start, Letters(text))
      /\ at.cursor = Min({at.at + 1, behind(text)})
  BY <1>5, LetterIs
<1> HIDE DEF b, e, L, bytes, start, at
<1>7. b + a \in Letters(text)
  BY <1>1, <1>4, <1>5 DEF Letters
<1>8. ASSUME NEW i \in Nat, start <= i, i < b + a PROVE i \notin Letters(text)
  <2>1. CASE i <= b
    BY <1>3, <1>8, <2>1 DEF Letters
  <2>2. CASE b < i
    <3>1. i - b \in 1..L /\ i - b < a /\ b + (i - b) = i
      BY <1>1, <1>4, <1>8, <2>2
    <3>2. text[i] = bytes[i - b] /\ ~isAlpha(bytes[i - b])
      BY <1>1, <1>4, <3>1
    <3> QED
      BY <3>2 DEF Letters
  <2> QED
    BY <1>1, <2>1, <2>2
<1>9. at.at = b + a
  BY <1>5, <1>6, <1>7, <1>8, OnlyFirst
<1>10. at.cursor = b + a + 1
  BY <1>5, <1>6, <1>9, StepOver
<1> QED
  BY <1>9, <1>10 DEF at, b, start

(* A line that is no option and no comment is taken for no option.            *)
LEMMA OtherIsSkipped ==
    ASSUME NEW f \in Files, readable(f), NEW text \in Text,
           NEW n \in 0..Len(f.lines), Fresh(f, text, n),
           NEW j \in 1..Len(f.lines), n < j,
           \A m \in 1..Len(f.lines) : n < m /\ m < j => f.lines[m] = Blank,
           f.lines[j] # Blank, ~isOption(f.lines[j]), ~isComment(f.lines[j])
    PROVE  LET at == seek_next_alpha(text, offset(f, n) + 1) IN
           /\ \A key \in Keys : ~match(word[key], SubSeq(text, at.at, Len(text)))
           /\ seek_next_line(text, at.cursor, "LINE_FEED") = offset(f, j) + 1
<1> DEFINE b == offset(f, j - 1)
           e == offset(f, j)
           line == f.lines[j]
           t == line.text
           L == Len(t)
           a == seek_next_alpha(t, 1).at
           at == seek_next_alpha(text, offset(f, n) + 1)
<1>1. line \in Line /\ wellFormed(line)
  <2>1. DOMAIN f.lines = 1..Len(f.lines)
    BY FileParts
  <2> QED
    BY <2>1, FileParts DEF readable
<1>2. bytesOf(line) = t /\ t \in Text /\ L \in Nat
  BY <1>1, OtherIs, BytesIsText, TextLength
<1>3. \A key \in Keys : ~match(word[key], SubSeq(t, a, L))
  BY <1>1, OtherIs DEF wellFormed
<1>4. /\ a \in 1..behind(t) /\ behind(t) = L + 1
      /\ IsFirst(a, t, 1, Letters(t))
  <2> HIDE DEF t
  <2>1. behind(t) = L + 1 /\ 1 \in 1..behind(t) /\ 1 \in Nat \ {0}
    BY <1>2, TextLength
  <2>2. a \in 1..behind(t)
    BY <1>2, <2>1, LetterAhead
  <2>3. IsFirst(a, t, 1, Letters(t))
    BY <1>2, <2>1, LetterIs
  <2> QED
    BY <2>1, <2>2, <2>3
<1>5. \A key \in Keys : word[key] \in Text /\ Len(word[key]) \in Nat
  BY WordIs
<1> HIDE DEF t, a, L
<1>6. a # L + 1
  <2> SUFFICES ASSUME a = L + 1 PROVE FALSE
    OBVIOUS
  <2>1. \A k \in 1..Len(word["nick"]) : ~(a + k - 1 <= Len(t))
    BY <1>2, <1>5 DEF Keys, L
  <2>2. match(word["nick"], SubSeq(t, a, Len(t)))
    BY <1>2, <1>4, <1>5, <2>1, MatchFrom DEF Keys
  <2> QED
    BY <1>3, <2>2 DEF Keys, L
<1>7. a \in 1..L /\ isAlpha(t[a]) /\ \A i \in 1..L : i < a => ~isAlpha(t[i])
  <2>1. a \in 1..L /\ a < behind(t)
    BY <1>2, <1>4, <1>6
  <2> QED
    BY <1>4, <2>1 DEF IsFirst, Letters, L
<1>8. at.at = b + a /\ at.cursor = b + a + 1
  <2>1. /\ a \in 1..Len(bytesOf(f.lines[j])) /\ isAlpha(bytesOf(f.lines[j])[a])
        /\ \A i \in 1..Len(bytesOf(f.lines[j])) : i < a => ~isAlpha(bytesOf(f.lines[j])[i])
    BY <1>2, <1>7 DEF L
  <2> QED
    BY <2>1, LetterOfLine
<1>9. /\ L \in Nat /\ b \in Nat /\ e \in Nat /\ e <= Len(text)
      /\ IF hasBreak(f, j) THEN e = b + L + 2 ELSE e = b + L /\ e = Len(text)
      /\ \A k \in 1..L : text[b + k] = t[k]
  <2> DEFINE M == Len(bytesOf(f.lines[j]))
  <2>1. /\ M \in Nat /\ b \in Nat /\ e \in Nat /\ e <= Len(text)
        /\ IF hasBreak(f, j) THEN e = b + M + 2 ELSE e = b + M /\ e = Len(text)
        /\ \A k \in 1..M : text[b + k] = bytesOf(f.lines[j])[k]
    <3>1. LineAt(f, text, n, j)
      BY LineInText
    <3> QED
      BY <3>1 DEF LineAt
  <2>2. M = L
    BY <1>2 DEF L
  <2> HIDE DEF M, b, e
  <2> QED
    BY <1>2, <2>1, <2>2
<1>10. Len(text) \in Nat /\ behind(text) = Len(text) + 1
  BY TextLength
<1>11. seek_next_line(text, at.cursor, "LINE_FEED") = e + 1
  <2>1. /\ at.cursor \in Nat /\ b < at.cursor /\ at.cursor <= e + 1
        /\ at.cursor = e + 1 => at.cursor = behind(text)
    <3> HIDE DEF b, e, at
    <3>1. e = b + L + 2 \/ (e = b + L /\ e = Len(text))
      BY <1>9
    <3>2. at.cursor \in Nat /\ b < at.cursor /\ at.cursor <= e + 1
      BY <1>7, <1>8, <1>9, <3>1
    <3>3. at.cursor = e + 1 => e = Len(text)
      BY <1>7, <1>8, <1>9, <3>1
    <3> QED
      BY <1>10, <3>2, <3>3
  <2> HIDE DEF at
  <2> QED
    BY <2>1, OnToNextLine
<1>12. ASSUME NEW key \in Keys PROVE ~match(word[key], SubSeq(text, b + a, Len(text)))
  <2> HIDE DEF b, e
  <2>1. ~match(word[key], SubSeq(t, a, Len(t)))
    BY <1>3 DEF L
  <2>2. PICK k \in 1..Len(word[key]) : a + k - 1 <= Len(t) /\ word[key][k] # t[a + k - 1]
    BY <1>2, <1>4, <1>5, <2>1, MatchFrom
  <2>6. b \in Nat /\ e \in Nat /\ L \in Nat /\ b + L <= e /\ b + L <= Len(text)
    BY <1>9, <1>10
  <2>7. Len(word[key]) \in Nat /\ k \in Nat \ {0} /\ a \in Nat \ {0} /\ a + k - 1 <= L
    BY <1>5, <1>7, <2>2 DEF L
  <2>3. a + k - 1 \in 1..L /\ b + (a + k - 1) = (b + a) + k - 1 /\ b + L <= Len(text)
    BY <2>6, <2>7
  <2>4. (b + a) + k - 1 <= Len(text) /\ text[(b + a) + k - 1] # word[key][k]
    <3>1. text[b + (a + k - 1)] = t[a + k - 1]
      BY <1>9, <2>3
    <3>2. b + (a + k - 1) <= Len(text)
      BY <1>10, <2>6, <2>7
    <3> QED
      BY <2>2, <2>3, <3>1, <3>2
  <2>5. b + a \in 1..behind(text)
    BY <1>7, <1>9, <1>10, <2>3
  <2> QED
    BY <1>5, <2>4, <2>5, MatchFrom
<1> QED
  BY <1>8, <1>11, <1>12 DEF at, e, b

(* What the loop finds behind the first n lines, if line j is for an option.  *)
OptionAt(f, text, n, j) ==
    LET at == seek_next_alpha(text, offset(f, n) + 1)
        v == valueAfter(text, at.cursor)
        value == f.lines[j].value IN
    /\ f.lines[j].key \in Keys /\ value \in Text
    /\ \A key \in Keys :
          match(word[key], SubSeq(text, at.at, Len(text))) <=> key = f.lines[j].key
    /\ offset(f, n) < v.start /\ v.start <= Len(text) /\ v.start \in Nat
    /\ v.end = v.start + Len(value)
    /\ \A k \in 1..Len(value) : text[v.start + k - 1] = value[k] /\ value[k] # "NUL"
    /\ v.end <= offset(f, j) + 1 /\ v.end \in Nat
    /\ seek_next_line(text, v.cursor, "LINE_FEED") = offset(f, j) + 1

(* Where the colon and the value of an option lie in the text.                *)
LEMMA OptionNumbers ==
    ASSUME NEW b \in Nat, NEW W \in Nat, NEW g \in Nat, NEW V \in Nat, NEW L \in Nat,
           NEW T \in Nat, W >= 1, V >= 1, L = W + 1 + g + V, b + L <= T
    PROVE  /\ b + W + 1 \in 1..T /\ b + W + 1 \in Nat /\ b + 2 <= b + W + 1
           /\ b + W + 1 < T + 1 /\ (b + W + 1) + 1 = b + W + 2
           /\ b + W + 2 \in Nat \ {0} /\ b + 2 \in Nat \ {0}
           /\ b + W + 2 <= b + W + 1 + g + 1 /\ b + W + 1 + g + 1 < T + 1
  OBVIOUS

(* An option is taken for the option it is, and its value is the word behind  *)
(* the colon.                                                                 *)
LEMMA OptionIsFound ==
    ASSUME NEW f \in Files, readable(f), NEW text \in Text,
           NEW n \in 0..Len(f.lines), Fresh(f, text, n),
           NEW j \in 1..Len(f.lines), n < j,
           \A m \in 1..Len(f.lines) : n < m /\ m < j => f.lines[m] = Blank,
           f.lines[j] # Blank, isOption(f.lines[j])
    PROVE  OptionAt(f, text, n, j)
<1> DEFINE b == offset(f, j - 1)
           e == offset(f, j)
           line == f.lines[j]
           w == word[line.key]
           W == Len(w)
           g == Len(line.gap)
           value == line.value
           V == Len(value)
           bytes == bytesOf(line)
           L == Len(bytes)
           at == seek_next_alpha(text, offset(f, n) + 1)
           v == valueAfter(text, at.cursor)
<1>1. line \in Line /\ wellFormed(line) /\ isOption(line)
  <2>1. DOMAIN f.lines = 1..Len(f.lines)
    BY FileParts
  <2> QED
    BY <2>1, FileParts DEF readable
<1>2. /\ line.key \in Keys /\ line.gap \in Text /\ value \in Text
      /\ W \in Nat /\ W >= 1 /\ g \in Nat /\ V \in Nat /\ V >= 1
      /\ L = W + 1 + g + V
  BY <1>1, OptionIs
<1>2a. \A k \in 1..W : bytes[k] = w[k]
  BY <1>1, OptionIs
<1>2b. bytes[W + 1] = ":"
  BY <1>1, OptionIs
<1>2c. \A k \in 1..g : bytes[W + 1 + k] \in Whitespace
  BY <1>1, OptionIs
<1>2d. \A k \in 1..V : bytes[W + 1 + g + k] = value[k]
  BY <1>1, OptionIs
<1>2e. \A k \in 1..V : value[k] \notin Whitespace /\ value[k] # "NUL"
  BY <1>1, OptionIs
<1>3. /\ w \in Text /\ isAlpha(w[1]) /\ \A k \in 1..W : w[k] # ":"
      /\ \A key \in Keys : /\ word[key] \in Text /\ Len(word[key]) \in Nat /\ Len(word[key]) >= 1
                           /\ key # line.key => word[key][1] # w[1]
  BY <1>2, WordIs
<1>4. /\ L \in Nat /\ b \in Nat /\ e \in Nat /\ offset(f, n) \in Nat /\ offset(f, n) <= b
      /\ e <= Len(text)
      /\ IF hasBreak(f, j)
         THEN e = b + L + 2 /\ text[b + L + 1] = "CR"
         ELSE e = b + L /\ e = Len(text)
      /\ \A k \in 1..L : text[b + k] = bytes[k]
  <2>1. LineAt(f, text, n, j)
    BY LineInText
  <2> QED
    BY <2>1 DEF LineAt
<1>5. at.at = b + 1 /\ at.cursor = b + 2
  <2>1. 1 \in 1..L /\ bytes[1] = w[1]
    <3> HIDE DEF bytes, L, w, W, g, V
    <3>1. 1 \in 1..W /\ 1 \in 1..L
      BY <1>2
    <3> QED
      BY <1>2a, <3>1
  <2>2. /\ 1 \in 1..Len(bytesOf(f.lines[j])) /\ isAlpha(bytesOf(f.lines[j])[1])
        /\ \A i \in 1..Len(bytesOf(f.lines[j])) : i < 1 => ~isAlpha(bytesOf(f.lines[j])[i])
    BY <1>3, <2>1
  <2>3. at.at = b + 1 /\ at.cursor = b + 1 + 1
    BY <2>2, LetterOfLine
  <2> HIDE DEF at, b
  <2> QED
    BY <1>4, <2>3
<1> DEFINE start == b + W + 1 + g + 1
           end == b + L + 1
<1> HIDE DEF at, b, e, bytes, L, w, W, g, V, value, line, v
<1>6. /\ Len(text) \in Nat /\ behind(text) = Len(text) + 1
      /\ b + L <= e /\ b + L <= Len(text) /\ end <= behind(text) /\ end <= e + 1
      /\ start \in Nat /\ end \in Nat /\ start < end
      /\ b + 1 \in 1..behind(text) /\ b + 2 \in Nat /\ b + 2 \in 1..behind(text)
  <2>1. Len(text) \in Nat /\ behind(text) = Len(text) + 1
    BY TextLength
  <2>2. b + L <= e
    BY <1>4
  <2> QED
    BY <1>2, <1>4, <2>1, <2>2
<1>6a. /\ b \in Nat /\ W \in Nat /\ g \in Nat /\ V \in Nat /\ W >= 1 /\ V >= 1
       /\ L \in Nat /\ L = W + 1 + g + V
       /\ b + L <= Len(text) /\ Len(text) \in Nat /\ behind(text) = Len(text) + 1
       /\ start = b + W + 1 + g + 1 /\ end = b + L + 1
  BY <1>2, <1>4, <1>6
<1>6b. /\ b + W + 1 \in 1..Len(text) /\ b + W + 1 \in Nat /\ b + 2 <= b + W + 1
       /\ b + W + 1 < behind(text) /\ (b + W + 1) + 1 = b + W + 2
       /\ b + W + 2 \in Nat \ {0} /\ b + 2 \in Nat \ {0}
       /\ b + W + 2 <= start /\ start < behind(text)
  <2> HIDE DEF start, end
  <2> QED
    BY <1>6a, OptionNumbers
<1> HIDE DEF start, end
<1>7. /\ \A k \in 1..W : text[b + k] = w[k]
      /\ text[b + W + 1] = ":"
      /\ \A k \in 1..g : text[b + W + 1 + k] \in Whitespace
      /\ \A k \in 1..V : text[b + W + 1 + g + k] = value[k]
  <2>1. \A k \in 1..W : k \in 1..L
    BY <1>6a
  <2>2. W + 1 \in 1..L /\ b + (W + 1) = b + W + 1
    BY <1>6a
  <2>3. \A k \in 1..g : W + 1 + k \in 1..L /\ b + (W + 1 + k) = b + W + 1 + k
    BY <1>6a
  <2>4. \A k \in 1..V : W + 1 + g + k \in 1..L /\ b + (W + 1 + g + k) = b + W + 1 + g + k
    BY <1>6a
  <2>5. \A k \in 1..W : text[b + k] = w[k]
    BY <1>2a, <1>4, <2>1
  <2>6. text[b + W + 1] = ":"
    BY <1>2b, <1>4, <2>2
  <2>7. \A k \in 1..g : text[b + W + 1 + k] \in Whitespace
    BY <1>2c, <1>4, <2>3
  <2>8. \A k \in 1..V : text[b + W + 1 + g + k] = value[k]
    <3> TAKE k \in 1..V
    <3>1. text[b + (W + 1 + g + k)] = bytes[W + 1 + g + k]
      BY <1>4, <2>4
    <3> QED
      BY <1>2d, <2>4, <3>1
  <2> QED
    BY <2>5, <2>6, <2>7, <2>8
<1>8. ASSUME NEW key \in Keys
      PROVE  match(word[key], SubSeq(text, b + 1, Len(text))) <=> key = line.key
  <2>1. match(word[key], SubSeq(text, b + 1, Len(text)))
           <=> \A k \in 1..Len(word[key]) : b + 1 + k - 1 <= Len(text) => word[key][k] = text[b + 1 + k - 1]
    BY <1>3, <1>6, MatchFrom
  <2>2. \A k \in 1..Len(word[key]) : b + 1 + k - 1 = b + k
    <3>1. Len(word[key]) \in Nat /\ b \in Nat
      BY <1>3, <1>4
    <3> QED
      BY <3>1
  <2>3. CASE key = line.key
    <3>1. word[key] = w /\ Len(word[key]) = W
      BY <2>3 DEF w, W
    <3>2. \A k \in 1..Len(word[key]) : word[key][k] = text[b + 1 + k - 1]
      BY <1>7, <2>2, <3>1
    <3> QED
      BY <2>1, <2>3, <3>2
  <2>4. CASE key # line.key
    <3>1. 1 \in 1..Len(word[key]) /\ 1 \in 1..W /\ b + 1 <= Len(text)
      BY <1>2, <1>3, <1>4, <1>6
    <3>2. text[b + 1] = w[1] /\ word[key][1] # w[1]
      BY <1>3, <1>7, <2>4, <3>1
    <3> QED
      BY <2>1, <2>2, <2>4, <3>1, <3>2
  <2> QED
    BY <2>3, <2>4
<1> DEFINE colon == seek_next_char(text, b + 2, ":")
<1>9. colon.cursor = b + W + 2
  <2>1. ":" \in Byte
    BY DEF Byte
  <2>2. /\ IsFirst(colon.at, text, b + 2, Places(text, ":"))
        /\ colon.cursor = IF colon.at = behind(text) THEN behind(text) ELSE colon.at + 1
    BY <1>4, <1>6, <2>1, CharIs
  <2> HIDE DEF colon
  <2>3. b + W + 1 \in Places(text, ":")
    <3>1. b + W + 1 \in 1..Len(text)
      BY <1>6b
    <3> QED
      BY <1>7, <3>1 DEF Places
  <2>4. ASSUME NEW i \in Nat, b + 2 <= i, i < b + W + 1 PROVE i \notin Places(text, ":")
    <3>1. i - b \in 1..W /\ b + (i - b) = i
      BY <1>6a, <2>4
    <3>2. text[b + (i - b)] = w[i - b]
      BY <1>7, <3>1
    <3>4. w[i - b] # ":"
      BY <1>3, <3>1
    <3>3. text[i] # ":"
      BY <3>1, <3>2, <3>4
    <3> QED
      BY <3>3 DEF Places
  <2>5. /\ b + 2 \in Nat \ {0} /\ b + W + 1 \in Nat /\ b + 2 <= b + W + 1
        /\ b + W + 1 < behind(text) /\ b + W + 1 <= behind(text)
    BY <1>6a, <1>6b
  <2>6. colon.at = b + W + 1
    BY <2>2, <2>3, <2>4, <2>5, OnlyFirst
  <2> QED
    <3>1. b + W + 1 # behind(text) /\ (b + W + 1) + 1 = b + W + 2
      BY <1>6a, <1>6b
    <3>2. colon.cursor = (b + W + 1) + 1
      BY <2>2, <2>6, <3>1
    <3> QED
      BY <3>1, <3>2
<1>10. seek_past_whitespace(text, b + W + 2) = start
  <2> DEFINE past == seek_past_whitespace(text, b + W + 2)
  <2>1. b + W + 2 \in Nat \ {0} /\ b + W + 2 <= start /\ start < behind(text) /\ start <= behind(text)
    BY <1>6a, <1>6b
  <2>2. IsFirst(past, text, b + W + 2, (1..Len(text)) \ Spaces(text))
    BY <2>1, PastIs
  <2> HIDE DEF past
  <2>3. start \in (1..Len(text)) \ Spaces(text)
    <3>1. start = b + W + 1 + g + 1 /\ 1 \in 1..V
      BY <1>6a
    <3>2. text[b + W + 1 + g + 1] = value[1] /\ value[1] \notin Whitespace
      BY <1>2e, <1>7, <3>1
    <3>3. start \in 1..Len(text)
      BY <1>6a
    <3> QED
      BY <3>1, <3>2, <3>3 DEF Spaces
  <2>4. ASSUME NEW i \in Nat, b + W + 2 <= i, i < start
        PROVE  i \notin (1..Len(text)) \ Spaces(text)
    <3>1. i - (b + W + 1) \in 1..g /\ b + W + 1 + (i - (b + W + 1)) = i
      BY <1>6a, <2>4
    <3>2. text[i] \in Whitespace
      BY <1>7, <3>1
    <3> QED
      BY <3>2 DEF Spaces
  <2> HIDE DEF start
  <2>5. past = start
    BY <1>6, <2>1, <2>2, <2>3, <2>4, OnlyFirst
  <2> QED
    BY <2>5 DEF past
<1> DEFINE space == seek_next_whitespace(text, start)
<1>11. space.at = end /\ space.cursor = IF end = behind(text) THEN end ELSE end + 1
  <2>1. start \in Nat \ {0} /\ start <= end
    BY <1>6a
  <2>2. /\ IsFirst(space.at, text, start, Spaces(text))
        /\ space.cursor = Min({space.at + 1, behind(text)})
    <3> HIDE DEF start
    <3> QED
      BY <2>1, SpaceIs
  <2> HIDE DEF space
  <2>3. end < behind(text) => end \in Spaces(text)
    <3> SUFFICES ASSUME end < behind(text) PROVE end \in Spaces(text)
      OBVIOUS
    <3>1. hasBreak(f, j)
      BY <1>4, <1>6a
    <3>2. text[end] = "CR" /\ end \in 1..Len(text)
      BY <1>4, <1>6a, <3>1
    <3> QED
      BY <3>2 DEF Spaces, Whitespace
  <2>4. ASSUME NEW i \in Nat, start <= i, i < end PROVE i \notin Spaces(text)
    <3> DEFINE k == i - (b + W + 1 + g)
    <3>1. k \in 1..V /\ b + W + 1 + g + k = i
      BY <1>6a, <2>4
    <3> HIDE DEF k
    <3>2. text[i] \notin Whitespace
      BY <1>2e, <1>7, <3>1
    <3> QED
      BY <3>2 DEF Spaces
  <2> HIDE DEF start, end
  <2>5. space.at = end
    BY <1>6, <2>1, <2>2, <2>3, <2>4, OnlyFirst
  <2> QED
    BY <1>6, <2>2, <2>5, StepOver
<1>12. /\ v.start = start /\ v.end = end
       /\ v.cursor = IF end = behind(text) THEN end ELSE end + 1
  <2>1. v = [start |-> seek_past_whitespace(text, colon.cursor),
             end |-> seek_next_whitespace(text, seek_past_whitespace(text, colon.cursor)).at,
             cursor |-> seek_next_whitespace(text, seek_past_whitespace(text, colon.cursor)).cursor]
    BY <1>5 DEF v, valueAfter
  <2> HIDE DEF colon, start, end
  <2> QED
    BY <1>9, <1>10, <1>11, <2>1
<1>13. seek_next_line(text, v.cursor, "LINE_FEED") = e + 1
  <2>1. /\ v.cursor \in Nat /\ b < v.cursor /\ v.cursor <= e + 1
        /\ v.cursor = e + 1 => v.cursor = behind(text)
    <3>1. CASE hasBreak(f, j)
      <4>1. e = b + L + 2 /\ e <= Len(text)
        BY <1>4, <3>1
      <4>2. end # behind(text) /\ end + 1 \in Nat /\ b < end + 1 /\ end + 1 <= e + 1 /\ end + 1 # e + 1
        BY <1>6a, <4>1
      <4>3. v.cursor = end + 1
        BY <1>12, <4>2
      <4> QED
        BY <4>2, <4>3
    <3>2. CASE ~hasBreak(f, j)
      <4>1. end = behind(text) /\ end \in Nat /\ b < end /\ end = e + 1
        <5>1. e = b + L /\ e = Len(text)
          BY <1>4, <3>2
        <5> QED
          BY <1>6a, <5>1
      <4>2. v.cursor = end
        BY <1>12, <4>1
      <4> QED
        BY <4>1, <4>2
    <3> QED
      BY <3>1, <3>2
  <2> QED
    BY <2>1, OnToNextLine DEF b, e
<1>14. \A k \in 1..V : text[start + k - 1] = value[k] /\ value[k] # "NUL"
  <2> TAKE k \in 1..V
  <2>1. start + k - 1 = b + W + 1 + g + k
    BY <1>6a
  <2> QED
    BY <1>2e, <1>7, <2>1
<1>15. /\ offset(f, n) < start /\ start <= Len(text) /\ end = start + V
  <2>1. offset(f, n) \in Nat /\ offset(f, n) <= b
    BY <1>4
  <2> QED
    BY <1>6a, <2>1
<1> HIDE DEF start, end
<1> QED
  BY <1>2, <1>5, <1>6, <1>8, <1>12, <1>13, <1>14, <1>15 DEF at, v, value, line, V, e, OptionAt

(* The pointer to a value that was read points to the value.                  *)
LEMMA ValueWritten ==
    ASSUME NEW text \in Text, NEW key \in Keys, NEW value \in Text, NEW v,
           v.start \in Nat \ {0}, v.start <= Len(text), v.end = v.start + Len(value),
           v.end <= behind(text),
           \A k \in 1..Len(value) : text[v.start + k - 1] = value[k] /\ value[k] # "NUL"
    PROVE  /\ textAt(written(key, text, v), v.start)
                 = IF key \in Lowered THEN to_lower(value) ELSE value
           /\ \A p \in 1..Len(text) : v.end < p => written(key, text, v)[p] = text[p]
<1> DEFINE new == written(key, text, v)
           said == IF key \in Lowered THEN to_lower(value) ELSE value
           start == v.start
           end == v.end
           V == Len(value)
           zero == zeroFrom(new, start)
<1>1. /\ Len(text) \in Nat /\ behind(text) = Len(text) + 1 /\ V \in Nat
      /\ start \in Nat \ {0} /\ end \in Nat /\ start <= end /\ end <= Len(text) + 1 /\ end = start + V
      /\ start \in 1..behind(text) /\ end \in start..behind(text) /\ start <= Len(text)
  <2>1. Len(text) \in Nat /\ behind(text) = Len(text) + 1 /\ V \in Nat
    BY TextLength
  <2> QED
    BY <2>1
<1>2. ASSUME NEW i \in start..(end - 1) PROVE text[i] = value[i - start + 1] /\ text[i] # "NUL"
  <2>1. i - start + 1 \in 1..V /\ start + (i - start + 1) - 1 = i
    BY <1>1
  <2> QED
    BY <2>1
<1>3. /\ new \in Text /\ Len(new) = Len(text)
      /\ end <= Len(text) => new[end] = "NUL"
      /\ \A i \in 1..Len(text) :
            /\ start <= i /\ i < end => new[i] = IF key \in Lowered THEN char_to_lower(text[i]) ELSE text[i]
            /\ end < i => new[i] = text[i]
  <2>1. \A i \in v.start..(v.end - 1) : text[i] # "NUL"
    BY <1>2
  <2>2. v.start \in 1..behind(text) /\ v.end \in v.start..behind(text)
    BY <1>1
  <2>3. /\ new \in Text /\ Len(new) = Len(text)
        /\ v.end <= Len(text) => new[v.end] = "NUL"
        /\ (\A i \in v.start..(v.end - 1) : text[i] # "NUL") =>
              \A i \in 1..Len(text) :
                 /\ v.start <= i /\ i < v.end =>
                       new[i] = IF key \in Lowered THEN char_to_lower(text[i]) ELSE text[i]
                 /\ v.end < i => new[i] = text[i]
    BY <2>2, WrittenIs
  <2> HIDE DEF new
  <2> QED
    BY <2>1, <2>3
<1>4. said \in Text /\ Len(said) = V
      /\ \A k \in 1..V : said[k] = IF key \in Lowered THEN char_to_lower(value[k]) ELSE value[k]
  <2>1. \A k \in 1..V : value[k] \in Byte /\ char_to_lower(value[k]) \in Byte
    BY TextLength, LowerIs
  <2> DEFINE low == [k \in 1..V |-> char_to_lower(value[k])]
  <2>2. low \in Text /\ Len(low) = V /\ \A k \in 1..V : low[k] = char_to_lower(value[k])
    BY <1>1, <2>1 DEF Text
  <2>3. to_lower(value) = low
    BY DEF to_lower
  <2> HIDE DEF low
  <2> QED
    BY <2>2, <2>3
<1>5. behind(new) = Len(text) + 1
  BY <1>3 DEF behind
<1> HIDE DEF new, said, start, end, V
<1>6. ASSUME NEW i \in Nat, start <= i, i < end
      PROVE  /\ i \in 1..Len(text) /\ i - start + 1 \in 1..V
             /\ new[i] = said[i - start + 1] /\ new[i] # "NUL"
  <2>1. i \in start..(end - 1) /\ i \in 1..Len(text) /\ i - start + 1 \in 1..V
    BY <1>1, <1>6
  <2>2. text[i] = value[i - start + 1] /\ text[i] # "NUL" /\ text[i] \in Byte
    BY <1>2, <2>1, TextLength
  <2> QED
    BY <1>3, <1>4, <1>6, <2>1, <2>2, LowerIs
<1>7. zero = end
  <2>1. IsFirst(zero, new, start, Zeros(new))
    BY <1>1, <1>3, ZeroIs
  <2> HIDE DEF zero
  <2>2. end < behind(new) => end \in Zeros(new)
    BY <1>1, <1>3, <1>5 DEF Zeros
  <2>3. \A i \in Nat : start <= i /\ i < end => i \notin Zeros(new)
    BY <1>6 DEF Zeros
  <2> QED
    BY <1>1, <1>3, <1>5, <2>1, <2>2, <2>3, OnlyFirst
<1>8. SubSeq(new, start, end - 1) = said
  <2>1. \A i \in start..(end - 1) : new[i] \in Byte
    BY <1>1, <1>3, TextLength
  <2>2. /\ SubSeq(new, start, end - 1) \in Seq(Byte) /\ Len(SubSeq(new, start, end - 1)) = V
        /\ \A k \in 1..V : SubSeq(new, start, end - 1)[k] = new[start + k - 1]
    <3>1. /\ SubSeq(new, start, end - 1) \in Seq(Byte)
          /\ Len(SubSeq(new, start, end - 1)) = IF start <= end - 1 THEN (end - 1) - start + 1 ELSE 0
          /\ \A k \in 1..((end - 1) - start + 1) : SubSeq(new, start, end - 1)[k] = new[start + k - 1]
      BY <1>1, <1>3, <2>1, SubSeqProperties DEF Text
    <3>2. (end - 1) - start + 1 = V /\ (~(start <= end - 1) => V = 0)
      BY <1>1
    <3> QED
      BY <3>1, <3>2
  <2>3. ASSUME NEW k \in 1..V PROVE new[start + k - 1] = said[k]
    <3>1. start + k - 1 \in Nat /\ start <= start + k - 1 /\ start + k - 1 < end
          /\ (start + k - 1) - start + 1 = k
      BY <1>1
    <3> QED
      BY <1>6, <3>1
  <2>4. said \in Seq(Byte) /\ Len(said) = V
    BY <1>4 DEF Text
  <2>5. \A k \in 1..V : SubSeq(new, start, end - 1)[k] = said[k]
    BY <2>2, <2>3
  <2> QED
    BY <2>2, <2>4, <2>5, SeqEqual
<1>9. textAt(new, start) = said
  BY <1>7, <1>8 DEF textAt, zeroFrom, zero
<1> QED
  BY <1>3, <1>9 DEF new, said, start, end

-----------------------------------------------------------------------------
(* What a file says in its first n lines.                                     *)

linesFor(f, key, n) == {i \in 1..n : isOption(f.lines[i]) /\ f.lines[i].key = key}

saysUpTo(f, key, n) ==
    LET value == f.lines[Max(linesFor(f, key, n))].value
    IN  IF linesFor(f, key, n) = {} THEN NULL
        ELSE IF key \in Lowered THEN to_lower(value) ELSE value

LEMMA SaysIs ==
    ASSUME NEW f \in Files, NEW key \in Keys
    PROVE  says(f, key) = saysUpTo(f, key, Len(f.lines))
<1>1. DOMAIN f.lines = 1..Len(f.lines)
  BY FileParts
<1> QED
  BY <1>1 DEF says, saysUpTo, linesFor

LEMMA SaysMore ==
    ASSUME NEW f \in Files, NEW key \in Keys, NEW n \in Nat, NEW j \in Nat, n < j,
           \A m \in 1..j : n < m /\ m < j => f.lines[m] = Blank
    PROVE  saysUpTo(f, key, j) =
              IF isOption(f.lines[j]) /\ f.lines[j].key = key
              THEN IF key \in Lowered THEN to_lower(f.lines[j].value) ELSE f.lines[j].value
              ELSE saysUpTo(f, key, n)
<1>1. \A m \in 1..j : n < m /\ m < j => ~isOption(f.lines[m])
  BY DEF isOption
<1>2. CASE ~(isOption(f.lines[j]) /\ f.lines[j].key = key)
  <2>1. linesFor(f, key, j) = linesFor(f, key, n)
    BY <1>1, <1>2 DEF linesFor
  <2> QED
    BY <1>2, <2>1 DEF saysUpTo
<1>3. CASE isOption(f.lines[j]) /\ f.lines[j].key = key
  <2>1. j \in linesFor(f, key, j) /\ \A m \in linesFor(f, key, j) : j >= m
    BY <1>3 DEF linesFor
  <2>2. Max(linesFor(f, key, j)) = j
    <3> DEFINE T == linesFor(f, key, j)
               greatest(x) == \A y \in T : x >= y
    <3>1. T \in SUBSET Nat
      BY DEF linesFor
    <3>2. j \in T /\ greatest(j)
      BY <2>1
    <3>3. \A x \in T : greatest(x) => x = j
      BY <2>1, <3>1
    <3>4. Max(T) = CHOOSE x \in T : greatest(x)
      BY DEF Max
    <3> HIDE DEF T, greatest
    <3>5. Max(T) \in T /\ greatest(Max(T))
      BY <3>2, <3>4
    <3> QED
      BY <3>3, <3>5 DEF T
  <2> QED
    BY <1>3, <2>1, <2>2 DEF saysUpTo
<1> QED
  BY <1>2, <1>3

-----------------------------------------------------------------------------
(* One turn of the loop.                                                      *)

(* The next line that is not blank; a comment only if it is the next of all.  *)
LEMMA NextLine ==
    ASSUME NEW f \in Files, readable(f), NEW n \in 0..Len(f.lines), n < Len(f.lines)
    PROVE  \E j \in 1..Len(f.lines) :
              /\ n < j /\ f.lines[j] # Blank /\ (isComment(f.lines[j]) => j = n + 1)
              /\ \A m \in 1..Len(f.lines) : n < m /\ m < j => f.lines[m] = Blank
<1>1. Len(f.lines) \in Nat /\ DOMAIN f.lines = 1..Len(f.lines)
  BY FileParts
<1>2. n + 1 \in 1..Len(f.lines)
  BY <1>1
<1>3. CASE f.lines[n + 1] # Blank
  BY <1>1, <1>2, <1>3
<1>4. CASE f.lines[n + 1] = Blank
  <2>1. PICK j \in 1..Len(f.lines) :
           /\ j > n + 1 /\ f.lines[j] # Blank /\ ~isComment(f.lines[j])
           /\ \A k \in (n + 1)..(j - 1) : f.lines[k] = Blank
    BY <1>1, <1>2, <1>4 DEF readable
  <2>2. \A m \in 1..Len(f.lines) : n < m /\ m < j => m \in (n + 1)..(j - 1)
    BY <1>1
  <2> QED
    BY <1>1, <2>1, <2>2
<1> QED
  BY <1>3, <1>4

(* What the loop looks at first tells whether the next line is a comment.     *)
LEMMA FirstByte ==
    ASSUME NEW f \in Files, readable(f), NEW text \in Text,
           NEW n \in 0..Len(f.lines), Fresh(f, text, n),
           NEW j \in 1..Len(f.lines), n < j,
           \A m \in 1..Len(f.lines) : n < m /\ m < j => f.lines[m] = Blank,
           f.lines[j] # Blank, isComment(f.lines[j]) => j = n + 1
    PROVE  byteAt(text, offset(f, n) + 1) = "#" <=> isComment(f.lines[j])
<1> DEFINE b == offset(f, j - 1)
           line == f.lines[j]
           bytes == bytesOf(line)
           L == Len(bytes)
           o == offset(f, n)
<1>1. /\ L \in Nat /\ L >= 1 /\ b \in Nat /\ o \in Nat /\ o <= b
      /\ \A k \in 1..L : text[b + k] = bytes[k]
  <2>1. LineAt(f, text, n, j)
    BY LineInText
  <2> QED
    BY <2>1 DEF LineAt
<1>2. Len(text) \in Nat /\ Len(f.lines) \in Nat
  BY TextLength, OffsetIs
<1>3. b < Len(text)
  <2>1. b < offset(f, j) /\ offset(f, j) <= Len(text) /\ offset(f, j) \in Nat
    <3>1. LineAt(f, text, n, j)
      BY LineInText
    <3> QED
      BY <3>1 DEF LineAt
  <2> HIDE DEF b
  <2> QED
    BY <1>1, <1>2, <2>1
<1>4. line \in Line /\ wellFormed(line) /\ line # Blank
  <2>1. DOMAIN f.lines = 1..Len(f.lines)
    BY FileParts
  <2> QED
    BY <2>1, FileParts DEF readable
<1>5. CASE j # n + 1
  <2>1. n + 1 \in 1..Len(f.lines) /\ n < n + 1 /\ (n + 1) - 1 = n /\ n + 1 \in 0..(j - 1)
        /\ j - 1 \in 0..Len(f.lines)
    BY <1>2, <1>5
  <2>2. o < offset(f, n + 1) /\ offset(f, n + 1) \in Nat
    <3>1. offset(f, (n + 1) - 1) < offset(f, n + 1) /\ offset(f, n + 1) \in Nat
      <4>1. LineAt(f, text, n, n + 1)
        BY <2>1, LineInText
      <4> QED
        BY <4>1 DEF LineAt
    <3> QED
      BY <2>1, <3>1
  <2>3. offset(f, n + 1) <= b
    BY <2>1, OffsetsGrow
  <2> HIDE DEF b
  <2>4. o < o + 1 /\ o + 1 <= b /\ o + 1 \in Nat
    BY <1>1, <2>2, <2>3
  <2>5. text[o + 1] \in {"CR", "LF"}
    BY <2>4, BlankBytes DEF b
  <2>6. o + 1 \in 1..Len(text)
    BY <1>1, <1>2, <1>3, <2>4
  <2> QED
    BY <1>5, <2>5, <2>6 DEF byteAt
<1>6. CASE j = n + 1
  <2>1. o = b
    BY <1>2, <1>6
  <2> HIDE DEF b, bytes, L, o
  <2>2. byteAt(text, o + 1) = bytes[1]
    BY <1>1, <1>2, <1>3, <2>1 DEF byteAt
  <2>3. bytes[1] = "#" <=> isComment(line)
    <3>1. CASE isOption(line)
      <4>1. bytes[1] = word[line.key][1] /\ line.key \in Keys
        <5>1. /\ line.key \in Keys
              /\ \A k \in 1..Len(word[line.key]) : bytes[k] = word[line.key][k]
          BY <1>4, <3>1, OptionIs DEF bytes
        <5>2. 1 \in 1..Len(word[line.key])
          BY <5>1, WordIs
        <5> QED
          BY <5>1, <5>2
      <4>2. word[line.key][1] # "#"
        <5>1. 1 \in 1..Len(word[line.key])
          BY <4>1, WordIs
        <5> QED
          BY <4>1, <5>1, WordIs
      <4>3. ~isComment(line)
        <5>1. line \in [key : Keys, gap : Bytes, value : Bytes]
          BY <1>4, <3>1 DEF Line, isOption
        <5> QED
          BY <5>1 DEF isComment
      <4> QED
        BY <4>1, <4>2, <4>3
    <3>2. CASE isComment(line) /\ ~isOption(line)
      <4>1. line \in [comment : Bytes]
        BY <1>4, <3>2 DEF Line, isComment
      <4>2. line.comment \in Text /\ bytes = <<"#">> \o line.comment
        BY <1>4, <3>2, <4>1, BytesIsText DEF bytes, bytesOf
      <4>3. "#" \in Byte
        BY DEF Byte
      <4>4. bytes[1] = "#"
        BY <4>2, <4>3, TextLength DEF Text
      <4> QED
        BY <3>2, <4>4
    <3>3. CASE ~isComment(line) /\ ~isOption(line)
      <4>1. bytes = line.text /\ byteAt(line.text, 1) # "#"
        BY <1>4, <3>3, OtherIs DEF wellFormed, bytes
      <4>2. 1 \in 1..Len(line.text)
        BY <1>1, <4>1 DEF L
      <4> QED
        BY <3>3, <4>1, <4>2 DEF byteAt
    <3> QED
      BY <3>1, <3>2, <3>3
  <2> QED
    BY <2>2, <2>3 DEF o
<1> QED
  BY <1>5, <1>6

(* The loop goes on as long as there is another line.                         *)
LEMMA MoreLines ==
    ASSUME NEW f \in Files, readable(f), NEW text \in Text, Len(text) = Len(spelled(f)),
           NEW j \in 1..Len(f.lines)
    PROVE  offset(f, j) + 1 < behind(text) <=> j < Len(f.lines)
<1>1. Len(f.lines) \in Nat /\ Len(text) \in Nat /\ behind(text) = Len(text) + 1
  BY OffsetIs, TextLength
<1>2. offset(f, j) \in Nat /\ (j = Len(f.lines) => offset(f, j) = Len(text))
  BY LineStands
<1>3. j < Len(f.lines) => offset(f, j) < Len(text)
  <2> SUFFICES ASSUME j < Len(f.lines) PROVE offset(f, j) < Len(text)
    OBVIOUS
  <2>1. j + 1 \in 1..Len(f.lines) /\ (j + 1) - 1 = j
    BY <1>1
  <2>2. /\ offset(f, (j + 1) - 1) < offset(f, j + 1) /\ offset(f, j + 1) \in Nat
        /\ offset(f, j + 1) <= Len(spelled(f))
    BY <2>1, LineStands
  <2> QED
    BY <1>1, <1>2, <2>1, <2>2
<1> QED
  BY <1>1, <1>2, <1>3

(* The first n lines are read: the cursor is behind them, the lines that      *)
(* follow stand in the buffer as they did in the file, and each option has    *)
(* what these lines say.                                                      *)
ReadTo(n) ==
    /\ cursor = offset(file, n) + 1
    /\ reading <=> n < Len(file.lines)
    /\ Fresh(file, buffer, n)
    /\ \A key \in Keys : has(key) = saysUpTo(file, key, n)

Follows ==
    /\ Placed
    /\ readable(file) => \E n \in 0..Len(file.lines) : ReadTo(n)

LEMMA InitFollows == Init => Follows
<1> SUFFICES ASSUME Init, readable(file) PROVE ReadTo(0) /\ 0 \in 0..Len(file.lines)
  BY InitPlaced DEF Follows
<1>1. file \in Files /\ buffer = spelled(file) /\ cursor = 1 /\ reading = TRUE
      /\ option = [k \in Keys |-> NULL]
  BY DEF Init
<1>2. Len(file.lines) \in Nat /\ offset(file, 0) = 0
  BY <1>1, OffsetIs
<1>3. 0 < Len(file.lines)
  <2>1. file.lines \in Seq(Line) /\ file.lines # <<>>
    BY <1>1, FileParts DEF readable
  <2> QED
    BY <1>2, <2>1, EmptySeq
<1>4. Fresh(file, buffer, 0)
  BY <1>1 DEF Fresh
<1>5. ASSUME NEW key \in Keys PROVE has(key) = saysUpTo(file, key, 0)
  <2>1. linesFor(file, key, 0) = {}
    BY DEF linesFor
  <2> QED
    BY <1>1, <2>1 DEF has, saysUpTo
<1> QED
  BY <1>1, <1>2, <1>3, <1>4, <1>5 DEF ReadTo

(* A turn that leaves buffer and options alone, over a line that says nothing *)
(* of an option.                                                              *)
LEMMA SkippedTo ==
    ASSUME Placed, readable(file), NEW n \in 0..Len(file.lines), ReadTo(n),
           NEW j \in 1..Len(file.lines), n < j,
           \A m \in 1..Len(file.lines) : n < m /\ m < j => file.lines[m] = Blank,
           ~isOption(file.lines[j]),
           NEW at, continueFrom(at), seek_next_line(buffer, at, "LINE_FEED") = offset(file, j) + 1,
           UNCHANGED <<file, buffer, option>>
    PROVE  ReadTo(j)'
<1>1. file \in Files /\ buffer \in Text /\ Len(file.lines) \in Nat
  BY FileParts DEF Placed
<1>2. cursor' = offset(file, j) + 1 /\ (reading' <=> cursor' < behind(buffer))
  BY DEF continueFrom
<1>3. Len(buffer) = Len(spelled(file))
  BY DEF ReadTo, Fresh
<1>4. reading' <=> j < Len(file.lines)
  BY <1>1, <1>2, <1>3, MoreLines
<1>5. Fresh(file, buffer, j)
  <2>1. offset(file, n) <= offset(file, j)
    BY <1>1, OffsetsGrow
  <2>2. offset(file, n) \in Nat /\ offset(file, j) \in Nat /\ Len(buffer) \in Nat
    BY <1>1, OffsetIs, TextLength
  <2>3. \A p \in 1..Len(buffer) : offset(file, j) < p => offset(file, n) < p
    BY <2>1, <2>2
  <2> QED
    BY <2>3 DEF ReadTo, Fresh
<1>6. ASSUME NEW key \in Keys PROVE has(key)' = saysUpTo(file, key, j)
  <2>1. has(key)' = has(key)
    BY DEF has
  <2>2. has(key) = saysUpTo(file, key, n)
    BY DEF ReadTo
  <2>3. saysUpTo(file, key, j) = saysUpTo(file, key, n)
    <3>1. n \in Nat /\ j \in Nat /\ \A m \in 1..j : m \in 1..Len(file.lines)
      BY <1>1
    <3>2. \A m \in 1..j : n < m /\ m < j => file.lines[m] = Blank
      BY <3>1
    <3> QED
      BY <1>1, <3>1, <3>2, SaysMore
  <2> QED
    BY <2>1, <2>2, <2>3
<1>7. (Fresh(file, buffer, j))' /\ \A key \in Keys : (has(key) = saysUpTo(file, key, j))'
  <2>1. file' = file /\ buffer' = buffer
    OBVIOUS
  <2>2. (Fresh(file, buffer, j))'
    BY <1>5, <2>1
  <2>3. \A key \in Keys : (has(key) = saysUpTo(file, key, j))'
    BY <1>6, <2>1
  <2> QED
    BY <2>2, <2>3
<1> QED
  BY <1>2, <1>4, <1>7 DEF ReadTo

(* A turn that reads an option: the one the next line is for, and what the    *)
(* line says of it.                                                           *)
LEMMA ReadAnOption ==
    ASSUME Placed, readable(file), NEW n \in 0..Len(file.lines), ReadTo(n), reading,
           NEW j \in 1..Len(file.lines), n < j,
           \A m \in 1..Len(file.lines) : n < m /\ m < j => file.lines[m] = Blank,
           file.lines[j] # Blank, isOption(file.lines[j]),
           NEW key \in Keys, readOption(key)
    PROVE  ReadTo(j)'
<1> DEFINE f == file
           o == offset(f, n)
           e == offset(f, j)
           at == seek_next_alpha(buffer, o + 1)
           w == valueAfter(buffer, at.cursor)
           value == f.lines[j].value
           V == Len(value)
<1>1. f \in Files /\ buffer \in Text /\ Len(f.lines) \in Nat /\ cursor = o + 1 /\ Fresh(f, buffer, n)
  BY FileParts DEF Placed, ReadTo
<1>2. /\ value \in Text
      /\ \A k \in Keys : match(word[k], SubSeq(buffer, at.at, Len(buffer))) <=> k = f.lines[j].key
      /\ o < w.start /\ w.start <= Len(buffer) /\ w.start \in Nat
      /\ w.end = w.start + V
      /\ \A k \in 1..V : buffer[w.start + k - 1] = value[k] /\ value[k] # "NUL"
      /\ w.end <= e + 1 /\ w.end \in Nat
      /\ seek_next_line(buffer, w.cursor, "LINE_FEED") = e + 1
  <2>1. OptionAt(f, buffer, n, j)
    BY <1>1, OptionIsFound
  <2> QED
    BY <2>1 DEF OptionAt
<1>3. key = f.lines[j].key
  <2>1. names(key, at.at)
    BY <1>1 DEF readOption
  <2> QED
    BY <1>2, <2>1 DEF names
<1>4. PICK v :
         /\ v = valueAfter(buffer, seek_next_alpha(buffer, cursor).cursor)
         /\ v.start \in cursor..behind(buffer)
         /\ v.end \in v.start..behind(buffer)
         /\ v.cursor = IF v.end = behind(buffer) THEN v.end ELSE v.end + 1
         /\ v.cursor \in 1..behind(buffer)
         /\ buffer' = written(key, buffer, v)
         /\ option' = [option EXCEPT ![key] = v.start]
         /\ continueFrom(v.cursor)
         /\ file' = file
  BY ReadIs
<1>5. v = w
  BY <1>1, <1>4
<1> HIDE DEF w, at
<1>6. /\ v.start \in Nat \ {0} /\ v.start <= Len(buffer) /\ v.end = v.start + V
      /\ o < v.start /\ v.end <= e + 1 /\ v.end \in Nat /\ v.end <= behind(buffer)
      /\ \A k \in 1..V : buffer[v.start + k - 1] = value[k] /\ value[k] # "NUL"
      /\ seek_next_line(buffer, v.cursor, "LINE_FEED") = e + 1
      /\ e \in Nat /\ o \in Nat /\ Len(buffer) \in Nat
  <2>1. e \in Nat /\ o \in Nat /\ Len(buffer) \in Nat
    BY <1>1, OffsetIs, TextLength
  <2>2. v.end <= behind(buffer)
    BY <1>1, <1>4, TextLength
  <2> QED
    BY <1>2, <1>5, <2>1, <2>2
<1>7. /\ textAt(buffer', v.start) = IF key \in Lowered THEN to_lower(value) ELSE value
      /\ \A p \in 1..Len(buffer) : v.end < p => buffer'[p] = buffer[p]
  <2>1. v.start \in Nat \ {0} /\ v.start <= Len(buffer) /\ v.end = v.start + Len(value)
        /\ v.end <= behind(buffer)
        /\ \A k \in 1..Len(value) : buffer[v.start + k - 1] = value[k] /\ value[k] # "NUL"
    BY <1>6
  <2>2. buffer \in Text /\ value \in Text /\ buffer' = written(key, buffer, v)
    BY <1>1, <1>2, <1>4
  <2> HIDE DEF value, V, e, o, f
  <2>3. /\ textAt(written(key, buffer, v), v.start) = IF key \in Lowered THEN to_lower(value) ELSE value
        /\ \A p \in 1..Len(buffer) : v.end < p => written(key, buffer, v)[p] = buffer[p]
    BY <2>1, <2>2, ValueWritten
  <2> QED
    BY <2>2, <2>3
<1>8. /\ Placed'
      /\ \A k \in Keys : option[k] # NULL /\ option'[k] = option[k] => has(k)' = has(k)
  BY ReadKeepsPlaced
<1>9. buffer' \in Text /\ Len(buffer') = Len(buffer) /\ Len(buffer) = Len(spelled(f))
  <2>1. v.start \in 1..behind(buffer)
    BY <1>4, <1>6
  <2>2. Len(buffer') = Len(buffer)
    BY <1>1, <1>4, <2>1, WrittenIs
  <2> QED
    BY <1>1, <1>8, <2>2 DEF Placed, Fresh
<1>10. cursor' = e + 1 /\ (reading' <=> j < Len(f.lines))
  <2>1. cursor' = e + 1 /\ (reading' <=> cursor' < behind(buffer))
    BY <1>4, <1>6 DEF continueFrom
  <2> QED
    BY <1>1, <1>9, <2>1, MoreLines
<1>11. Fresh(f, buffer', j)
  <2> SUFFICES ASSUME NEW p \in 1..Len(buffer), e < p PROVE buffer'[p] = spelled(f)[p]
    BY <1>9 DEF Fresh
  <2>1. o <= e
    BY <1>1, OffsetsGrow
  <2>2. v.end <= Len(buffer) => v.end # e + 1
    <3> SUFFICES ASSUME v.end <= Len(buffer), v.end = e + 1 PROVE FALSE
      OBVIOUS
    <3>1. v.cursor = e + 2 /\ v.cursor \in 1..behind(buffer)
      BY <1>1, <1>4, <1>6, TextLength
    <3>2. e + 1 \in (e + 2)..behind(buffer)
      BY <1>1, <1>6, <3>1, LineAhead
    <3> QED
      BY <1>6, <3>2
  <2>3. buffer[p] = spelled(f)[p]
    <3>1. o < p
      BY <1>6, <2>1
    <3> QED
      BY <1>1, <3>1 DEF Fresh
  <2>4. v.end < p
    <3> HIDE DEF e
    <3> QED
      BY <1>6, <2>2
  <2> QED
    BY <1>7, <2>3, <2>4
<1>12. ASSUME NEW k \in Keys PROVE has(k)' = saysUpTo(f, k, j)
  <2>1. has(k) = saysUpTo(f, k, n)
    BY DEF ReadTo
  <2>2. saysUpTo(f, k, j) = IF k = key
                            THEN IF k \in Lowered THEN to_lower(value) ELSE value
                            ELSE saysUpTo(f, k, n)
    <3>1. n \in Nat /\ j \in Nat /\ \A m \in 1..j : m \in 1..Len(f.lines)
      BY <1>1
    <3>2. \A m \in 1..j : n < m /\ m < j => f.lines[m] = Blank
      BY <3>1
    <3> QED
      BY <1>1, <1>3, <3>1, <3>2, SaysMore
  <2>3. CASE k = key
    <3>1. option'[key] = v.start /\ v.start # NULL
      BY <1>4, <1>6, BotConfigAssumption DEF Placed
    <3>2. has(key)' = textAt(buffer', v.start)
      BY <3>1 DEF has
    <3> QED
      BY <1>7, <2>2, <2>3, <3>2
  <2>4. CASE k # key
    <3>1. option'[k] = option[k]
      BY <1>4, <2>4 DEF Placed
    <3>2. has(k)' = has(k)
      BY <1>8, <3>1 DEF has
    <3> QED
      BY <2>1, <2>2, <2>4, <3>2
  <2> QED
    BY <2>3, <2>4
<1>13. (Fresh(file, buffer, j))' /\ \A k \in Keys : (has(k) = saysUpTo(file, k, j))'
  <2>1. (Fresh(file, buffer, j))'
    BY <1>4, <1>11
  <2>2. \A k \in Keys : (has(k) = saysUpTo(file, k, j))'
    BY <1>4, <1>12
  <2> QED
    BY <2>1, <2>2
<1> QED
  BY <1>4, <1>10, <1>13 DEF ReadTo

LEMMA StepFollows == Follows /\ [Next]_vars => Follows'
<1> SUFFICES ASSUME Follows, [Next]_vars PROVE Follows'
  OBVIOUS
<1>1. Placed /\ Placed'
  BY NextKeepsPlaced DEF Follows
<1>2. CASE UNCHANGED vars
  <2>1. UNCHANGED <<file, buffer, cursor, option, reading>>
    BY <1>2 DEF vars
  <2>2. ASSUME NEW n PROVE ReadTo(n)' = ReadTo(n)
    BY <2>1 DEF ReadTo, has
  <2> QED
    BY <1>1, <2>1, <2>2 DEF Follows
<1>3. CASE Next
  <2>1. file' = file /\ reading
    BY <1>3 DEF Next, skipComment, skipLine, readOption
  <2> SUFFICES ASSUME readable(file) PROVE \E n \in 0..Len(file.lines) : ReadTo(n)'
    BY <1>1, <2>1 DEF Follows
  <2>2. PICK n \in 0..Len(file.lines) : ReadTo(n)
    BY DEF Follows
  <2>3. /\ file \in Files /\ buffer \in Text /\ Fresh(file, buffer, n)
        /\ cursor = offset(file, n) + 1 /\ n < Len(file.lines) /\ Len(file.lines) \in Nat
    BY <1>1, <2>1, <2>2, FileParts DEF Placed, ReadTo
  <2>4. PICK j \in 1..Len(file.lines) :
           /\ n < j /\ file.lines[j] # Blank /\ (isComment(file.lines[j]) => j = n + 1)
           /\ \A m \in 1..Len(file.lines) : n < m /\ m < j => file.lines[m] = Blank
    BY <2>3, NextLine
  <2>5. byteAt(buffer, cursor) = "#" <=> isComment(file.lines[j])
    BY <2>3, <2>4, FirstByte
  <2>6. CASE isComment(file.lines[j])
    <3>1. skipComment
      BY <1>3, <2>5, <2>6 DEF Next, skipLine, readOption
    <3>2. ~isOption(file.lines[j])
      <4>1. file.lines[j] \in Line
        BY <2>3, FileParts
      <4>2. file.lines[j] \in [comment : Bytes]
        BY <2>6, <4>1 DEF isComment, Line
      <4> QED
        BY <4>2 DEF isOption
    <3>3. seek_next_line(buffer, cursor, "LINE_FEED") = offset(file, j) + 1
      <4>1. /\ offset(file, n) \in Nat /\ offset(file, j) \in Nat
            /\ offset(file, j - 1) < offset(file, j) /\ j - 1 = n
        <5>1. offset(file, j) \in Nat /\ offset(file, j - 1) < offset(file, j)
          <6>1. LineAt(file, buffer, n, j)
            BY <2>3, <2>4, LineInText
          <6> QED
            BY <6>1 DEF LineAt
        <5> QED
          BY <2>3, <2>4, <2>6, <5>1, OffsetIs
      <4>2. /\ cursor \in Nat /\ offset(file, j - 1) < cursor /\ cursor <= offset(file, j) + 1
            /\ cursor # offset(file, j) + 1
        BY <2>3, <4>1
      <4> QED
        BY <2>3, <2>4, <4>2, OnToNextLine
    <3>4. ReadTo(j)'
      BY <1>1, <2>2, <2>4, <3>1, <3>2, <3>3, SkippedTo DEF skipComment
    <3> QED
      BY <2>3, <3>4
  <2>7. CASE ~isComment(file.lines[j]) /\ ~isOption(file.lines[j])
    <3> DEFINE at == seek_next_alpha(buffer, offset(file, n) + 1)
    <3>1. /\ \A key \in Keys : ~match(word[key], SubSeq(buffer, at.at, Len(buffer)))
          /\ seek_next_line(buffer, at.cursor, "LINE_FEED") = offset(file, j) + 1
      BY <2>3, <2>4, <2>7, OtherIsSkipped
    <3>2. at = seek_next_alpha(buffer, cursor)
      BY <2>3
    <3> HIDE DEF at
    <3>3. skipLine
      <4>1. ~skipComment
        BY <2>5, <2>7 DEF skipComment
      <4>2. \A key \in Keys : ~readOption(key)
        BY <3>1, <3>2 DEF readOption, names
      <4> QED
        BY <1>3, <4>1, <4>2 DEF Next
    <3>4. continueFrom(at.cursor) /\ UNCHANGED <<file, buffer, option>>
      BY <3>2, <3>3 DEF skipLine
    <3>5. ReadTo(j)'
      BY <1>1, <2>2, <2>4, <2>7, <3>1, <3>4, SkippedTo
    <3> QED
      BY <2>3, <3>5
  <2>8. CASE isOption(file.lines[j]) /\ ~isComment(file.lines[j])
    <3> DEFINE at == seek_next_alpha(buffer, offset(file, n) + 1)
    <3>1. /\ file.lines[j].key \in Keys
          /\ \A key \in Keys :
                match(word[key], SubSeq(buffer, at.at, Len(buffer))) <=> key = file.lines[j].key
      <4>1. OptionAt(file, buffer, n, j)
        BY <2>3, <2>4, <2>8, OptionIsFound
      <4> QED
        BY <4>1 DEF OptionAt, at
    <3>2. at = seek_next_alpha(buffer, cursor)
      BY <2>3
    <3> HIDE DEF at
    <3>3. PICK key \in Keys : readOption(key)
      <4>1. ~skipComment
        BY <2>5, <2>8 DEF skipComment
      <4>2. ~skipLine
        BY <3>1, <3>2 DEF skipLine, names
      <4> QED
        BY <1>3, <4>1, <4>2 DEF Next
    <3>4. ReadTo(j)'
      BY <1>1, <2>1, <2>2, <2>4, <2>8, <3>3, ReadAnOption
    <3> QED
      BY <2>3, <3>4
  <2> QED
    BY <2>6, <2>7, <2>8
<1> QED
  BY <1>2, <1>3

(* In whatever order the options come, with comments, blank lines and with    *)
(* options said twice, mainCRTStartup reads of every readable file what it    *)
(* says of each option, and nothing for one it does not say.                  *)
THEOREM AlwaysEveryOptionIsRead == Spec => []EveryOptionIsRead
<1>1. Follows => EveryOptionIsRead
  <2> SUFFICES ASSUME Follows, ~reading, readable(file), NEW key \in Keys
               PROVE  has(key) = says(file, key)
    BY DEF EveryOptionIsRead
  <2>1. PICK n \in 0..Len(file.lines) : ReadTo(n)
    BY DEF Follows
  <2>2. file \in Files /\ Len(file.lines) \in Nat
    BY FileParts DEF Follows, Placed
  <2>3. n = Len(file.lines)
    BY <2>1, <2>2 DEF ReadTo
  <2> QED
    BY <2>1, <2>2, <2>3, SaysIs DEF ReadTo
<1> QED
  BY <1>1, InitFollows, StepFollows, PTL DEF Spec
=============================================================================
