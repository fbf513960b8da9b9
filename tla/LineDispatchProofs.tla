-------------------------- MODULE LineDispatchProofs --------------------------
(* Proofs about LineDispatch, for every conversation and wherever the chunks  *)
(* end.                                                                       *)
EXTENDS LineDispatch, TLAPS, FiniteSetTheorems, SequenceTheorems, WellFoundedInduction

(* The bytes a line may hold in front of its end, and all that are sent.      *)
(* What the provers are not told of STRING is who its members are.            *)
Part ==
    (STRING \cup {"P", "I", "NG", "RIVM", "SG", "@", ";", ":", " ", "#", "!", "=", "broadcaster", "/",
                  "mod", "subscriber", "user-id", "display-name"}
            \cup {Digits[i] : i \in 1..10}) \ {"CR", "LF"}
Byte == Part \cup {"CR", "LF"}

-----------------------------------------------------------------------------
(* Numbers.                                                                   *)

LEMMA LeastExists ==
    ASSUME NEW T \in SUBSET Nat, T # {}
    PROVE  \E n \in T : \A m \in T : n <= m
<1> DEFINE upTo == {0..n : n \in T}
<1>1. upTo \subseteq FiniteSubsetsOf(Nat) /\ upTo # {}
  <2>1. ASSUME NEW n \in T PROVE 0..n \in SUBSET Nat /\ IsFiniteSet(0..n)
    BY FS_Interval
  <2> QED
    BY <2>1 DEF FiniteSubsetsOf
<1>2. \E x \in upTo : \A y \in upTo : ~(<<y, x>> \in StrictSubsetOrdering(Nat))
  <2>1. IsWellFoundedOn(StrictSubsetOrdering(Nat), FiniteSubsetsOf(Nat))
    BY FS_StrictSubsetOrderingWellFounded
  <2> HIDE DEF upTo
  <2> QED
    BY <1>1, <2>1, WFMin
<1>3. PICK n \in T : \A m \in T : <<0..m, 0..n>> \notin StrictSubsetOrdering(Nat)
  BY <1>2
<1>4. ASSUME NEW m \in T, m < n PROVE FALSE
  <2>1. 0..m \subseteq 0..n /\ n \in 0..n /\ n \notin 0..m /\ 0..n \subseteq Nat
    BY <1>4
  <2> QED
    BY <1>3, <2>1 DEF StrictSubsetOrdering
<1> QED
  BY <1>4

(* What holds at 0 and is passed on from each number to the next holds of all *)
(* of them.                                                                   *)
LEMMA Induction ==
    ASSUME NEW N \in Nat, NEW G, 0 \in G,
           \A n \in 1..N : n - 1 \in G => n \in G
    PROVE  0..N \subseteq G
<1> DEFINE T == {n \in 0..N : n \notin G}
<1>1. CASE T = {}
  BY <1>1
<1>2. CASE T # {}
  <2> HIDE DEF T
  <2>0. T \in SUBSET Nat
    BY DEF T
  <2>1. PICK n \in T : \A m \in T : n <= m
    BY <1>2, <2>0, LeastExists
  <2> USE DEF T
  <2>2. n \in 1..N /\ n - 1 \in 0..N /\ n - 1 \notin T
    BY <2>1
  <2> QED
    BY <2>1, <2>2
<1> QED
  BY <1>1, <1>2

-----------------------------------------------------------------------------
(* The digits of a number.                                                    *)

Digit == {Digits[i] : i \in 1..10}

digitsUpTo(u) ==
    CHOOSE d : d = [n \in 0..u |->
                       <<Digits[(n % 10) + 1]>> \o (IF n < 10 THEN <<>> ELSE d[n \div 10])]

(* The digits of u, the lowest first, and what append_u64 makes of them.      *)
LEMMA DigitsAre ==
    ASSUME NEW u \in Nat
    PROVE  LET d == digitsUpTo(u) IN
           /\ d \in [0..u -> Seq(Digit)]
           /\ \A n \in 0..u :
                 d[n] = <<Digits[(n % 10) + 1]>> \o (IF n < 10 THEN <<>> ELSE d[n \div 10])
           /\ append_u64(u) = [k \in 1..Len(d[u]) |-> d[u][Len(d[u]) + 1 - k]]
<1> DEFINE body(d, n) == <<Digits[(n % 10) + 1]>> \o (IF n < 10 THEN <<>> ELSE d[n \div 10])
           begun(d, n) == d \in [0..n -> Seq(Digit)] /\ \A k \in 0..n : d[k] = body(d, k)
           G == {n \in 0..u : \E d : begun(d, n)}
<1>1. ASSUME NEW n \in Nat
      PROVE  /\ <<Digits[(n % 10) + 1]>> \in Seq(Digit)
             /\ n \div 10 \in Nat /\ (n >= 10 => n \div 10 < n)
  <2>1. (n % 10) + 1 \in 1..10
    OBVIOUS
  <2>2. Digits[(n % 10) + 1] \in Digit
    BY <2>1 DEF Digit
  <2>3. n \div 10 \in Nat /\ (n >= 10 => n \div 10 < n)
    OBVIOUS
  <2> QED
    BY <2>2, <2>3
<1>2. 0 \in G
  <2> DEFINE d == [k \in 0..0 |-> <<Digits[1]>>]
  <2>1. d \in [0..0 -> Seq(Digit)]
    BY <1>1 DEF Digit
  <2>2. d[0] = body(d, 0)
    <3>1. <<Digits[1]>> \in Seq(Digit) /\ 0 % 10 = 0 /\ 0 < 10
      BY DEF Digit
    <3>2. <<Digits[1]>> \o <<>> = <<Digits[1]>>
      BY <3>1, ConcatEmptySeq
    <3> QED
      BY <3>1, <3>2
  <2>3. \A k \in 0..0 : k = 0
    OBVIOUS
  <2>4. begun(d, 0)
    <3> HIDE DEF d, body
    <3> QED
      BY <2>1, <2>2, <2>3
  <2> HIDE DEF begun
  <2> QED
    BY <2>4
<1>3. ASSUME NEW n \in 1..u, n - 1 \in G
      PROVE  n \in G
  <2>1. PICK d : begun(d, n - 1)
    BY <1>3
  <2> DEFINE w == [k \in 0..n |-> IF k = n THEN body(d, n) ELSE d[k]]
  <2>2. body(d, n) \in Seq(Digit)
    <3>1. n >= 10 => d[n \div 10] \in Seq(Digit)
      <4>1. n >= 10 => n \div 10 \in 0..(n - 1)
        BY <1>1
      <4> QED
        BY <2>1, <4>1
    <3>2. (IF n < 10 THEN <<>> ELSE d[n \div 10]) \in Seq(Digit)
      BY <3>1
    <3> QED
      BY <1>1, <3>2, ConcatProperties
  <2>3. w \in [0..n -> Seq(Digit)]
    <3> HIDE DEF body
    <3> QED
      BY <2>1, <2>2
  <2>4. ASSUME NEW k \in 0..n PROVE w[k] = body(w, k)
    <3>1. k >= 10 => k \div 10 \in 0..n /\ k \div 10 # n /\ k \div 10 \in 0..(n - 1)
      BY <1>1
    <3>2. k >= 10 => w[k \div 10] = d[k \div 10]
      BY <3>1
    <3>3. body(w, k) = body(d, k)
      <4> HIDE DEF w
      <4> QED
        BY <3>2
    <3> HIDE DEF body
    <3>4. CASE k = n
      BY <3>3, <3>4
    <3>5. CASE k # n
      <4>1. k \in 0..(n - 1)
        BY <3>5
      <4> QED
        BY <2>1, <3>3, <3>5, <4>1
    <3> QED
      BY <3>4, <3>5
  <2>5. begun(w, n)
    <3> HIDE DEF body, w
    <3> QED
      BY <2>3, <2>4
  <2> HIDE DEF begun
  <2> QED
    BY <2>5
<1>4. PICK d : begun(d, u)
  <2> HIDE DEF G
  <2>0. \A n \in 1..u : n - 1 \in G => n \in G
    BY <1>3
  <2>1. 0..u \subseteq G
    BY <1>2, <2>0, Induction
  <2>2. u \in G
    BY <2>1
  <2> USE DEF G
  <2> HIDE DEF begun
  <2> QED
    BY <2>2
<1> DEFINE is == CHOOSE x : x = [n \in 0..u |-> body(x, n)]
<1>5. d = [k \in 0..u |-> body(d, k)]
  <2> HIDE DEF body
  <2> QED
    BY <1>4
<1>6. is = [k \in 0..u |-> body(is, k)]
  <2> HIDE DEF body
  <2> QED
    BY <1>5
<1>7. digitsUpTo(u) = is /\ append_u64(u) = [k \in 1..Len(is[u]) |-> is[u][Len(is[u]) + 1 - k]]
  BY DEF digitsUpTo, append_u64
<1> HIDE DEF is
<1>8. \A k \in 0..u : is[k] = body(is, k)
  <2> HIDE DEF body
  <2> QED
    BY <1>6
<1>9. is \in [0..u -> Seq(Digit)]
  <2> DEFINE T == {n \in 0..u : \A k \in 0..n : is[k] \in Seq(Digit)}
  <2>1. 0 \in T
    <3>1. body(is, 0) \in Seq(Digit)
      <4>1. (IF 0 < 10 THEN <<>> ELSE is[0 \div 10]) \in Seq(Digit) /\ <<Digits[(0 % 10) + 1]>> \in Seq(Digit)
        BY <1>1
      <4> QED
        BY <4>1, ConcatProperties
    <3>2. is[0] \in Seq(Digit)
      <4> HIDE DEF body
      <4> QED
        BY <1>8, <3>1
    <3>3. \A k \in 0..0 : k = 0
      OBVIOUS
    <3> QED
      BY <3>2, <3>3
  <2>2. ASSUME NEW n \in 1..u, n - 1 \in T PROVE n \in T
    <3>1. is[n] \in Seq(Digit)
      <4>1. n >= 10 => n \div 10 \in 0..(n - 1)
        BY <1>1
      <4>2. (IF n < 10 THEN <<>> ELSE is[n \div 10]) \in Seq(Digit)
        BY <2>2, <4>1
      <4>3. body(is, n) \in Seq(Digit)
        <5>1. <<Digits[(n % 10) + 1]>> \in Seq(Digit)
          BY <1>1
        <5> QED
          BY <4>2, <5>1, ConcatProperties
      <4> HIDE DEF body
      <4> QED
        BY <1>8, <4>3
    <3>2. \A k \in 0..n : k = n \/ k \in 0..(n - 1)
      OBVIOUS
    <3> QED
      BY <2>2, <3>1, <3>2
  <2> HIDE DEF T
  <2>3. \A n \in 1..u : n - 1 \in T => n \in T
    BY <2>2
  <2>4. u \in T
    <3>1. 0..u \subseteq T
      BY <2>1, <2>3, Induction
    <3> QED
      BY <3>1
  <2> USE DEF T
  <2> HIDE DEF body
  <2> QED
    BY <1>6, <2>4
<1> HIDE DEF begun
<1> QED
  BY <1>7, <1>8, <1>9

LEMMA NumberIs ==
    ASSUME NEW u \in Nat
    PROVE  append_u64(u) \in Seq(Digit)
<1> DEFINE d == digitsUpTo(u)[u]
           N == Len(d)
<1>1. d \in Seq(Digit) /\ append_u64(u) = [k \in 1..N |-> d[N + 1 - k]]
  BY DigitsAre
<1> HIDE DEF d
<1>2. N \in Nat /\ \A k \in 1..N : d[k] \in Digit
  BY <1>1, LenProperties, ElementOfSeq
<1>3. \A k \in 1..N : N + 1 - k \in 1..N
  BY <1>2
<1>4. [k \in 1..N |-> d[N + 1 - k]] \in [1..N -> Digit]
  BY <1>2, <1>3
<1> QED
  BY <1>1, <1>2, <1>4, IsASeq

-----------------------------------------------------------------------------
(* What the server sends.                                                     *)

Sent == [line : Nat, part : Byte]

LEMMA SeqOf ==
    ASSUME NEW n \in Nat, NEW S, NEW s \in [1..n -> S]
    PROVE  s \in Seq(S) /\ Len(s) = n
  OBVIOUS

LEMMA Two ==
    ASSUME NEW S, NEW a \in S, NEW b \in S
    PROVE  <<a, b>> \in Seq(S)
  OBVIOUS

LEMMA Three ==
    ASSUME NEW S, NEW a \in S, NEW b \in S, NEW c \in S
    PROVE  <<a, b, c>> \in Seq(S)
  OBVIOUS

LEMMA Literals ==
    /\ Bytes \subseteq Seq(Part) /\ Seq(Digit) \subseteq Seq(Part) /\ <<>> \in Seq(Part)
    /\ PING \in Seq(Part) /\ PRIVMSG \in Seq(Part)
    /\ \A t \in {Broadcaster, Mod, Subscriber, UserId, DisplayName} : t \in Seq(Part)
    /\ \A c \in {"@", ";", ":", " ", "#", "!", "0", "1"} : c \in Part /\ <<c>> \in Seq(Part)
<1>1. Digit \subseteq Part /\ "0" \in Part /\ "1" \in Part
  <2>1. \A i \in 1..10 : Digits[i] \notin {"CR", "LF"}
    BY DEF Digits
  <2>2. Digits[1] = "0" /\ Digits[2] = "1"
    BY DEF Digits
  <2>3. Digit \subseteq Part
    BY <2>1 DEF Digit, Part
  <2>4. Digits[1] \in Digit /\ Digits[2] \in Digit
    BY DEF Digit
  <2> QED
    BY <2>2, <2>3, <2>4
<1>2. Bytes \subseteq Seq(Part) /\ Seq(Digit) \subseteq Seq(Part) /\ <<>> \in Seq(Part)
  <2>1. STRING \ {"CR", "LF"} \subseteq Part
    BY DEF Part
  <2>2. Bytes \subseteq Seq(Part)
    BY <2>1, SeqMonotonic DEF Bytes
  <2>3. Seq(Digit) \subseteq Seq(Part)
    BY <1>1, SeqMonotonic
  <2> QED
    BY <2>2, <2>3
<1>3. PING \in Seq(Part) /\ PRIVMSG \in Seq(Part)
  BY DEF PING, PRIVMSG, Part
<1>4. \A t \in {Broadcaster, Mod, Subscriber, UserId, DisplayName} : t \in Seq(Part)
  <2>1. \A c \in {"broadcaster", "/", "mod", "=", "subscriber", "user-id", "display-name"} : c \in Part
    BY DEF Part
  <2>2. Broadcaster \in Seq(Part) /\ Mod \in Seq(Part)
    BY <2>1, Two DEF Broadcaster, Mod
  <2>3. Subscriber \in Seq(Part) /\ UserId \in Seq(Part) /\ DisplayName \in Seq(Part)
    BY <2>1, Two DEF Subscriber, UserId, DisplayName
  <2> QED
    BY <2>2, <2>3
<1>5. \A c \in {"@", ";", ":", " ", "#", "!"} : c \in Part
  BY DEF Part
<1>6. \A c \in Part : <<c>> \in Seq(Part)
  OBVIOUS
<1> QED
  BY <1>1, <1>2, <1>3, <1>4, <1>5, <1>6

LEMMA Joined ==
    ASSUME NEW S, NEW a \in Seq(S), NEW b \in Seq(S)
    PROVE  a \o b \in Seq(S)
  BY ConcatProperties

LEMMA TagsAre ==
    ASSUME NEW author \in Viewer
    PROVE  tagsOf(author) \in Seq(Part)
<1>1. author.displayName \in Seq(Part) /\ append_u64(author.id) \in Seq(Part)
  BY Literals, NumberIs DEF Viewer
<1>2. ASSUME NEW role PROVE <<bit(author, role), ";">> \in Seq(Part)
  <2>1. bit(author, role) \in Part /\ ";" \in Part
    BY Literals DEF bit
  <2> QED
    BY <2>1, Two
<1>3. <<"1", ";">> \in Seq(Part)
  BY Literals, Two
<1>4. (IF "broadcaster" \in author.roles THEN Broadcaster \o <<"1", ";">> ELSE <<>>) \in Seq(Part)
  BY <1>3, Literals, Joined
<1> DEFINE a == <<"@">> \o (IF "broadcaster" \in author.roles THEN Broadcaster \o <<"1", ";">> ELSE <<>>)
           b == a \o DisplayName \o author.displayName \o <<";">>
           c == b \o Mod \o <<bit(author, "moderator"), ";">>
           d == c \o Subscriber \o <<bit(author, "subscriber"), ";">>
           e == d \o UserId \o append_u64(author.id) \o <<" ">>
<1>5. a \in Seq(Part)
  BY <1>4, Literals, Joined
<1>6. b \in Seq(Part)
  <2> HIDE DEF a
  <2>1. a \o DisplayName \in Seq(Part)
    BY <1>5, Literals, Joined
  <2>2. a \o DisplayName \o author.displayName \in Seq(Part)
    BY <1>1, <2>1, Joined
  <2> QED
    BY <2>2, Literals, Joined
<1>7. c \in Seq(Part)
  <2> HIDE DEF b
  <2>1. b \o Mod \in Seq(Part)
    BY <1>6, Literals, Joined
  <2> QED
    BY <1>2, <2>1, Joined
<1>8. d \in Seq(Part)
  <2> HIDE DEF c
  <2>1. c \o Subscriber \in Seq(Part)
    BY <1>7, Literals, Joined
  <2> QED
    BY <1>2, <2>1, Joined
<1>9. e \in Seq(Part)
  <2> HIDE DEF d
  <2>1. d \o UserId \in Seq(Part)
    BY <1>8, Literals, Joined
  <2>2. d \o UserId \o append_u64(author.id) \in Seq(Part)
    BY <1>1, <2>1, Joined
  <2> QED
    BY <2>2, Literals, Joined
<1>10. tagsOf(author) = e
  BY DEF tagsOf
<1> QED
  BY <1>9, <1>10

LEMMA TextIs ==
    ASSUME NEW said \in Said
    PROVE  textOf(said) \in Seq(Part) /\ (said.kind = "PING" => textOf(said) = PING)
<1>1. CASE said.kind = "PING"
  BY <1>1, Literals DEF textOf
<1>2. CASE said.kind # "PING"
  <2>1. said \in [kind : {"chat"}, author : Viewer, tagged : BOOLEAN,
                  channel : Bytes, cmd : Bytes, cmdMessage : Bytes]
    BY <1>2 DEF Said
  <2>2. /\ said.channel \in Seq(Part) /\ said.cmd \in Seq(Part) /\ said.cmdMessage \in Seq(Part)
        /\ said.author \in Viewer
    BY <2>1, Literals
  <2> DEFINE tags == IF said.tagged THEN tagsOf(said.author) ELSE <<>>
             a == tags \o <<":">> \o PRIVMSG \o <<" ", "#">> \o said.channel
             b == a \o <<" ", ":", "!">> \o said.cmd \o <<" ">> \o said.cmdMessage
  <2>3. tags \in Seq(Part)
    BY <2>2, TagsAre, Literals
  <2>4. <<" ", "#">> \in Seq(Part) /\ <<" ", ":", "!">> \in Seq(Part)
    <3>1. " " \in Part /\ "#" \in Part /\ ":" \in Part /\ "!" \in Part
      BY Literals
    <3> QED
      BY <3>1, Two, Three
  <2>5. a \in Seq(Part)
    <3> HIDE DEF tags
    <3>1. tags \o <<":">> \in Seq(Part)
      BY <2>3, Literals, Joined
    <3>2. tags \o <<":">> \o PRIVMSG \in Seq(Part)
      BY <3>1, Literals, Joined
    <3>3. tags \o <<":">> \o PRIVMSG \o <<" ", "#">> \in Seq(Part)
      BY <2>4, <3>2, Joined
    <3> QED
      BY <2>2, <3>3, Joined
  <2>6. b \in Seq(Part)
    <3> HIDE DEF a
    <3>1. a \o <<" ", ":", "!">> \in Seq(Part)
      BY <2>4, <2>5, Joined
    <3>2. a \o <<" ", ":", "!">> \o said.cmd \in Seq(Part)
      BY <2>2, <3>1, Joined
    <3>3. a \o <<" ", ":", "!">> \o said.cmd \o <<" ">> \in Seq(Part)
      BY <3>2, Literals, Joined
    <3> QED
      BY <2>2, <3>3, Joined
  <2>7. textOf(said) = b
    BY <1>2 DEF textOf
  <2> QED
    BY <1>2, <2>6, <2>7
<1> QED
  BY <1>1, <1>2

(* The bytes of a line: its text, in which there is no line break, and one.   *)
LEMMA BytesAre ==
    ASSUME lines \in Conversations, NEW n \in 1..Len(lines)
    PROVE  LET text == textOf(lines[n])
               L == Len(text) IN
           /\ lines[n] \in Said /\ text \in Seq(Part) /\ L \in Nat
           /\ bytesOf(n) \in Seq(Sent) /\ Len(bytesOf(n)) = L + 2
           /\ \A k \in 1..L : bytesOf(n)[k] = [line |-> n, part |-> text[k]] /\ text[k] \in Part
           /\ bytesOf(n)[L + 1] = [line |-> n, part |-> "CR"]
           /\ bytesOf(n)[L + 2] = [line |-> n, part |-> "LF"]
<1> DEFINE text == textOf(lines[n])
           L == Len(text)
           full == text \o <<"CR", "LF">>
<1>1. lines \in Seq(Said)
  BY LineDispatchAssumption
<1>2. lines[n] \in Said
  BY <1>1, ElementOfSeq
<1>3. text \in Seq(Part) /\ L \in Nat /\ \A k \in 1..L : text[k] \in Part
  BY <1>2, TextIs, LenProperties, ElementOfSeq
<1> HIDE DEF text
<1>4. text \in Seq(Byte) /\ <<"CR", "LF">> \in Seq(Byte)
  <2>1. Part \subseteq Byte
    BY DEF Byte
  <2> QED
    BY <1>3, <2>1, SeqMonotonic DEF Byte
<1>5. /\ full \in Seq(Byte) /\ Len(full) = L + 2
      /\ \A k \in 1..L : full[k] = text[k]
      /\ full[L + 1] = "CR" /\ full[L + 2] = "LF"
  BY <1>3, <1>4, ConcatProperties
<1> HIDE DEF full
<1>6. bytesOf(n) = [k \in 1..(L + 2) |-> [line |-> n, part |-> full[k]]]
  BY <1>5 DEF bytesOf, full, text
<1>7. L + 2 \in Nat /\ \A k \in 1..(L + 2) : full[k] \in Byte
  BY <1>3, <1>5, ElementOfSeq
<1>8. n \in Nat
  OBVIOUS
<1>9. bytesOf(n) \in Seq(Sent) /\ Len(bytesOf(n)) = L + 2
  <2>1. [k \in 1..(L + 2) |-> [line |-> n, part |-> full[k]]] \in [1..(L + 2) -> Sent]
    BY <1>7, <1>8 DEF Sent
  <2> DEFINE s == [k \in 1..(L + 2) |-> [line |-> n, part |-> full[k]]]
  <2>2. s \in Seq(Sent) /\ Len(s) = L + 2
    <3> HIDE DEF s
    <3> QED
      BY <1>7, <2>1, SeqOf DEF s
  <2> QED
    BY <1>6, <2>2
<1>10. \A k \in 1..(L + 2) : bytesOf(n)[k] = [line |-> n, part |-> full[k]]
  BY <1>6
<1>11. L + 1 \in 1..(L + 2) /\ L + 2 \in 1..(L + 2) /\ \A k \in 1..L : k \in 1..(L + 2)
  BY <1>3
<1> QED
  BY <1>2, <1>3, <1>5, <1>9, <1>10, <1>11 DEF text

sentUpTo ==
    CHOOSE u : u = [n \in 0..Len(lines) |-> IF n = 0 THEN <<>> ELSE u[n - 1] \o bytesOf(n)]

(* How many bytes the first n lines take.                                     *)
offset(n) == Len(sentUpTo[n])

LEMMA SentIs ==
    ASSUME lines \in Conversations
    PROVE  /\ Len(lines) \in Nat
           /\ server_sends = sentUpTo[Len(lines)]
           /\ sentUpTo[0] = <<>>
           /\ \A n \in 0..Len(lines) : sentUpTo[n] \in Seq(Sent)
           /\ \A n \in 1..Len(lines) : sentUpTo[n] = sentUpTo[n - 1] \o bytesOf(n)
<1> DEFINE N == Len(lines)
           body(u, k) == IF k = 0 THEN <<>> ELSE u[k - 1] \o bytesOf(k)
           begun(u, n) == u \in [0..n -> Seq(Sent)] /\ \A k \in 0..n : u[k] = body(u, k)
           G == {n \in 0..N : \E u : begun(u, n)}
<1>1. N \in Nat /\ \A k \in 1..N : bytesOf(k) \in Seq(Sent)
  <2>1. lines \in Seq(Said)
    BY LineDispatchAssumption
  <2> QED
    BY <2>1, LenProperties, BytesAre
<1>2. 0 \in G
  <2> DEFINE u == [k \in 0..0 |-> <<>>]
  <2>1. begun(u, 0)
    OBVIOUS
  <2> HIDE DEF begun
  <2> QED
    BY <1>1, <2>1
<1>3. ASSUME NEW n \in 1..N, n - 1 \in G
      PROVE  n \in G
  <2>1. PICK u : begun(u, n - 1)
    BY <1>3
  <2> DEFINE last == u[n - 1] \o bytesOf(n)
             w == [k \in 0..n |-> IF k = n THEN last ELSE u[k]]
  <2>2. n \in Nat /\ n # 0 /\ n - 1 \in 0..(n - 1) /\ u[n - 1] \in Seq(Sent)
    BY <1>1, <2>1
  <2>3. last \in Seq(Sent)
    BY <1>1, <2>2, ConcatProperties
  <2>4. w \in [0..n -> Seq(Sent)]
    <3> HIDE DEF last
    <3> QED
      BY <2>1, <2>2, <2>3
  <2>5. ASSUME NEW k \in 0..n PROVE w[k] = body(w, k)
    <3>1. CASE k = n
      <4>1. w[n - 1] = u[n - 1]
        BY <2>2
      <4> QED
        BY <2>2, <3>1, <4>1
    <3>2. CASE k # n
      <4>1. k \in 0..(n - 1) /\ (k # 0 => k - 1 \in 0..(n - 1) /\ k - 1 # n)
        BY <2>2, <3>2
      <4>2. w[k] = u[k] /\ (k # 0 => w[k - 1] = u[k - 1])
        BY <2>2, <3>2, <4>1
      <4> QED
        BY <2>1, <4>1, <4>2
    <3> QED
      BY <3>1, <3>2
  <2>6. begun(w, n)
    <3> HIDE DEF body, w
    <3> QED
      BY <2>4, <2>5
  <2> HIDE DEF begun
  <2> QED
    BY <1>1, <2>6
<1>4. PICK u : begun(u, N)
  <2> HIDE DEF G
  <2>0. \A n \in 1..N : n - 1 \in G => n \in G
    BY <1>3
  <2>1. 0..N \subseteq G
    BY <1>1, <1>2, <2>0, Induction
  <2>2. N \in G
    BY <1>1, <2>1
  <2> USE DEF G
  <2> HIDE DEF begun
  <2> QED
    BY <2>2
<1> DEFINE is == CHOOSE x : x = [n \in 0..N |-> body(x, n)]
<1>5. u = [k \in 0..N |-> body(u, k)]
  <2> HIDE DEF body
  <2> QED
    BY <1>4
<1>6. is = [k \in 0..N |-> body(is, k)]
  <2> HIDE DEF body
  <2> QED
    BY <1>5
<1>7. sentUpTo = is /\ server_sends = is[N]
  BY DEF sentUpTo, server_sends
<1> HIDE DEF is
<1>8. ASSUME NEW k \in 0..N PROVE is[k] = body(is, k)
  <2> HIDE DEF body
  <2> QED
    BY <1>6
<1>9. is[0] = <<>> /\ \A n \in 1..N : is[n] = is[n - 1] \o bytesOf(n)
  <2>1. 0 \in 0..N /\ \A n \in 1..N : n \in 0..N /\ n # 0
    BY <1>1
  <2>2. is[0] = <<>>
    BY <1>8, <2>1, Zenon
  <2>3. ASSUME NEW n \in 1..N PROVE is[n] = is[n - 1] \o bytesOf(n)
    <3> HIDE DEF N
    <3> QED
      BY <1>8, <2>1, Zenon
  <2> QED
    BY <2>2, <2>3
<1> HIDE DEF body, begun
<1> DEFINE T == {n \in 0..N : is[n] \in Seq(Sent)}
<1>10. 0..N \subseteq T
  <2>1. 0 \in T
    <3>1. <<>> \in Seq(Sent) /\ 0 \in 0..N
      BY <1>1
    <3> QED
      BY <1>9, <3>1, Zenon
  <2>2. ASSUME NEW n \in 1..N, n - 1 \in T PROVE n \in T
    <3>1. is[n - 1] \o bytesOf(n) \in Seq(Sent)
      BY <1>1, <2>2, ConcatProperties
    <3>2. is[n] \in Seq(Sent)
      BY <1>9, <3>1
    <3> QED
      BY <1>1, <3>2
  <2> HIDE DEF T
  <2>3. \A n \in 1..N : n - 1 \in T => n \in T
    BY <2>2
  <2> QED
    BY <1>1, <2>1, <2>3, Induction
<1> HIDE DEF N
<1> QED
  BY <1>1, <1>7, <1>9, <1>10 DEF N, T

LEMMA OffsetIs ==
    ASSUME lines \in Conversations
    PROVE  /\ Len(lines) \in Nat
           /\ offset(0) = 0
           /\ \A n \in 0..Len(lines) : offset(n) \in Nat
           /\ \A n \in 1..Len(lines) : offset(n) = offset(n - 1) + Len(textOf(lines[n])) + 2
           /\ server_sends \in Seq(Sent) /\ Len(server_sends) = offset(Len(lines))
<1>1. Len(lines) \in Nat
  BY SentIs
<1>2. offset(0) = 0
  BY SentIs, EmptySeq DEF offset
<1>3. ASSUME NEW n \in 0..Len(lines) PROVE offset(n) \in Nat
  BY SentIs, LenProperties DEF offset
<1>4. ASSUME NEW n \in 1..Len(lines) PROVE offset(n) = offset(n - 1) + Len(textOf(lines[n])) + 2
  <2>1. n - 1 \in 0..Len(lines)
    BY <1>1
  <2>2. /\ sentUpTo[n - 1] \in Seq(Sent) /\ bytesOf(n) \in Seq(Sent)
        /\ Len(bytesOf(n)) = Len(textOf(lines[n])) + 2 /\ Len(textOf(lines[n])) \in Nat
    BY <2>1, SentIs, BytesAre
  <2>3. sentUpTo[n] = sentUpTo[n - 1] \o bytesOf(n)
    BY SentIs
  <2>4. Len(sentUpTo[n]) = Len(sentUpTo[n - 1]) + Len(bytesOf(n)) /\ Len(sentUpTo[n - 1]) \in Nat
    BY <2>2, <2>3, ConcatProperties, LenProperties
  <2>5. offset(n) = offset(n - 1) + Len(bytesOf(n)) /\ offset(n - 1) \in Nat
    BY <2>4 DEF offset
  <2> DEFINE L == Len(textOf(lines[n]))
  <2>6. Len(bytesOf(n)) = L + 2 /\ L \in Nat
    BY <2>2
  <2> HIDE DEF L
  <2>7. offset(n) = offset(n - 1) + L + 2
    BY <2>5, <2>6
  <2> QED
    BY <2>7 DEF L
<1>5. server_sends \in Seq(Sent) /\ Len(server_sends) = offset(Len(lines))
  <2>1. Len(lines) \in 0..Len(lines)
    BY <1>1
  <2> QED
    BY <2>1, SentIs DEF offset
<1> QED
  BY <1>1, <1>2, <1>3, <1>4, <1>5

LEMMA OffsetsGrow ==
    ASSUME lines \in Conversations, NEW n \in 0..Len(lines), NEW m \in 0..n
    PROVE  offset(m) <= offset(n)
<1> DEFINE N == Len(lines)
           G == {k \in 0..N : \A i \in 0..k : offset(i) <= offset(k)}
<1>1. N \in Nat
  BY OffsetIs
<1>2. 0 \in G
  <2>1. \A i \in 0..0 : offset(i) <= offset(0)
    BY OffsetIs
  <2> QED
    BY <1>1, <2>1
<1>3. ASSUME NEW k \in 1..N, k - 1 \in G
      PROVE  k \in G
  <2>1. offset(k - 1) \in Nat /\ offset(k) \in Nat /\ offset(k - 1) <= offset(k)
    <3>1. k - 1 \in 0..N /\ k \in 0..N
      BY <1>1
    <3>2. Len(textOf(lines[k])) \in Nat
      BY BytesAre
    <3> QED
      BY <3>1, <3>2, OffsetIs
  <2>2. ASSUME NEW i \in 0..k PROVE offset(i) <= offset(k)
    <3>1. CASE i = k
      BY <2>1, <3>1
    <3>2. CASE i # k
      <4>1. i \in 0..(k - 1) /\ i \in 0..N
        BY <1>1, <3>2
      <4>2. offset(i) \in Nat /\ offset(i) <= offset(k - 1)
        BY <1>3, <4>1, OffsetIs
      <4> QED
        BY <2>1, <4>2
    <3> QED
      BY <3>1, <3>2
  <2> QED
    BY <1>1, <2>2
<1> HIDE DEF G
<1>4. \A k \in 1..N : k - 1 \in G => k \in G
  BY <1>3
<1>5. 0..N \subseteq G
  BY <1>1, <1>2, <1>4, Induction
<1> QED
  BY <1>5 DEF G

(* The bytes of a line stand behind those of the lines before it.             *)
LEMMA PieceStands ==
    ASSUME lines \in Conversations, NEW n \in 1..Len(lines), NEW k \in 1..Len(bytesOf(n))
    PROVE  server_sends[offset(n - 1) + k] = bytesOf(n)[k]
<1> DEFINE N == Len(lines)
           G == {m \in 0..N : m >= n => sentUpTo[m][offset(n - 1) + k] = bytesOf(n)[k]}
<1>1. N \in Nat /\ n \in Nat \ {0} /\ n <= N
  BY OffsetIs
<1>2. 0 \in G
  BY <1>1
<1>0. ASSUME NEW m \in 1..N
      PROVE  /\ bytesOf(m) \in Seq(Sent) /\ Len(bytesOf(m)) \in Nat
             /\ offset(m) = offset(m - 1) + Len(bytesOf(m))
             /\ offset(m - 1) \in Nat /\ m - 1 \in 0..N
  <2>1. m - 1 \in 0..N
    BY <1>1
  <2>2. /\ bytesOf(m) \in Seq(Sent) /\ Len(bytesOf(m)) = Len(textOf(lines[m])) + 2
        /\ Len(textOf(lines[m])) \in Nat
    BY BytesAre
  <2>3. offset(m - 1) \in Nat /\ offset(m) = offset(m - 1) + Len(textOf(lines[m])) + 2
    BY <2>1, OffsetIs
  <2> QED
    BY <2>1, <2>2, <2>3
<1>3. /\ offset(n - 1) \in Nat /\ Len(bytesOf(n)) \in Nat
      /\ offset(n) = offset(n - 1) + Len(bytesOf(n))
  BY <1>0
<1>4. ASSUME NEW m \in 1..N, m - 1 \in G
      PROVE  m \in G
  <2> SUFFICES ASSUME m >= n
               PROVE  sentUpTo[m][offset(n - 1) + k] = bytesOf(n)[k]
    BY <1>1
  <2>1. m - 1 \in 0..N
    BY <1>1
  <2>2. /\ sentUpTo[m - 1] \in Seq(Sent) /\ bytesOf(m) \in Seq(Sent)
        /\ sentUpTo[m] = sentUpTo[m - 1] \o bytesOf(m)
        /\ Len(sentUpTo[m - 1]) = offset(m - 1) /\ offset(m - 1) \in Nat
        /\ Len(bytesOf(m)) \in Nat
    BY <1>0, <2>1, SentIs DEF offset
  <2>3. \A i \in 1..(offset(m - 1) + Len(bytesOf(m))) :
           sentUpTo[m][i] = IF i <= offset(m - 1) THEN sentUpTo[m - 1][i]
                            ELSE bytesOf(m)[i - offset(m - 1)]
    BY <2>2, ConcatProperties
  <2>4. CASE m = n
    <3> DEFINE i == offset(n - 1) + k
    <3>1. /\ i \in 1..(offset(m - 1) + Len(bytesOf(m)))
          /\ ~(i <= offset(m - 1)) /\ i - offset(m - 1) = k
      BY <1>3, <2>4
    <3> HIDE DEF i
    <3>2. sentUpTo[m][i] = bytesOf(m)[k]
      BY <2>3, <3>1
    <3> QED
      BY <2>4, <3>2 DEF i
  <2>5. CASE m # n
    <3>1. m - 1 >= n /\ n \in 0..(m - 1)
      BY <1>1, <2>5
    <3>2. offset(n) <= offset(m - 1)
      BY <2>1, <3>1, OffsetsGrow
    <3>3. offset(n - 1) + k \in 1..offset(m - 1)
      BY <1>3, <2>2, <3>2
    <3>4. sentUpTo[m][offset(n - 1) + k] = sentUpTo[m - 1][offset(n - 1) + k]
      BY <2>2, <2>3, <3>3
    <3> QED
      BY <1>4, <3>1, <3>4
  <2> QED
    BY <2>4, <2>5
<1> HIDE DEF G
<1>5. \A m \in 1..N : m - 1 \in G => m \in G
  BY <1>4
<1>6. N \in G
  <2>1. 0..N \subseteq G
    BY <1>1, <1>2, <1>5, Induction
  <2> QED
    BY <1>1, <2>1
<1> QED
  BY <1>1, <1>6, SentIs DEF G

(* Where a line stands in what is sent.                                       *)
LEMMA LineStands ==
    ASSUME lines \in Conversations, NEW n \in 1..Len(lines)
    PROVE  LET b == offset(n - 1)
               text == textOf(lines[n])
               L == Len(text) IN
           /\ lines[n] \in Said /\ text \in Seq(Part) /\ L \in Nat
           /\ b \in Nat /\ offset(n) = b + L + 2 /\ b + L + 2 <= Len(server_sends)
           /\ Len(server_sends) \in Nat /\ server_sends \in Seq(Sent)
           /\ \A k \in 1..L : /\ server_sends[b + k] = [line |-> n, part |-> text[k]]
                              /\ text[k] \in Part /\ text[k] \notin {"CR", "LF"}
           /\ server_sends[b + L + 1] = [line |-> n, part |-> "CR"]
           /\ server_sends[b + L + 2] = [line |-> n, part |-> "LF"]
           /\ n > 1 => /\ n - 1 \in 1..Len(lines) /\ b >= 2
                       /\ server_sends[b - 1] = [line |-> n - 1, part |-> "CR"]
                       /\ server_sends[b] = [line |-> n - 1, part |-> "LF"]
<1> DEFINE b == offset(n - 1)
           text == textOf(lines[n])
           L == Len(text)
<1>1. ASSUME NEW m \in 1..Len(lines)
      PROVE  LET M == Len(textOf(lines[m])) IN
             /\ M \in Nat /\ offset(m - 1) \in Nat /\ offset(m) = offset(m - 1) + M + 2
             /\ server_sends[offset(m - 1) + M + 1] = [line |-> m, part |-> "CR"]
             /\ server_sends[offset(m - 1) + M + 2] = [line |-> m, part |-> "LF"]
             /\ \A k \in 1..M : server_sends[offset(m - 1) + k] = [line |-> m, part |-> textOf(lines[m])[k]]
  <2> DEFINE M == Len(textOf(lines[m]))
  <2>1. m - 1 \in 0..Len(lines)
    BY OffsetIs
  <2>2. /\ M \in Nat /\ Len(bytesOf(m)) = M + 2
        /\ \A k \in 1..M : bytesOf(m)[k] = [line |-> m, part |-> textOf(lines[m])[k]]
        /\ bytesOf(m)[M + 1] = [line |-> m, part |-> "CR"]
        /\ bytesOf(m)[M + 2] = [line |-> m, part |-> "LF"]
    BY BytesAre
  <2>3. offset(m - 1) \in Nat /\ offset(m) = offset(m - 1) + M + 2
    BY <2>1, OffsetIs
  <2> HIDE DEF M
  <2>4. M + 1 \in 1..(M + 2) /\ M + 2 \in 1..(M + 2) /\ \A k \in 1..M : k \in 1..(M + 2)
    BY <2>2
  <2>5. /\ server_sends[offset(m - 1) + (M + 1)] = bytesOf(m)[M + 1]
        /\ server_sends[offset(m - 1) + (M + 2)] = bytesOf(m)[M + 2]
        /\ \A k \in 1..M : server_sends[offset(m - 1) + k] = bytesOf(m)[k]
    BY <2>2, <2>4, PieceStands
  <2>6. offset(m - 1) + (M + 1) = offset(m - 1) + M + 1 /\ offset(m - 1) + (M + 2) = offset(m - 1) + M + 2
    BY <2>2, <2>3
  <2> QED
    BY <2>2, <2>3, <2>5, <2>6 DEF M
<1>2. lines[n] \in Said /\ text \in Seq(Part) /\ L \in Nat /\ \A k \in 1..L : text[k] \in Part
  BY BytesAre
<1>3. \A c \in Part : c \notin {"CR", "LF"}
  BY DEF Part
<1>4. /\ b \in Nat /\ offset(n) = b + L + 2
      /\ server_sends[b + L + 1] = [line |-> n, part |-> "CR"]
      /\ server_sends[b + L + 2] = [line |-> n, part |-> "LF"]
      /\ \A k \in 1..L : server_sends[b + k] = [line |-> n, part |-> text[k]]
  BY <1>1
<1>5. /\ offset(n) <= Len(server_sends) /\ Len(server_sends) \in Nat /\ server_sends \in Seq(Sent)
      /\ Len(lines) \in Nat
  <2>1. /\ Len(lines) \in Nat /\ server_sends \in Seq(Sent)
        /\ Len(server_sends) = offset(Len(lines)) /\ \A k \in 0..Len(lines) : offset(k) \in Nat
    BY OffsetIs
  <2>2. Len(lines) \in 0..Len(lines) /\ n \in 0..Len(lines)
    BY <2>1
  <2> QED
    BY <2>1, <2>2, OffsetsGrow
<1>6. n > 1 => /\ n - 1 \in 1..Len(lines) /\ b >= 2
               /\ server_sends[b - 1] = [line |-> n - 1, part |-> "CR"]
               /\ server_sends[b] = [line |-> n - 1, part |-> "LF"]
  <2> SUFFICES ASSUME n > 1 PROVE /\ n - 1 \in 1..Len(lines) /\ b >= 2
                                  /\ server_sends[b - 1] = [line |-> n - 1, part |-> "CR"]
                                  /\ server_sends[b] = [line |-> n - 1, part |-> "LF"]
    OBVIOUS
  <2> DEFINE m == n - 1
             a == offset(m - 1)
             M == Len(textOf(lines[m]))
  <2>1. m \in 1..Len(lines)
    BY <1>5
  <2>2. /\ M \in Nat /\ a \in Nat /\ offset(m) = a + M + 2
        /\ server_sends[a + M + 1] = [line |-> m, part |-> "CR"]
        /\ server_sends[a + M + 2] = [line |-> m, part |-> "LF"]
    BY <1>1, <2>1
  <2> HIDE DEF a, M
  <2>3. b = a + M + 2 /\ b - 1 = a + M + 1 /\ b >= 2
    BY <2>2
  <2> QED
    BY <2>1, <2>2, <2>3
<1> HIDE DEF b, L, text
<1>7. b + L + 2 <= Len(server_sends)
  BY <1>4, <1>5
<1> QED
  BY <1>2, <1>3, <1>4, <1>5, <1>6, <1>7 DEF b, L, text

-----------------------------------------------------------------------------
(* What is taken of a chunk.                                                  *)

LEMMA MinIs ==
    ASSUME NEW a \in Nat, NEW b \in Nat
    PROVE  Min({a, b}) \in Nat /\ Min({a, b}) <= a /\ Min({a, b}) <= b /\ Min({a, b}) \in {a, b}
<1>1. \E x \in {a, b} : \A y \in {a, b} : x <= y
  BY LeastExists
<1>2. Min({a, b}) \in {a, b} /\ \A y \in {a, b} : Min({a, b}) <= y
  BY <1>1 DEF Min
<1> QED
  BY <1>2

LEMMA PartsAre ==
    ASSUME NEW chunk \in Seq(Sent), NEW s \in 1..Len(chunk),
           NEW e \in Nat, s - 1 <= e, e <= Len(chunk)
    PROVE  LET text == parts(SubSeq(chunk, s, e)) IN
           /\ text \in Seq(Byte) /\ Len(text) = e - s + 1
           /\ \A k \in 1..(e - s + 1) : text[k] = chunk[s + k - 1].part
<1> DEFINE sub == SubSeq(chunk, s, e)
           L == e - s + 1
<1>1. Len(chunk) \in Nat /\ L \in Nat
  BY LenProperties
<1>2. \A i \in s..e : chunk[i] \in Sent
  BY <1>1, ElementOfSeq
<1>3. /\ sub \in Seq(Sent) /\ Len(sub) = IF s <= e THEN e - s + 1 ELSE 0
      /\ \A k \in 1..(e - s + 1) : sub[k] = chunk[s + k - 1]
  BY <1>1, <1>2, SubSeqProperties
<1>4. Len(sub) = L
  BY <1>1, <1>3
<1>5. \A k \in 1..L : sub[k] \in Sent
  BY <1>3, <1>4, ElementOfSeq
<1> HIDE DEF sub
<1> DEFINE t == [k \in 1..L |-> sub[k].part]
<1>6. t \in [1..L -> Byte]
  BY <1>5 DEF Sent
<1>7. parts(sub) = t
  BY <1>4 DEF parts
<1>8. \A k \in 1..L : t[k] = chunk[s + k - 1].part
  BY <1>3
<1> HIDE DEF t
<1>9. t \in Seq(Byte) /\ Len(t) = L
  <2> HIDE DEF L
  <2> QED
    BY <1>1, <1>6, SeqOf
<1> QED
  BY <1>7, <1>8, <1>9 DEF sub

(* A PING of which more than the first byte has come is taken for one.        *)
LEMMA PingIsRead ==
    ASSUME NEW chunk \in Seq(Sent), NEW n, NEW s \in 1..Len(chunk), s < Len(chunk), NEW stale,
           chunk[s] = [line |-> n, part |-> "P"],
           chunk[s + 1] = [line |-> n, part |-> "I"],
           s + 2 <= Len(chunk) => chunk[s + 2] = [line |-> n, part |-> "NG"],
           s + 3 <= Len(chunk) => chunk[s + 3] = [line |-> n, part |-> "CR"],
           s + 4 <= Len(chunk) => chunk[s + 4] = [line |-> n, part |-> "LF"]
    PROVE  /\ lineOf(chunk, s) = n
           /\ read(textAt(chunk, s, stale)).kind = "PONG"
<1> DEFINE m == Len(chunk)
<1>1. m \in Nat
  BY LenProperties
<1>2. \A i \in lineBreaks(chunk) : i >= s => i >= s + 3 /\ i + 1 <= m
  <2> SUFFICES ASSUME NEW i \in lineBreaks(chunk), i >= s PROVE i >= s + 3 /\ i + 1 <= m
    OBVIOUS
  <2>1. i \in 1..(m - 1) /\ chunk[i].part = "CR"
    BY DEF lineBreaks
  <2>2. i # s /\ i # s + 1
    BY <2>1
  <2>3. i # s + 2
    BY <1>1, <2>1
  <2> QED
    BY <1>1, <2>1, <2>2, <2>3
<1>3. CASE s + 4 <= m
  <2>1. s + 3 \in lineBreaks(chunk)
    BY <1>1, <1>3 DEF lineBreaks
  <2>2. lineEnd(chunk, s) = s + 3
    <3> DEFINE ends(i) == i >= s /\ \A j \in lineBreaks(chunk) : j >= s => i <= j
    <3>1. ends(s + 3)
      BY <1>2
    <3>2. \A i \in lineBreaks(chunk) : ends(i) => i = s + 3
      <4>1. \A i \in lineBreaks(chunk) : i \in Nat
        BY DEF lineBreaks
      <4> QED
        BY <1>2, <2>1, <4>1
    <3>3. lineEnd(chunk, s) = CHOOSE i \in lineBreaks(chunk) : ends(i)
      BY DEF lineEnd
    <3> HIDE DEF ends
    <3> QED
      BY <2>1, <3>1, <3>2, <3>3
  <2>3. broken(chunk, s)
    BY <2>1 DEF broken
  <2>4. lineOf(chunk, s) = n
    BY <1>1, <1>3, <2>2, <2>3 DEF lineOf
  <2>5. textAt(chunk, s, stale) = parts(SubSeq(chunk, s, s + 2))
    BY <2>2, <2>3 DEF textAt
  <2> DEFINE text == textAt(chunk, s, stale)
  <2>6. text \in Seq(Byte) /\ Len(text) = 3 /\ \A k \in 1..3 : text[k] = chunk[s + k - 1].part
    <3>1. s + 2 \in Nat /\ s - 1 <= s + 2 /\ s + 2 <= m /\ (s + 2) - s + 1 = 3
      BY <1>1, <1>3
    <3> QED
      <4>1. /\ parts(SubSeq(chunk, s, s + 2)) \in Seq(Byte)
            /\ Len(parts(SubSeq(chunk, s, s + 2))) = (s + 2) - s + 1
            /\ \A k \in 1..((s + 2) - s + 1) :
                  parts(SubSeq(chunk, s, s + 2))[k] = chunk[s + k - 1].part
        BY <3>1, PartsAre
      <4> QED
        BY <2>5, <3>1, <4>1
  <2>7. match(PING, text)
    <3> HIDE DEF text
    <3>1. Min({Len(PING), Len(text)}) = 3
      BY <2>6, MinIs DEF PING
    <3>2. text[1] = "P" /\ text[2] = "I" /\ text[3] = "NG"
      BY <1>1, <1>3, <2>6
    <3> QED
      BY <3>1, <3>2 DEF match, PING
  <2> QED
    BY <2>4, <2>7 DEF read
<1>4. CASE s + 4 > m
  <2>1. ~broken(chunk, s)
    <3> SUFFICES ASSUME NEW i \in lineBreaks(chunk), i >= s PROVE FALSE
      BY DEF broken
    <3>1. i >= s + 3 /\ i + 1 <= m /\ i \in Int
      BY <1>2 DEF lineBreaks
    <3> QED
      BY <1>1, <1>4, <3>1
  <2>2. lineOf(chunk, s) = n
    <3>1. m = s + 1 \/ m = s + 2 \/ m = s + 3
      BY <1>1, <1>4
    <3> QED
      BY <1>1, <2>1, <3>1 DEF lineOf
  <2>3. textAt(chunk, s, stale) = parts(SubSeq(chunk, s, m - 2))
    BY <2>1 DEF textAt
  <2> DEFINE text == textAt(chunk, s, stale)
             L == m - 2 - s + 1
  <2>4. text \in Seq(Byte) /\ Len(text) = L /\ \A k \in 1..L : text[k] = chunk[s + k - 1].part
    <3>2. m - 2 \in Nat /\ s - 1 <= m - 2 /\ m - 2 <= m
      BY <1>1
    <3> QED
      BY <2>3, <3>2, PartsAre
  <2>5. L \in Nat /\ L <= 2
    BY <1>1, <1>4
  <2>6. match(PING, text)
    <3> HIDE DEF text
    <3>1. Len(PING) = 3
      BY DEF PING
    <3>2. Min({3, Len(text)}) \in Nat /\ Min({3, Len(text)}) <= L
      BY <2>4, <2>5, MinIs
    <3>3. \A k \in 1..L : k = 1 \/ k = 2
      BY <2>5
    <3>4. \A k \in 1..L : PING[k] = text[k]
      <4>1. PING[1] = "P" /\ PING[2] = "I"
        BY DEF PING
      <4>2. 1 \in 1..L => text[1] = "P"
        <5>1. 1 \in 1..L => text[1] = chunk[s + 1 - 1].part
          BY <2>4
        <5>2. s + 1 - 1 = s
          OBVIOUS
        <5> QED
          BY <5>1, <5>2
      <4>3. 2 \in 1..L => text[2] = "I"
        <5>1. 2 \in 1..L => text[2] = chunk[s + 2 - 1].part
          BY <2>4
        <5>2. s + 2 - 1 = s + 1
          OBVIOUS
        <5> QED
          BY <5>1, <5>2
      <4> HIDE DEF L
      <4> QED
        BY <3>3, <4>1, <4>2, <4>3
    <3> HIDE DEF L
    <3>5. \A k \in 1..Min({3, Len(text)}) : k \in 1..L
      BY <2>5, <3>2
    <3> QED
      BY <3>1, <3>4, <3>5 DEF match
  <2> QED
    BY <2>2, <2>6 DEF read
<1> QED
  BY <1>1, <1>3, <1>4

-----------------------------------------------------------------------------
(* What is on its way is the rest of what was sent.                           *)

taken == Len(server_sends) - Len(wire)

OnItsWay ==
    /\ lines \in Conversations
    /\ wire \in Seq(Sent) /\ taken \in Nat
    /\ \A i \in 1..Len(wire) : wire[i] = server_sends[taken + i]

LEMMA InitOnItsWay == Init => OnItsWay /\ taken = 0
<1> SUFFICES ASSUME Init PROVE OnItsWay /\ taken = 0
  OBVIOUS
<1>1. lines \in Conversations /\ wire = server_sends
  BY DEF Init
<1>2. server_sends \in Seq(Sent) /\ Len(server_sends) \in Nat
  BY <1>1, OffsetIs, LenProperties
<1>3. taken = 0
  BY <1>1, <1>2 DEF taken
<1> QED
  BY <1>1, <1>2, <1>3 DEF OnItsWay

(* A chunk is what follows next of it.                                        *)
LEMMA ChunkIs ==
    ASSUME OnItsWay, NEW m \in 1..Len(wire)
    PROVE  LET chunk == SubSeq(wire, 1, m) IN
           /\ chunk \in Seq(Sent) /\ Len(chunk) = m
           /\ \A i \in 1..m : chunk[i] = server_sends[taken + i]
<1>1. Len(wire) \in Nat /\ \A i \in 1..m : wire[i] \in Sent
  <2>1. Len(wire) \in Nat
    BY LenProperties DEF OnItsWay
  <2>2. \A i \in 1..m : i \in 1..Len(wire)
    BY <2>1
  <2> QED
    BY <2>1, <2>2, ElementOfSeq DEF OnItsWay
<1>2. /\ SubSeq(wire, 1, m) \in Seq(Sent) /\ Len(SubSeq(wire, 1, m)) = m
      /\ \A i \in 1..(m - 1 + 1) : SubSeq(wire, 1, m)[i] = wire[1 + i - 1]
  BY <1>1, SubSeqProperties
<1>3. \A i \in 1..m : /\ i \in 1..(m - 1 + 1) /\ 1 + i - 1 = i
                      /\ wire[i] = server_sends[taken + i]
  <2> TAKE i \in 1..m
  <2>1. i \in 1..(m - 1 + 1) /\ 1 + i - 1 = i /\ i \in 1..Len(wire)
    BY <1>1
  <2> QED
    BY <2>1 DEF OnItsWay
<1>4. \A i \in 1..m : SubSeq(wire, 1, m)[i] = server_sends[taken + i]
  BY <1>2, <1>3
<1> QED
  BY <1>2, <1>4

LEMMA StepOnItsWay ==
    ASSUME OnItsWay, NEW m \in 1..Len(wire), NEW stale, twitch_dispatch_callbacks(m, stale)
    PROVE  OnItsWay' /\ taken' = taken + m /\ lines' = lines /\ server_sends' = server_sends
<1>1. lines' = lines /\ wire' = SubSeq(wire, m + 1, Len(wire))
  BY DEF twitch_dispatch_callbacks
<1>2. server_sends' = server_sends
  BY <1>1 DEF server_sends, bytesOf
<1>3. Len(wire) \in Nat /\ \A i \in (m + 1)..Len(wire) : wire[i] \in Sent
  <2>1. Len(wire) \in Nat
    BY LenProperties DEF OnItsWay
  <2>2. \A i \in (m + 1)..Len(wire) : i \in 1..Len(wire)
    BY <2>1
  <2> QED
    BY <2>1, <2>2, ElementOfSeq DEF OnItsWay
<1>4. /\ wire' \in Seq(Sent)
      /\ Len(wire') = IF m + 1 <= Len(wire) THEN Len(wire) - (m + 1) + 1 ELSE 0
      /\ \A i \in 1..(Len(wire) - (m + 1) + 1) : wire'[i] = wire[m + 1 + i - 1]
  <2>1. m + 1 \in Int /\ Len(wire) \in Int
    BY <1>3
  <2> QED
    BY <1>1, <1>3, <2>1, SubSeqProperties
<1>5. Len(wire') = Len(wire) - m /\ Len(wire') \in Nat
  BY <1>3, <1>4
<1>6. taken' = taken + m /\ taken \in Nat /\ Len(server_sends) \in Nat
  <2>1. taken \in Nat /\ Len(server_sends) \in Nat
    BY OffsetIs, LenProperties DEF OnItsWay
  <2> QED
    BY <1>2, <1>3, <1>5, <2>1 DEF taken
<1>7. ASSUME NEW i \in 1..Len(wire') PROVE wire'[i] = server_sends[taken + m + i]
  <2>1. /\ i \in 1..(Len(wire) - (m + 1) + 1) /\ m + 1 + i - 1 = m + i /\ m + i \in 1..Len(wire)
        /\ taken + m + i = taken + (m + i)
    BY <1>3, <1>5, <1>6
  <2>2. wire'[i] = wire[m + i]
    BY <1>4, <2>1
  <2>3. wire[m + i] = server_sends[taken + (m + i)]
    BY <2>1 DEF OnItsWay
  <2> QED
    BY <2>1, <2>2, <2>3
<1>8. taken' \in Nat /\ lines' \in Conversations
  BY <1>1, <1>6 DEF OnItsWay
<1>9. \A i \in 1..Len(wire') : wire'[i] = server_sends'[taken' + i]
  BY <1>2, <1>6, <1>7
<1> QED
  BY <1>1, <1>2, <1>4, <1>6, <1>8, <1>9 DEF OnItsWay

-----------------------------------------------------------------------------
(* PINGs.                                                                     *)

accounted(n) ==
    \/ n \in ponged \cup dropped
    \/ [line |-> n, part |-> PING[1]] \in cuts
    \/ [line |-> n - 1, part |-> "CR"] \in cuts

(* A PING of which the first byte was taken is accounted for already, and the *)
(* byte taken last was noted if it is one after which one may be missed.      *)
Accounted ==
    /\ OnItsWay
    /\ taken > 0 /\ server_sends[taken].part \in {PING[1], "CR"} => server_sends[taken] \in cuts
    /\ \A n \in 1..Len(lines) :
          lines[n].kind = "PING" /\ offset(n - 1) < taken => accounted(n)

LEMMA PingStands ==
    ASSUME lines \in Conversations, NEW n \in 1..Len(lines), lines[n].kind = "PING"
    PROVE  LET q == offset(n - 1) + 1 IN
           /\ q \in Nat \ {0} /\ q + 4 <= Len(server_sends) /\ Len(server_sends) \in Nat
           /\ server_sends[q] = [line |-> n, part |-> "P"]
           /\ server_sends[q + 1] = [line |-> n, part |-> "I"]
           /\ server_sends[q + 2] = [line |-> n, part |-> "NG"]
           /\ server_sends[q + 3] = [line |-> n, part |-> "CR"]
           /\ server_sends[q + 4] = [line |-> n, part |-> "LF"]
           /\ n > 1 => /\ q >= 3
                       /\ server_sends[q - 2] = [line |-> n - 1, part |-> "CR"]
                       /\ server_sends[q - 1] = [line |-> n - 1, part |-> "LF"]
           /\ n = 1 => q = 1
<1> DEFINE b == offset(n - 1)
           text == textOf(lines[n])
<1>1. /\ lines[n] \in Said /\ b \in Nat /\ Len(server_sends) \in Nat
      /\ b + Len(text) + 2 <= Len(server_sends)
      /\ \A k \in 1..Len(text) : server_sends[b + k] = [line |-> n, part |-> text[k]]
      /\ server_sends[b + Len(text) + 1] = [line |-> n, part |-> "CR"]
      /\ server_sends[b + Len(text) + 2] = [line |-> n, part |-> "LF"]
      /\ n > 1 => /\ b >= 2
                  /\ server_sends[b - 1] = [line |-> n - 1, part |-> "CR"]
                  /\ server_sends[b] = [line |-> n - 1, part |-> "LF"]
  BY LineStands
<1>2. text = PING
  BY <1>1, TextIs
<1>3. Len(text) = 3 /\ text[1] = "P" /\ text[2] = "I" /\ text[3] = "NG"
  BY <1>2 DEF PING
<1> HIDE DEF text
<1>4. /\ server_sends[b + 1] = [line |-> n, part |-> "P"]
      /\ server_sends[b + 2] = [line |-> n, part |-> "I"]
      /\ server_sends[b + 3] = [line |-> n, part |-> "NG"]
      /\ server_sends[b + 4] = [line |-> n, part |-> "CR"]
      /\ server_sends[b + 5] = [line |-> n, part |-> "LF"]
      /\ b + 5 <= Len(server_sends)
  <2>1. b + 3 + 1 = b + 4 /\ b + 3 + 2 = b + 5
    BY <1>1
  <2> QED
    BY <1>1, <1>3, <2>1
<1>5. n = 1 => b = 0
  BY OffsetIs
<1> HIDE DEF b
<1>6. /\ (b + 1) + 1 = b + 2 /\ (b + 1) + 2 = b + 3 /\ (b + 1) + 3 = b + 4 /\ (b + 1) + 4 = b + 5
      /\ (b + 1) - 2 = b - 1 /\ (b + 1) - 1 = b /\ b + 1 \in Nat \ {0}
      /\ (b >= 2 => b + 1 >= 3) /\ (b = 0 => b + 1 = 1)
  <2>1. b \in Nat
    BY <1>1
  <2> QED
    BY <2>1
<1> QED
  BY <1>1, <1>4, <1>5, <1>6 DEF b

LEMMA StepAccounts ==
    ASSUME Accounted, NEW m \in 1..Len(wire), NEW stale, twitch_dispatch_callbacks(m, stale),
           NEW n \in 1..Len(lines), lines[n].kind = "PING", offset(n - 1) < taken + m
    PROVE  accounted(n)'
<1> DEFINE q == offset(n - 1) + 1
           chunk == SubSeq(wire, 1, m)
           s == q - taken
<1>1. OnItsWay /\ lines \in Conversations /\ taken \in Nat
  BY DEF Accounted, OnItsWay
<1>2. /\ ponged \subseteq ponged' /\ dropped \subseteq dropped' /\ cuts \subseteq cuts'
      /\ handled' = {[at |-> x, line |-> lineOf(chunk, x), msg |-> read(textAt(chunk, x, stale))] :
                        x \in receivedMsgs(chunk)}
      /\ ponged' = ponged \cup {h.line : h \in {x \in handled' : x.msg.kind = "PONG"}}
      /\ cuts' = cuts \cup {c \in {chunk[m]} : c.part \in {PING[1], "CR"}}
      /\ dropped' = dropped \cup {lineOf(chunk, x) : x \in msgStarts(chunk) \ receivedMsgs(chunk)}
  BY DEF twitch_dispatch_callbacks
<1>3. CASE offset(n - 1) < taken
  <2>1. accounted(n)
    BY <1>3 DEF Accounted
  <2> QED
    BY <1>2, <2>1 DEF accounted
<1>4. CASE ~(offset(n - 1) < taken)
  <2>1. /\ q \in Nat \ {0} /\ q + 4 <= Len(server_sends) /\ Len(server_sends) \in Nat
        /\ server_sends[q] = [line |-> n, part |-> "P"]
        /\ server_sends[q + 1] = [line |-> n, part |-> "I"]
        /\ server_sends[q + 2] = [line |-> n, part |-> "NG"]
        /\ server_sends[q + 3] = [line |-> n, part |-> "CR"]
        /\ server_sends[q + 4] = [line |-> n, part |-> "LF"]
        /\ n > 1 => /\ q >= 3
                    /\ server_sends[q - 2] = [line |-> n - 1, part |-> "CR"]
                    /\ server_sends[q - 1] = [line |-> n - 1, part |-> "LF"]
        /\ n = 1 => q = 1
    BY <1>1, PingStands
  <2>2. chunk \in Seq(Sent) /\ Len(chunk) = m /\ \A i \in 1..m : chunk[i] = server_sends[taken + i]
    BY <1>1, ChunkIs
  <2>0. q <= taken + m /\ taken < q
    <3>1. n - 1 \in 0..Len(lines)
      BY <1>1, OffsetIs
    <3>2. offset(n - 1) \in Nat
      BY <1>1, <3>1, OffsetIs
    <3> QED
      BY <1>1, <1>4, <3>2
  <2> HIDE DEF q, chunk
  <2>3. s \in 1..m /\ taken + s = q /\ m \in Nat
    BY <1>1, <2>0, <2>1
  <2>4. PING[1] = "P"
    BY DEF PING
  <2> HIDE DEF s
  <2>5. CASE s = m
    <3>1. chunk[m] = [line |-> n, part |-> PING[1]]
      BY <2>1, <2>2, <2>3, <2>4, <2>5
    <3> QED
      BY <1>2, <3>1 DEF accounted
  <2>6. CASE s # m /\ s \in msgStarts(chunk)
    <3>1. /\ chunk[s] = [line |-> n, part |-> "P"]
          /\ chunk[s + 1] = [line |-> n, part |-> "I"]
          /\ s + 2 <= m => chunk[s + 2] = [line |-> n, part |-> "NG"]
          /\ s + 3 <= m => chunk[s + 3] = [line |-> n, part |-> "CR"]
          /\ s + 4 <= m => chunk[s + 4] = [line |-> n, part |-> "LF"]
      <4>1. ASSUME NEW d \in 0..4, s + d <= m PROVE chunk[s + d] = server_sends[q + d]
        <5>1. s + d \in 1..m /\ taken + (s + d) = q + d
          BY <1>1, <2>3, <4>1
        <5> QED
          BY <2>2, <5>1
      <4>2. s + 0 = s /\ q + 0 = q /\ s + 0 <= m /\ s + 1 <= m
        BY <2>1, <2>3, <2>6
      <4>3. 0 \in 0..4 /\ 1 \in 0..4 /\ 2 \in 0..4 /\ 3 \in 0..4 /\ 4 \in 0..4
        OBVIOUS
      <4>4. chunk[s] = server_sends[q] /\ chunk[s + 1] = server_sends[q + 1]
        BY <4>1, <4>2, <4>3
      <4>5. /\ s + 2 <= m => chunk[s + 2] = server_sends[q + 2]
            /\ s + 3 <= m => chunk[s + 3] = server_sends[q + 3]
            /\ s + 4 <= m => chunk[s + 4] = server_sends[q + 4]
        BY <4>1, <4>3
      <4> QED
        BY <2>1, <4>4, <4>5
    <3>2. lineOf(chunk, s) = n /\ read(textAt(chunk, s, stale)).kind = "PONG"
      <4>1. s \in 1..Len(chunk) /\ s < Len(chunk)
        BY <2>2, <2>3, <2>6
      <4> QED
        <5>1. /\ chunk \in Seq(Sent) /\ (s + 2 <= Len(chunk) => s + 2 <= m)
              /\ (s + 3 <= Len(chunk) => s + 3 <= m) /\ (s + 4 <= Len(chunk) => s + 4 <= m)
          BY <2>2
        <5> QED
          BY <3>1, <4>1, <5>1, PingIsRead
    <3>3. CASE s \in receivedMsgs(chunk)
      <4> DEFINE h == [at |-> s, line |-> lineOf(chunk, s), msg |-> read(textAt(chunk, s, stale))]
      <4>1. h \in handled' /\ h.line = n /\ h.msg.kind = "PONG"
        BY <1>2, <3>2, <3>3
      <4> HIDE DEF h
      <4>2. n \in ponged'
        BY <1>2, <4>1
      <4> QED
        BY <4>2 DEF accounted
    <3>4. CASE s \notin receivedMsgs(chunk)
      <4>1. n \in dropped'
        BY <1>2, <2>6, <3>2, <3>4
      <4> QED
        BY <4>1 DEF accounted
    <3> QED
      BY <3>3, <3>4
  <2>7. CASE s \notin msgStarts(chunk)
    <3>1. s # 1
      BY <2>2, <2>3, <2>7 DEF msgStarts
    <3>2. n > 1
      BY <1>1, <2>1, <2>3, <3>1
    <3>3. s = 2
      <4> SUFFICES ASSUME s # 2 PROVE FALSE
        OBVIOUS
      <4>1. s - 2 \in 1..(m - 1) /\ s - 1 \in 1..m /\ s - 2 \in 1..m
            /\ taken + (s - 2) = q - 2 /\ taken + (s - 1) = q - 1 /\ (s - 2) + 1 = s - 1 /\ (s - 2) + 2 = s
        BY <1>1, <2>3, <3>1
      <4>2. chunk[s - 2].part = "CR" /\ chunk[s - 1].part = "LF"
        <5>1. chunk[s - 2] = server_sends[q - 2] /\ chunk[s - 1] = server_sends[q - 1]
          BY <2>2, <4>1
        <5> QED
          BY <2>1, <3>2, <5>1
      <4>3. s - 2 \in lineBreaks(chunk)
        BY <2>2, <4>1, <4>2 DEF lineBreaks
      <4>4. s \in msgStarts(chunk)
        BY <2>2, <2>3, <4>1, <4>3 DEF msgStarts
      <4> QED
        BY <2>7, <4>4
    <3>4. taken = q - 2 /\ taken > 0
      BY <1>1, <2>1, <2>3, <3>2, <3>3
    <3>5. server_sends[taken] = [line |-> n - 1, part |-> "CR"]
      BY <2>1, <3>2, <3>4
    <3>6. [line |-> n - 1, part |-> "CR"] \in cuts
      BY <3>4, <3>5 DEF Accounted
    <3> QED
      BY <1>2, <3>6 DEF accounted
  <2> QED
    BY <2>5, <2>6, <2>7
<1> QED
  BY <1>3, <1>4

LEMMA NextAccounts == Accounted /\ [Next]_vars => Accounted'
<1> SUFFICES ASSUME Accounted, [Next]_vars PROVE Accounted'
  OBVIOUS
<1>1. CASE UNCHANGED vars
  <2>1. UNCHANGED <<lines, wire, ponged, cuts, dropped>>
    BY <1>1 DEF vars
  <2>2. server_sends' = server_sends /\ sentUpTo' = sentUpTo
    BY <2>1 DEF server_sends, sentUpTo, bytesOf
  <2>3. taken' = taken /\ \A n : offset(n)' = offset(n)
    BY <2>1, <2>2 DEF taken, offset
  <2>4. \A n : accounted(n)' = accounted(n)
    BY <2>1 DEF accounted
  <2>5. OnItsWay'
    BY <2>1, <2>2, <2>3 DEF Accounted, OnItsWay
  <2>6. \A n \in 1..Len(lines') :
           lines'[n].kind = "PING" /\ offset(n - 1)' < taken' => accounted(n)'
    BY <2>1, <2>3, <2>4 DEF Accounted
  <2> QED
    BY <2>1, <2>2, <2>3, <2>5, <2>6 DEF Accounted
<1>2. ASSUME NEW m \in 1..Len(wire), NEW stale, twitch_dispatch_callbacks(m, stale)
      PROVE  Accounted'
  <2>1. OnItsWay' /\ taken' = taken + m /\ lines' = lines /\ server_sends' = server_sends
    BY <1>2, StepOnItsWay DEF Accounted
  <2>2. \A n : offset(n)' = offset(n)
    BY <2>1 DEF offset, sentUpTo, bytesOf
  <2>3. SubSeq(wire, 1, m)[m] = server_sends[taken + m]
    <3>1. \A i \in 1..m : SubSeq(wire, 1, m)[i] = server_sends[taken + i]
      BY <1>2, ChunkIs DEF Accounted
    <3> QED
      BY <3>1
  <2>4. cuts' = cuts \cup {c \in {SubSeq(wire, 1, m)[m]} : c.part \in {PING[1], "CR"}}
    BY <1>2 DEF twitch_dispatch_callbacks
  <2>5. server_sends'[taken'].part \in {PING[1], "CR"} => server_sends'[taken'] \in cuts'
    BY <2>1, <2>3, <2>4
  <2>6. ASSUME NEW n \in 1..Len(lines), lines[n].kind = "PING", offset(n - 1) < taken + m
        PROVE  accounted(n)'
    BY <1>2, <2>6, StepAccounts
  <2>7. \A n \in 1..Len(lines') :
           lines'[n].kind = "PING" /\ offset(n - 1)' < taken' => accounted(n)'
    BY <2>1, <2>2, <2>6
  <2> QED
    BY <2>1, <2>5, <2>7 DEF Accounted
<1> QED
  BY <1>1, <1>2 DEF Next

(* Wherever the chunks end, whoever else says something before or after it,   *)
(* every PING is answered by twitch_dispatch_callbacks, but for a cut after   *)
(* its first byte or within the line break before it, and for a chunk with    *)
(* too many messages.                                                         *)
THEOREM AlwaysPingsAreAnswered == Spec => []PingsAreAnswered
<1>1. Init => Accounted
  <2> SUFFICES ASSUME Init PROVE Accounted
    OBVIOUS
  <2>1. OnItsWay /\ taken = 0
    BY InitOnItsWay
  <2>2. ASSUME NEW n \in 1..Len(lines) PROVE ~(offset(n - 1) < 0)
    <3>1. n - 1 \in 0..Len(lines)
      BY <2>1, OffsetIs DEF OnItsWay
    <3>2. offset(n - 1) \in Nat
      BY <2>1, <3>1, OffsetIs DEF OnItsWay
    <3> QED
      BY <3>2
  <2> QED
    BY <2>1, <2>2 DEF Accounted
<1>2. Accounted => PingsAreAnswered
  <2> SUFFICES ASSUME Accounted, NEW n \in 1..Len(lines), lines[n].kind = "PING",
                      \A k \in 1..Len(wire) : wire[k].line # n
               PROVE  accounted(n)
    BY DEF PingsAreAnswered, accounted
  <2> DEFINE q == offset(n - 1) + 1
  <2>1. /\ q \in Nat \ {0} /\ q <= Len(server_sends) /\ Len(server_sends) \in Nat
        /\ server_sends[q] = [line |-> n, part |-> "P"]
    <3>1. /\ q \in Nat \ {0} /\ q + 4 <= Len(server_sends) /\ Len(server_sends) \in Nat
          /\ server_sends[q] = [line |-> n, part |-> "P"]
      BY PingStands DEF Accounted, OnItsWay
    <3> HIDE DEF q
    <3> QED
      BY <3>1
  <2>2. /\ taken \in Nat /\ Len(wire) \in Nat /\ taken = Len(server_sends) - Len(wire)
        /\ \A i \in 1..Len(wire) : wire[i] = server_sends[taken + i]
    <3>1. Len(wire) \in Nat
      BY LenProperties DEF Accounted, OnItsWay
    <3> QED
      BY <3>1 DEF Accounted, OnItsWay, taken
  <2>3. q <= taken
    <3> SUFFICES ASSUME taken < q PROVE FALSE
      BY <2>1, <2>2
    <3> HIDE DEF q
    <3>1. q - taken \in 1..Len(wire) /\ taken + (q - taken) = q
      BY <2>1, <2>2
    <3>2. wire[q - taken] = server_sends[q]
      <4>1. wire[q - taken] = server_sends[taken + (q - taken)]
        BY <2>2, <3>1
      <4> QED
        BY <3>1, <4>1
    <3>3. server_sends[q].line = n
      BY <2>1
    <3> QED
      BY <3>1, <3>2, <3>3
  <2>4. offset(n - 1) < taken
    <3>1. n - 1 \in 0..Len(lines)
      BY OffsetIs DEF Accounted, OnItsWay
    <3>2. offset(n - 1) \in Nat
      BY <3>1, OffsetIs DEF Accounted, OnItsWay
    <3> QED
      BY <2>2, <2>3, <3>2
  <2> QED
    BY <2>4 DEF Accounted
<1> QED
  BY <1>1, <1>2, NextAccounts, PTL DEF Spec

-----------------------------------------------------------------------------
(* The searches in a text.                                                    *)

(* f is the first position of those from start on in T, or behind the text.   *)
IsFirst(f, text, start, T) ==
    /\ f \in Nat /\ f <= behind(text)
    /\ f < behind(text) => f \in start..Len(text) /\ f \in T
    /\ \A i \in start..Len(text) : i < f => i \notin T

LEMMA TextLength ==
    ASSUME NEW text \in Seq(Byte)
    PROVE  /\ Len(text) \in Nat /\ behind(text) = Len(text) + 1
           /\ behind(text) \in Nat \ {0}
           /\ \A i \in 1..Len(text) : text[i] \in Byte
  BY LenProperties, ElementOfSeq DEF behind

LEMMA FirstIs ==
    ASSUME NEW text \in Seq(Byte), NEW start \in Nat \ {0}, NEW T
    PROVE  IsFirst(Min({behind(text)} \cup {i \in start..Len(text) : i \in T}), text, start, T)
<1> DEFINE hits == {i \in start..Len(text) : i \in T}
           f == Min({behind(text)} \cup hits)
<1>1. Len(text) \in Nat /\ behind(text) \in Nat /\ hits \in SUBSET Nat
  BY TextLength
<1> HIDE DEF hits
<1>2. f \in {behind(text)} \cup hits /\ \A m \in {behind(text)} \cup hits : f <= m
  BY <1>1, LeastExists DEF Min
<1> HIDE DEF f
<1> USE DEF hits
<1>3. f \in Nat /\ f <= behind(text) /\ (f < behind(text) => f \in hits)
  BY <1>1, <1>2
<1>4. \A i \in start..Len(text) : i < f => i \notin hits
  BY <1>1, <1>2
<1>5. IsFirst(f, text, start, T)
  BY <1>3, <1>4 DEF IsFirst
<1> QED
  BY <1>5 DEF f

LEMMA OnlyFirst ==
    ASSUME NEW text \in Seq(Byte), NEW start \in Nat \ {0}, NEW T, NEW f, IsFirst(f, text, start, T),
           NEW m \in Nat, start <= m, m <= Len(text), m \in T,
           \A i \in Nat : start <= i /\ i < m => i \notin T
    PROVE  f = m
<1>1. Len(text) \in Nat /\ behind(text) = Len(text) + 1
  BY TextLength
<1>2. f <= m
  BY <1>1 DEF IsFirst
<1>3. f < behind(text) /\ f \in Nat /\ f \in T /\ start <= f
  BY <1>1, <1>2 DEF IsFirst
<1> QED
  BY <1>2, <1>3

(* Where a word stands in a text.                                             *)
Where(text, thing) ==
    {i \in 1..Len(text) : /\ i + Len(thing) - 1 <= Len(text)
                          /\ \A k \in 1..Len(thing) : text[i + k - 1] = thing[k]}
Kind(text, kind) == {i \in 1..Len(text) : text[i] \in kind}

LEMMA FindIs ==
    ASSUME NEW text \in Seq(Byte), NEW start \in Nat \ {0}, NEW thing \in Seq(Byte), Len(thing) >= 1
    PROVE  IsFirst(find(text, start, thing), text, start, Where(text, thing))
<1> DEFINE L == Len(thing)
<1>1. Len(text) \in Nat /\ L \in Nat
  BY TextLength
<1>2. ASSUME NEW i \in start..Len(text)
      PROVE  (i + L - 1 <= Len(text) /\ SubSeq(text, i, i + L - 1) = thing) <=> i \in Where(text, thing)
  <2>1. CASE i + L - 1 <= Len(text)
    <3>0. i \in 1..Len(text) /\ i + L - 1 \in Int /\ i \in Int /\ i <= i + L - 1 /\ (i + L - 1) - i + 1 = L
      BY <1>1
    <3>1. \A j \in i..(i + L - 1) : text[j] \in Byte
      <4>1. \A j \in i..(i + L - 1) : j \in 1..Len(text)
        BY <1>1, <2>1
      <4> QED
        BY <4>1, TextLength
    <3> DEFINE sub == SubSeq(text, i, i + L - 1)
    <3>2. sub \in Seq(Byte) /\ Len(sub) = L /\ \A k \in 1..L : sub[k] = text[i + k - 1]
      BY <3>0, <3>1, SubSeqProperties
    <3> HIDE DEF sub
    <3>3. sub = thing <=> \A k \in 1..L : sub[k] = thing[k]
      <4>1. (\A k \in 1..L : sub[k] = thing[k]) => sub = thing
        BY <3>2, SeqEqual
      <4> QED
        BY <4>1
    <3>4. sub = thing <=> \A k \in 1..L : text[i + k - 1] = thing[k]
      BY <3>2, <3>3
    <3> QED
      BY <2>1, <3>0, <3>4 DEF sub, Where
  <2>2. CASE ~(i + L - 1 <= Len(text))
    BY <2>2 DEF Where
  <2> QED
    BY <2>1, <2>2
<1>3. {i \in start..Len(text) : i + L - 1 <= Len(text) /\ SubSeq(text, i, i + L - 1) = thing}
         = {i \in start..Len(text) : i \in Where(text, thing)}
  BY <1>2
<1>4. find(text, start, thing) = Min({behind(text)} \cup {i \in start..Len(text) : i \in Where(text, thing)})
  BY <1>3 DEF find, first
<1> QED
  BY <1>4, FirstIs

Alphanumerics == {c \in Byte : isAlphanumeric(c)}

LEMMA KindIs ==
    ASSUME NEW text \in Seq(Byte), NEW start \in Nat \ {0}
    PROVE  /\ IsFirst(seek_next_alphanumeric(text, start).at, text, start, Kind(text, Alphanumerics))
           /\ IsFirst(seek_next_non_alphanumeric(text, start).at, text, start, Kind(text, Byte \ Alphanumerics))
           /\ IsFirst(seek_next_whitespace(text, start).at, text, start, Kind(text, Whitespace))
           /\ IsFirst(seek_past_whitespace(text, start), text, start, Kind(text, Byte \ Whitespace))
<1>1. Len(text) \in Nat /\ \A i \in start..Len(text) : i \in 1..Len(text) /\ text[i] \in Byte
  BY TextLength
<1>2. {i \in start..Len(text) : isAlphanumeric(text[i])}
         = {i \in start..Len(text) : i \in Kind(text, Alphanumerics)}
  BY <1>1 DEF Kind, Alphanumerics
<1>3. {i \in start..Len(text) : ~isAlphanumeric(text[i])}
         = {i \in start..Len(text) : i \in Kind(text, Byte \ Alphanumerics)}
  BY <1>1 DEF Kind, Alphanumerics
<1>4. {i \in start..Len(text) : text[i] \in Whitespace}
         = {i \in start..Len(text) : i \in Kind(text, Whitespace)}
  BY <1>1 DEF Kind
<1>5. {i \in start..Len(text) : text[i] \notin Whitespace}
         = {i \in start..Len(text) : i \in Kind(text, Byte \ Whitespace)}
  BY <1>1 DEF Kind
<1>6. IsFirst(seek_next_alphanumeric(text, start).at, text, start, Kind(text, Alphanumerics))
  BY <1>2, FirstIs DEF seek_next_alphanumeric, seek_next, first
<1>7. IsFirst(seek_next_non_alphanumeric(text, start).at, text, start, Kind(text, Byte \ Alphanumerics))
  BY <1>3, FirstIs DEF seek_next_non_alphanumeric, seek_next, first
<1>8. IsFirst(seek_next_whitespace(text, start).at, text, start, Kind(text, Whitespace))
  BY <1>4, FirstIs DEF seek_next_whitespace, seek_next, first
<1>9. IsFirst(seek_past_whitespace(text, start), text, start, Kind(text, Byte \ Whitespace))
  BY <1>5, FirstIs DEF seek_past_whitespace, first
<1> QED
  BY <1>6, <1>7, <1>8, <1>9

(* A reader goes on, and never beyond the end of the text.                    *)
GoesOn(seek, text, start) ==
    /\ seek.at \in Nat /\ seek.cursor \in Nat
    /\ start <= seek.at /\ seek.at <= seek.cursor /\ seek.cursor <= behind(text)

LEMMA SeeksGoOn ==
    ASSUME NEW text \in Seq(Byte), NEW start \in 1..behind(text)
    PROVE  /\ \A thing \in Seq(Byte) : Len(thing) >= 1 =>
                 GoesOn(seek_next_string(text, start, thing), text, start)
           /\ GoesOn(seek_next_alphanumeric(text, start), text, start)
           /\ GoesOn(seek_next_non_alphanumeric(text, start), text, start)
           /\ GoesOn(seek_next_whitespace(text, start), text, start)
           /\ seek_past_whitespace(text, start) \in start..behind(text)
<1>1. Len(text) \in Nat /\ behind(text) = Len(text) + 1 /\ behind(text) \in Nat /\ start \in Nat \ {0}
      /\ start <= behind(text)
  BY TextLength
<1>2. ASSUME NEW f, NEW T, IsFirst(f, text, start, T)
      PROVE  f \in Nat /\ start <= f /\ f <= behind(text)
  BY <1>1, <1>2 DEF IsFirst
<1>3. ASSUME NEW f, NEW T, IsFirst(f, text, start, T)
      PROVE  Min({f + 1, behind(text)}) \in Nat /\ f <= Min({f + 1, behind(text)})
             /\ Min({f + 1, behind(text)}) <= behind(text)
  <2>1. f \in Nat /\ f + 1 \in Nat /\ f <= behind(text)
    BY <1>2, <1>3
  <2>2. Min({f + 1, behind(text)}) \in Nat /\ Min({f + 1, behind(text)}) <= behind(text)
        /\ Min({f + 1, behind(text)}) \in {f + 1, behind(text)}
    BY <1>1, <2>1, MinIs
  <2> QED
    BY <2>1, <2>2
<1>4. ASSUME NEW thing \in Seq(Byte), Len(thing) >= 1
      PROVE  GoesOn(seek_next_string(text, start, thing), text, start)
  <2> DEFINE f == find(text, start, thing)
  <2>1. IsFirst(f, text, start, Where(text, thing)) /\ Len(thing) \in Nat
    BY <1>1, <1>4, FindIs, LenProperties
  <2>2. seek_next_string(text, start, thing)
           = [at |-> f, cursor |-> IF f = behind(text) THEN f ELSE f + Len(thing)]
    BY DEF seek_next_string
  <2> HIDE DEF f
  <2>3. f \in Nat /\ start <= f /\ f <= behind(text)
    BY <1>2, <2>1
  <2>4. f # behind(text) => f + Len(thing) - 1 <= Len(text)
    BY <1>1, <2>1, <2>3 DEF IsFirst, Where
  <2> QED
    BY <1>1, <1>4, <2>1, <2>2, <2>3, <2>4 DEF GoesOn
<1>5. GoesOn(seek_next_alphanumeric(text, start), text, start)
  <2> DEFINE f == seek_next_alphanumeric(text, start).at
  <2>1. IsFirst(f, text, start, Kind(text, Alphanumerics))
    BY <1>1, KindIs
  <2>2. seek_next_alphanumeric(text, start).cursor = Min({f + 1, behind(text)})
    BY DEF seek_next_alphanumeric, seek_next
  <2> QED
    BY <1>2, <1>3, <2>1, <2>2 DEF GoesOn
<1>6. GoesOn(seek_next_non_alphanumeric(text, start), text, start)
  <2> DEFINE f == seek_next_non_alphanumeric(text, start).at
  <2>1. IsFirst(f, text, start, Kind(text, Byte \ Alphanumerics))
    BY <1>1, KindIs
  <2>2. seek_next_non_alphanumeric(text, start).cursor = Min({f + 1, behind(text)})
    BY DEF seek_next_non_alphanumeric, seek_next
  <2> QED
    BY <1>2, <1>3, <2>1, <2>2 DEF GoesOn
<1>7. GoesOn(seek_next_whitespace(text, start), text, start)
  <2> DEFINE f == seek_next_whitespace(text, start).at
  <2>1. IsFirst(f, text, start, Kind(text, Whitespace))
    BY <1>1, KindIs
  <2>2. seek_next_whitespace(text, start).cursor = Min({f + 1, behind(text)})
    BY DEF seek_next_whitespace, seek_next
  <2> QED
    BY <1>2, <1>3, <2>1, <2>2 DEF GoesOn
<1>8. seek_past_whitespace(text, start) \in start..behind(text)
  <2>1. IsFirst(seek_past_whitespace(text, start), text, start, Kind(text, Byte \ Whitespace))
    BY <1>1, KindIs
  <2> HIDE DEF seek_past_whitespace
  <2> QED
    BY <1>1, <1>2, <2>1
<1> QED
  BY <1>4, <1>5, <1>6, <1>7, <1>8

-----------------------------------------------------------------------------
(* Where the parts of a line stand in it.                                     *)

(* Names for two bytes which the provers cannot spell.                        *)
Semicolon == ";"
Space == " "

LEMMA BytesApart ==
    /\ Whitespace = {Space, "TAB", "CR", "LF"}
    /\ Semicolon \notin {Space, "CR", "LF", "NUL", "@", "=", "/", ":", "#", "!", "P", "RIVM", "SG", "0", "1",
                       "display-name", "broadcaster", "mod", "subscriber", "user-id"}
    /\ Space \notin {"CR", "LF", "NUL", "@", "=", "/", ":", "#", "!", "P", "RIVM", "SG", "0", "1",
                   "display-name", "broadcaster", "mod", "subscriber", "user-id"}
    /\ Semicolon \in Part /\ Space \in Part
  BY Literals DEF Semicolon, Space, Whitespace

(* a stands in T behind the first o bytes.                                    *)
StandsAt(a, T, o) == o + Len(a) <= Len(T) /\ \A k \in 1..Len(a) : T[o + k] = a[k]

Joins(z, x, y) == z = x \o y

LEMMA Grown ==
    ASSUME NEW S, NEW x \in Seq(S), NEW y \in Seq(S), NEW z, Joins(z, x, y)
    PROVE  z \in Seq(S) /\ Len(x) \in Nat /\ Len(y) \in Nat /\ Len(z) = Len(x) + Len(y)
  BY ConcatProperties, LenProperties DEF Joins

LEMMA Peel ==
    ASSUME NEW S, NEW x \in Seq(S), NEW y \in Seq(S), NEW z, Joins(z, x, y),
           NEW T \in Seq(S), StandsAt(z, T, 0)
    PROVE  StandsAt(x, T, 0) /\ StandsAt(y, T, Len(x))
<1> DEFINE a == Len(x)
           b == Len(y)
<1>1. a \in Nat /\ b \in Nat /\ Len(T) \in Nat /\ Len(z) = a + b
  BY Grown, LenProperties
<1>2. \A k \in 1..(a + b) : z[k] = IF k <= a THEN x[k] ELSE y[k - a]
  BY ConcatProperties DEF Joins
<1>3. 0 + Len(z) <= Len(T) /\ \A k \in 1..(a + b) : T[0 + k] = z[k]
  BY <1>1 DEF StandsAt
<1> HIDE DEF a, b
<1>4. ASSUME NEW k \in 1..a PROVE T[0 + k] = x[k]
  BY <1>1, <1>2, <1>3
<1>5. ASSUME NEW k \in 1..b PROVE T[a + k] = y[k]
  <2>1. a + k \in 1..(a + b) /\ ~(a + k <= a) /\ (a + k) - a = k /\ 0 + (a + k) = a + k
    BY <1>1
  <2>2. z[a + k] = y[(a + k) - a]
    BY <1>2, <2>1
  <2>3. T[0 + (a + k)] = z[a + k]
    BY <1>3, <2>1
  <2> QED
    BY <2>1, <2>2, <2>3
<1>6. 0 + a <= Len(T) /\ a + b <= Len(T)
  BY <1>1, <1>3
<1> QED
  BY <1>4, <1>5, <1>6 DEF StandsAt, a, b

(* How many bytes of a line stand in front of its parts: the label of the     *)
(* display name, what follows that name, what follows the tags.               *)
toLabel(author) == IF "broadcaster" \in author.roles THEN 5 ELSE 1
toNameEnd(author) == toLabel(author) + 2 + Len(author.displayName)
toTagsEnd(author) == toNameEnd(author) + 12 + Len(append_u64(author.id))

TagsStand(author, T) ==
    LET l == toLabel(author)
        e == toNameEnd(author)
        B == toTagsEnd(author) IN
    /\ T[1] = "@"
    /\ "broadcaster" \in author.roles => T[2] = "broadcaster" /\ T[3] = "/" /\ T[4] = "1" /\ T[5] = Semicolon
    /\ T[l + 1] = "display-name" /\ T[l + 2] = "="
    /\ StandsAt(author.displayName, T, l + 2)
    /\ T[e + 1] = Semicolon /\ T[e + 2] = "mod" /\ T[e + 3] = "=" /\ T[e + 4] = bit(author, "moderator")
    /\ T[e + 5] = Semicolon /\ T[e + 6] = "subscriber" /\ T[e + 7] = "=" /\ T[e + 8] = bit(author, "subscriber")
    /\ T[e + 9] = Semicolon /\ T[e + 10] = "user-id" /\ T[e + 11] = "="
    /\ StandsAt(append_u64(author.id), T, e + 11)
    /\ T[B] = Space /\ B <= Len(T)

LEMMA TagsStandAt ==
    ASSUME NEW author \in Viewer, NEW T \in Seq(Part), StandsAt(tagsOf(author), T, 0)
    PROVE  Len(tagsOf(author)) = toTagsEnd(author) /\ TagsStand(author, T)
<1> DEFINE name == author.displayName
           digits == append_u64(author.id)
           bc == IF "broadcaster" \in author.roles THEN Broadcaster \o <<"1", Semicolon>> ELSE <<>>
           m == <<bit(author, "moderator"), Semicolon>>
           u == <<bit(author, "subscriber"), Semicolon>>
           semicolon == <<Semicolon>>
           space == <<Space>>
           x0 == <<"@">>
           x1 == x0 \o bc
           x2 == x1 \o DisplayName
           x3 == x2 \o name
           x4 == x3 \o semicolon
           x5 == x4 \o Mod
           x6 == x5 \o m
           x7 == x6 \o Subscriber
           x8 == x7 \o u
           x9 == x8 \o UserId
           x10 == x9 \o digits
           x11 == x10 \o space
<1>1. name \in Seq(Part) /\ digits \in Seq(Part)
  BY Literals, NumberIs DEF Viewer
<1>2. m \in Seq(Part) /\ u \in Seq(Part)
  <2>1. ASSUME NEW role PROVE <<bit(author, role), Semicolon>> \in Seq(Part)
    <3>1. bit(author, role) \in Part /\ Semicolon \in Part
      BY Literals, BytesApart DEF bit
    <3> QED
      BY <3>1, Two
  <2> QED
    BY <2>1
<1>3. bc \in Seq(Part)
  <2>1. <<"1", Semicolon>> \in Seq(Part)
    BY Literals, BytesApart, Two
  <2> QED
    BY <2>1, Literals, Joined
<1>4. /\ Len(bc) = toLabel(author) - 1
      /\ "broadcaster" \in author.roles =>
            Len(bc) = 4 /\ bc[1] = "broadcaster" /\ bc[2] = "/" /\ bc[3] = "1" /\ bc[4] = Semicolon
  <2>1. CASE "broadcaster" \in author.roles
    <3>1. bc = Broadcaster \o <<"1", Semicolon>>
      BY <2>1
    <3> HIDE DEF bc
    <3> DEFINE one == <<"1", Semicolon>>
    <3>2. Broadcaster \in Seq(Part) /\ one \in Seq(Part)
      BY Literals, BytesApart, Two
    <3>3. /\ Len(Broadcaster) = 2 /\ Broadcaster[1] = "broadcaster" /\ Broadcaster[2] = "/"
          /\ Len(one) = 2 /\ one[1] = "1" /\ one[2] = Semicolon
      BY DEF Broadcaster
    <3> HIDE DEF one
    <3>4. bc = Broadcaster \o one
      BY <3>1 DEF one
    <3>5. /\ Len(bc) = Len(Broadcaster) + Len(one)
          /\ \A k \in 1..(Len(Broadcaster) + Len(one)) :
                bc[k] = IF k <= Len(Broadcaster) THEN Broadcaster[k] ELSE one[k - Len(Broadcaster)]
      BY <3>2, <3>4, ConcatProperties, Zenon
    <3>6. toLabel(author) = 5
      BY <2>1 DEF toLabel
    <3> QED
      BY <3>3, <3>5, <3>6
  <2>2. CASE "broadcaster" \notin author.roles
    <3>1. bc = <<>>
      BY <2>2
    <3> HIDE DEF bc
    <3>2. toLabel(author) = 1
      BY <2>2 DEF toLabel
    <3> QED
      BY <2>2, <3>1, <3>2
  <2> QED
    BY <2>1, <2>2
<1>5. tagsOf(author) = x11
  BY DEF tagsOf, Semicolon, Space
<1>6. x0 \in Seq(Part) /\ Len(x0) = 1 /\ x0[1] = "@"
  BY Literals
<1>7. Len(m) = 2 /\ m[1] = bit(author, "moderator") /\ m[2] = Semicolon
  OBVIOUS
<1>8. Len(u) = 2 /\ u[1] = bit(author, "subscriber") /\ u[2] = Semicolon
  OBVIOUS
<1>9a. DisplayName \in Seq(Part) /\ Len(DisplayName) = 2
  BY Literals DEF DisplayName
<1>9b. Mod \in Seq(Part) /\ Len(Mod) = 2
  BY Literals DEF Mod
<1>9c. Subscriber \in Seq(Part) /\ Len(Subscriber) = 2
  BY Literals DEF Subscriber
<1>9d. UserId \in Seq(Part) /\ Len(UserId) = 2
  BY Literals DEF UserId
<1>9e. semicolon \in Seq(Part) /\ Len(semicolon) = 1 /\ semicolon[1] = Semicolon
  BY BytesApart
<1>9f. space \in Seq(Part) /\ Len(space) = 1 /\ space[1] = Space
  BY BytesApart
<1>10. ASSUME NEW T1, NEW c, NEW o \in Nat, Len(c) = 1, StandsAt(c, T1, o) PROVE T1[o + 1] = c[1]
  BY <1>10 DEF StandsAt
<1>11. ASSUME NEW T1, NEW c, NEW o \in Nat, Len(c) = 2, StandsAt(c, T1, o)
       PROVE  T1[o + 1] = c[1] /\ T1[o + 2] = c[2]
  BY <1>11 DEF StandsAt
<1>81. Joins(x1, x0, bc)
  BY DEF Joins
<1>82. Joins(x2, x1, DisplayName)
  BY DEF Joins
<1>83. Joins(x3, x2, name)
  BY DEF Joins
<1>84. Joins(x4, x3, semicolon)
  BY DEF Joins
<1>85. Joins(x5, x4, Mod)
  BY DEF Joins
<1>86. Joins(x6, x5, m)
  BY DEF Joins
<1>87. Joins(x7, x6, Subscriber)
  BY DEF Joins
<1>88. Joins(x8, x7, u)
  BY DEF Joins
<1>89. Joins(x9, x8, UserId)
  BY DEF Joins
<1>90. Joins(x10, x9, digits)
  BY DEF Joins
<1>91. Joins(x11, x10, space)
  BY DEF Joins
<1> HIDE DEF name, digits, bc, m, u, semicolon, space, x0, x1, x2, x3, x4, x5, x6, x7, x8, x9, x10, x11
<1>20. x1 \in Seq(Part) /\ Len(x1) = Len(x0) + Len(bc)
  <2>1. x0 \in Seq(Part) /\ bc \in Seq(Part)
    BY <1>6, <1>3
  <2> QED
    BY <1>81, <2>1, Grown
<1>21. x2 \in Seq(Part) /\ Len(x2) = Len(x1) + Len(DisplayName)
  BY <1>20, <1>9a, <1>82, Grown
<1>22. x3 \in Seq(Part) /\ Len(x3) = Len(x2) + Len(name)
  BY <1>21, <1>1, <1>83, Grown
<1>23. x4 \in Seq(Part) /\ Len(x4) = Len(x3) + Len(semicolon)
  BY <1>22, <1>9e, <1>84, Grown
<1>24. x5 \in Seq(Part) /\ Len(x5) = Len(x4) + Len(Mod)
  BY <1>23, <1>9b, <1>85, Grown
<1>25. x6 \in Seq(Part) /\ Len(x6) = Len(x5) + Len(m)
  BY <1>24, <1>2, <1>86, Grown
<1>26. x7 \in Seq(Part) /\ Len(x7) = Len(x6) + Len(Subscriber)
  BY <1>25, <1>9c, <1>87, Grown
<1>27. x8 \in Seq(Part) /\ Len(x8) = Len(x7) + Len(u)
  BY <1>26, <1>2, <1>88, Grown
<1>28. x9 \in Seq(Part) /\ Len(x9) = Len(x8) + Len(UserId)
  BY <1>27, <1>9d, <1>89, Grown
<1>29. x10 \in Seq(Part) /\ Len(x10) = Len(x9) + Len(digits)
  BY <1>28, <1>1, <1>90, Grown
<1>30. x11 \in Seq(Part) /\ Len(x11) = Len(x10) + Len(space)
  BY <1>29, <1>9f, <1>91, Grown
<1>40. StandsAt(x11, T, 0)
  BY <1>5
<1>41. StandsAt(x10, T, 0) /\ StandsAt(space, T, Len(x10))
  BY <1>29, <1>9f, <1>40, <1>91, Peel
<1>42. StandsAt(x9, T, 0) /\ StandsAt(digits, T, Len(x9))
  BY <1>28, <1>1, <1>41, <1>90, Peel
<1>43. StandsAt(x8, T, 0) /\ StandsAt(UserId, T, Len(x8))
  BY <1>27, <1>9d, <1>42, <1>89, Peel
<1>44. StandsAt(x7, T, 0) /\ StandsAt(u, T, Len(x7))
  BY <1>26, <1>2, <1>43, <1>88, Peel
<1>45. StandsAt(x6, T, 0) /\ StandsAt(Subscriber, T, Len(x6))
  BY <1>25, <1>9c, <1>44, <1>87, Peel
<1>46. StandsAt(x5, T, 0) /\ StandsAt(m, T, Len(x5))
  BY <1>24, <1>2, <1>45, <1>86, Peel
<1>47. StandsAt(x4, T, 0) /\ StandsAt(Mod, T, Len(x4))
  BY <1>23, <1>9b, <1>46, <1>85, Peel
<1>48. StandsAt(x3, T, 0) /\ StandsAt(semicolon, T, Len(x3))
  BY <1>22, <1>9e, <1>47, <1>84, Peel
<1>49. StandsAt(x2, T, 0) /\ StandsAt(name, T, Len(x2))
  BY <1>21, <1>1, <1>48, <1>83, Peel
<1>50. StandsAt(x1, T, 0) /\ StandsAt(DisplayName, T, Len(x1))
  BY <1>20, <1>9a, <1>49, <1>82, Peel
<1>51. StandsAt(x0, T, 0) /\ StandsAt(bc, T, 1)
  BY <1>3, <1>6, <1>50, <1>81, Peel
<1> DEFINE l == toLabel(author)
           e == toNameEnd(author)
           B == toTagsEnd(author)
<1>60. l \in Nat /\ Len(name) \in Nat /\ Len(digits) \in Nat
  BY <1>1, LenProperties DEF toLabel
<1>61. e = l + 2 + Len(name) /\ B = e + 12 + Len(digits)
  BY DEF toNameEnd, toTagsEnd, name, digits
<1> HIDE DEF l, e, B
<1>62. /\ e \in Nat /\ Len(x1) = l /\ Len(x2) = l + 2 /\ Len(x3) = e /\ Len(x4) = e + 1 /\ Len(x5) = e + 3
       /\ Len(x6) = e + 5 /\ Len(x7) = e + 7 /\ Len(x8) = e + 9 /\ Len(x9) = e + 11
       /\ Len(x10) = e + 11 + Len(digits) /\ Len(x11) = B
  <2>1. e \in Nat /\ Len(x1) = l /\ Len(x2) = l + 2 /\ Len(x3) = e
    <3>1. Len(x1) = l
      BY <1>4, <1>6, <1>20, <1>60 DEF l
    <3> QED
      BY <1>9a, <1>21, <1>22, <1>60, <1>61, <3>1
  <2>2. Len(x4) = e + 1 /\ Len(x5) = e + 3 /\ Len(x6) = e + 5
    BY <1>7, <1>9b, <1>9e, <1>23, <1>24, <1>25, <2>1
  <2>3. Len(x7) = e + 7 /\ Len(x8) = e + 9 /\ Len(x9) = e + 11
    BY <1>8, <1>9c, <1>9d, <1>26, <1>27, <1>28, <2>1, <2>2
  <2>4. Len(x10) = e + 11 + Len(digits) /\ Len(x11) = B
    BY <1>9f, <1>29, <1>30, <1>60, <1>61, <2>1, <2>3
  <2> QED
    BY <2>1, <2>2, <2>3, <2>4
<1>63. T[1] = "@"
  BY <1>51, <1>6 DEF StandsAt
<1>64. "broadcaster" \in author.roles => T[2] = "broadcaster" /\ T[3] = "/" /\ T[4] = "1" /\ T[5] = Semicolon
  BY <1>51, <1>4 DEF StandsAt
<1>65. T[l + 1] = "display-name" /\ T[l + 2] = "="
  BY <1>9a, <1>11, <1>50, <1>60, <1>62 DEF DisplayName
<1>66. T[e + 1] = Semicolon
  BY <1>9e, <1>10, <1>48, <1>62
<1>67. T[e + 2] = "mod" /\ T[e + 3] = "="
  <2>0. StandsAt(Mod, T, e + 1) /\ e + 1 \in Nat
    BY <1>47, <1>62
  <2>1. T[(e + 1) + 1] = Mod[1] /\ T[(e + 1) + 2] = Mod[2]
    BY <1>9b, <1>11, <2>0
  <2>2. (e + 1) + 1 = e + 2 /\ (e + 1) + 2 = e + 3
    BY <1>62
  <2> QED
    BY <2>1, <2>2 DEF Mod
<1>68. T[e + 4] = bit(author, "moderator") /\ T[e + 5] = Semicolon
  <2>0. StandsAt(m, T, e + 3) /\ e + 3 \in Nat
    BY <1>46, <1>62
  <2>1. T[(e + 3) + 1] = m[1] /\ T[(e + 3) + 2] = m[2]
    BY <1>7, <1>11, <2>0
  <2>2. (e + 3) + 1 = e + 4 /\ (e + 3) + 2 = e + 5
    BY <1>62
  <2> QED
    BY <1>7, <2>1, <2>2
<1>69. T[e + 6] = "subscriber" /\ T[e + 7] = "="
  <2>0. StandsAt(Subscriber, T, e + 5) /\ e + 5 \in Nat
    BY <1>45, <1>62
  <2>1. T[(e + 5) + 1] = Subscriber[1] /\ T[(e + 5) + 2] = Subscriber[2]
    BY <1>9c, <1>11, <2>0
  <2>2. (e + 5) + 1 = e + 6 /\ (e + 5) + 2 = e + 7
    BY <1>62
  <2> QED
    BY <2>1, <2>2 DEF Subscriber
<1>70. T[e + 8] = bit(author, "subscriber") /\ T[e + 9] = Semicolon
  <2>0. StandsAt(u, T, e + 7) /\ e + 7 \in Nat
    BY <1>44, <1>62
  <2>1. T[(e + 7) + 1] = u[1] /\ T[(e + 7) + 2] = u[2]
    BY <1>8, <1>11, <2>0
  <2>2. (e + 7) + 1 = e + 8 /\ (e + 7) + 2 = e + 9
    BY <1>62
  <2> QED
    BY <1>8, <2>1, <2>2
<1>71. T[e + 10] = "user-id" /\ T[e + 11] = "="
  <2>0. StandsAt(UserId, T, e + 9) /\ e + 9 \in Nat
    BY <1>43, <1>62
  <2>1. T[(e + 9) + 1] = UserId[1] /\ T[(e + 9) + 2] = UserId[2]
    BY <1>9d, <1>11, <2>0
  <2>2. (e + 9) + 1 = e + 10 /\ (e + 9) + 2 = e + 11
    BY <1>62
  <2> QED
    BY <2>1, <2>2 DEF UserId
<1>72. T[B] = Space /\ B <= Len(T)
  <2>1. Len(x10) \in Nat /\ Len(x10) + 1 = B
    BY <1>60, <1>61, <1>62
  <2>2. Len(x11) <= Len(T)
    <3>1. 0 + Len(x11) <= Len(T) /\ Len(x11) \in Nat
      BY <1>30, <1>40, LenProperties DEF StandsAt
    <3> QED
      BY <3>1
  <2> QED
    BY <1>9f, <1>10, <1>41, <1>62, <2>1, <2>2
<1>73. StandsAt(name, T, l + 2) /\ StandsAt(digits, T, e + 11)
  BY <1>42, <1>49, <1>62
<1>74. TagsStand(author, T)
  BY <1>63, <1>64, <1>65, <1>66, <1>67, <1>68, <1>69, <1>70, <1>71, <1>72, <1>73
     DEF TagsStand, l, e, B, name, digits
<1> QED
  BY <1>5, <1>62, <1>74 DEF B

toText(said) == IF said.tagged THEN toTagsEnd(said.author) ELSE 0
toChannelEnd(said) == toText(said) + 6 + Len(said.channel)
toCmdEnd(said) == toChannelEnd(said) + 3 + Len(said.cmd)

Chat == [kind : {"chat"}, author : Viewer, tagged : BOOLEAN,
         channel : Bytes, cmd : Bytes, cmdMessage : Bytes]

ChatStands(said) ==
    LET T == textOf(said)
        B == toText(said)
        c == toChannelEnd(said)
        d == toCmdEnd(said) IN
    /\ said.tagged => TagsStand(said.author, T)
    /\ T[B + 1] = ":" /\ T[B + 2] = "P" /\ T[B + 3] = "RIVM" /\ T[B + 4] = "SG"
    /\ T[B + 5] = Space /\ T[B + 6] = "#"
    /\ StandsAt(said.channel, T, B + 6)
    /\ T[c + 1] = Space /\ T[c + 2] = ":" /\ T[c + 3] = "!"
    /\ StandsAt(said.cmd, T, c + 3)
    /\ T[d + 1] = Space
    /\ StandsAt(said.cmdMessage, T, d + 1)
    /\ Len(T) = d + 1 + Len(said.cmdMessage)

LEMMA ChatStandsThere ==
    ASSUME NEW said \in Chat
    PROVE  ChatStands(said)
<1> DEFINE T == textOf(said)
           channel == said.channel
           cmd == said.cmd
           cmdMessage == said.cmdMessage
           colon == <<":">>
           hash == <<Space, "#">>
           bang == <<Space, ":", "!">>
           space == <<Space>>
           y0 == IF said.tagged THEN tagsOf(said.author) ELSE <<>>
           y1 == y0 \o colon
           y2 == y1 \o PRIVMSG
           y3 == y2 \o hash
           y4 == y3 \o channel
           y5 == y4 \o bang
           y6 == y5 \o cmd
           y7 == y6 \o space
           y8 == y7 \o cmdMessage
<1>1. channel \in Seq(Part) /\ cmd \in Seq(Part) /\ cmdMessage \in Seq(Part) /\ said.author \in Viewer
  BY Literals DEF Chat
<1>2. y0 \in Seq(Part)
  BY <1>1, TagsAre, Literals
<1>3. T = y8
  BY DEF textOf, Chat, Space
<1>4. colon \in Seq(Part) /\ Len(colon) = 1 /\ colon[1] = ":"
  <2>1. ":" \in Part
    BY Literals
  <2> QED
    BY <2>1
<1>5. PRIVMSG \in Seq(Part) /\ Len(PRIVMSG) = 3 /\ PRIVMSG[1] = "P" /\ PRIVMSG[2] = "RIVM" /\ PRIVMSG[3] = "SG"
  BY Literals DEF PRIVMSG
<1>6. hash \in Seq(Part) /\ Len(hash) = 2 /\ hash[1] = Space /\ hash[2] = "#"
  <2>1. Space \in Part /\ "#" \in Part
    BY Literals, BytesApart
  <2> QED
    BY <2>1, Two
<1>7. bang \in Seq(Part) /\ Len(bang) = 3 /\ bang[1] = Space /\ bang[2] = ":" /\ bang[3] = "!"
  <2>1. Space \in Part /\ ":" \in Part /\ "!" \in Part
    BY Literals, BytesApart
  <2> QED
    BY <2>1, Three
<1>8. space \in Seq(Part) /\ Len(space) = 1 /\ space[1] = Space
  BY BytesApart
<1>9. ASSUME NEW c, NEW o \in Nat, StandsAt(c, T, o)
      PROVE  /\ Len(c) = 1 => T[o + 1] = c[1]
             /\ Len(c) = 2 => T[o + 1] = c[1] /\ T[o + 2] = c[2]
             /\ Len(c) = 3 => T[o + 1] = c[1] /\ T[o + 2] = c[2] /\ T[o + 3] = c[3]
  <2> HIDE DEF T
  <2> QED
    BY <1>9 DEF StandsAt
<1>11. Joins(y1, y0, colon)
  BY DEF Joins
<1>12. Joins(y2, y1, PRIVMSG)
  BY DEF Joins
<1>13. Joins(y3, y2, hash)
  BY DEF Joins
<1>14. Joins(y4, y3, channel)
  BY DEF Joins
<1>15. Joins(y5, y4, bang)
  BY DEF Joins
<1>16. Joins(y6, y5, cmd)
  BY DEF Joins
<1>17. Joins(y7, y6, space)
  BY DEF Joins
<1>18. Joins(y8, y7, cmdMessage)
  BY DEF Joins
<1>19. y0 = IF said.tagged THEN tagsOf(said.author) ELSE <<>>
  OBVIOUS
<1> HIDE DEF T, channel, cmd, cmdMessage, colon, hash, bang, space, y0, y1, y2, y3, y4, y5, y6, y7, y8
<1>21. y1 \in Seq(Part) /\ Len(y1) = Len(y0) + Len(colon)
  BY <1>2, <1>4, <1>11, Grown
<1>22. y2 \in Seq(Part) /\ Len(y2) = Len(y1) + Len(PRIVMSG)
  BY <1>21, <1>5, <1>12, Grown
<1>23. y3 \in Seq(Part) /\ Len(y3) = Len(y2) + Len(hash)
  BY <1>22, <1>6, <1>13, Grown
<1>24. y4 \in Seq(Part) /\ Len(y4) = Len(y3) + Len(channel)
  BY <1>23, <1>1, <1>14, Grown
<1>25. y5 \in Seq(Part) /\ Len(y5) = Len(y4) + Len(bang)
  BY <1>24, <1>7, <1>15, Grown
<1>26. y6 \in Seq(Part) /\ Len(y6) = Len(y5) + Len(cmd)
  BY <1>25, <1>1, <1>16, Grown
<1>27. y7 \in Seq(Part) /\ Len(y7) = Len(y6) + Len(space)
  BY <1>26, <1>8, <1>17, Grown
<1>28. y8 \in Seq(Part) /\ Len(y8) = Len(y7) + Len(cmdMessage)
  BY <1>27, <1>1, <1>18, Grown
<1>30. T \in Seq(Part) /\ Len(T) \in Nat /\ StandsAt(y8, T, 0)
  <2>1. T \in Seq(Part) /\ Len(T) \in Nat
    BY <1>3, <1>28, LenProperties
  <2> QED
    BY <1>3, <2>1 DEF StandsAt
<1>31. StandsAt(y7, T, 0) /\ StandsAt(cmdMessage, T, Len(y7))
  BY <1>27, <1>1, <1>30, <1>18, Peel
<1>32. StandsAt(y6, T, 0) /\ StandsAt(space, T, Len(y6))
  BY <1>26, <1>8, <1>30, <1>31, <1>17, Peel
<1>33. StandsAt(y5, T, 0) /\ StandsAt(cmd, T, Len(y5))
  BY <1>25, <1>1, <1>30, <1>32, <1>16, Peel
<1>34. StandsAt(y4, T, 0) /\ StandsAt(bang, T, Len(y4))
  BY <1>24, <1>7, <1>30, <1>33, <1>15, Peel
<1>35. StandsAt(y3, T, 0) /\ StandsAt(channel, T, Len(y3))
  BY <1>23, <1>1, <1>30, <1>34, <1>14, Peel
<1>36. StandsAt(y2, T, 0) /\ StandsAt(hash, T, Len(y2))
  BY <1>22, <1>6, <1>30, <1>35, <1>13, Peel
<1>37. StandsAt(y1, T, 0) /\ StandsAt(PRIVMSG, T, Len(y1))
  BY <1>21, <1>5, <1>30, <1>36, <1>12, Peel
<1>38. StandsAt(y0, T, 0) /\ StandsAt(colon, T, Len(y0))
  BY <1>2, <1>4, <1>30, <1>37, <1>11, Peel
<1>39. said.tagged => Len(y0) = toTagsEnd(said.author) /\ TagsStand(said.author, T)
  <2> SUFFICES ASSUME said.tagged PROVE Len(y0) = toTagsEnd(said.author) /\ TagsStand(said.author, T)
    OBVIOUS
  <2>1. y0 = tagsOf(said.author)
    BY <1>19
  <2> QED
    BY <1>1, <1>30, <1>38, <2>1, TagsStandAt
<1> DEFINE B == toText(said)
           c == toChannelEnd(said)
           d == toCmdEnd(said)
<1>40. B = Len(y0)
  <2>1. CASE said.tagged
    BY <2>1, <1>39 DEF toText
  <2>2. CASE ~said.tagged
    <3>1. Len(y0) = 0
      BY <1>19, <2>2
    <3> QED
      BY <2>2, <3>1 DEF toText
  <2> QED
    BY <2>1, <2>2
<1>41. c = B + 6 + Len(channel) /\ d = c + 3 + Len(cmd)
  BY DEF toChannelEnd, toCmdEnd, channel, cmd
<1>42. Len(y0) \in Nat /\ Len(channel) \in Nat /\ Len(cmd) \in Nat /\ Len(cmdMessage) \in Nat
  BY <1>1, <1>2, LenProperties
<1> HIDE DEF B, c, d
<1>43. /\ B \in Nat /\ c \in Nat /\ d \in Nat /\ Len(y1) = B + 1 /\ Len(y2) = B + 4 /\ Len(y3) = B + 6
       /\ Len(y4) = c /\ Len(y5) = c + 3 /\ Len(y6) = d /\ Len(y7) = d + 1
       /\ Len(y8) = d + 1 + Len(cmdMessage)
  <2>1. B \in Nat /\ Len(y1) = B + 1 /\ Len(y2) = B + 4 /\ Len(y3) = B + 6
    BY <1>4, <1>5, <1>6, <1>21, <1>22, <1>23, <1>40, <1>42
  <2>2. c \in Nat /\ Len(y4) = c /\ Len(y5) = c + 3
    BY <1>7, <1>24, <1>25, <1>41, <1>42, <2>1
  <2>3. d \in Nat /\ Len(y6) = d /\ Len(y7) = d + 1 /\ Len(y8) = d + 1 + Len(cmdMessage)
    BY <1>8, <1>26, <1>27, <1>28, <1>41, <1>42, <2>2
  <2> QED
    BY <2>1, <2>2, <2>3
<1>44. T[B + 1] = ":"
  BY <1>4, <1>9, <1>38, <1>40, <1>43
<1>45. T[B + 2] = "P" /\ T[B + 3] = "RIVM" /\ T[B + 4] = "SG"
  <2>1. StandsAt(PRIVMSG, T, B + 1) /\ B + 1 \in Nat
    BY <1>37, <1>43
  <2>2. T[(B + 1) + 1] = "P" /\ T[(B + 1) + 2] = "RIVM" /\ T[(B + 1) + 3] = "SG"
    BY <1>5, <1>9, <2>1
  <2>3. (B + 1) + 1 = B + 2 /\ (B + 1) + 2 = B + 3 /\ (B + 1) + 3 = B + 4
    BY <1>43
  <2> QED
    BY <2>2, <2>3
<1>46. T[B + 5] = Space /\ T[B + 6] = "#"
  <2>1. StandsAt(hash, T, B + 4) /\ B + 4 \in Nat
    BY <1>36, <1>43
  <2>2. T[(B + 4) + 1] = Space /\ T[(B + 4) + 2] = "#"
    BY <1>6, <1>9, <2>1
  <2>3. (B + 4) + 1 = B + 5 /\ (B + 4) + 2 = B + 6
    BY <1>43
  <2> QED
    BY <2>2, <2>3
<1>47. T[c + 1] = Space /\ T[c + 2] = ":" /\ T[c + 3] = "!"
  BY <1>7, <1>9, <1>34, <1>43
<1>48. T[d + 1] = Space
  BY <1>8, <1>9, <1>32, <1>43
<1>49. StandsAt(channel, T, B + 6) /\ StandsAt(cmd, T, c + 3) /\ StandsAt(cmdMessage, T, d + 1)
  BY <1>31, <1>33, <1>35, <1>43
<1>50. Len(T) = d + 1 + Len(cmdMessage)
  BY <1>3, <1>43
<1> QED
  BY <1>39, <1>44, <1>45, <1>46, <1>47, <1>48, <1>49, <1>50
     DEF ChatStands, T, B, c, d, channel, cmd, cmdMessage

-----------------------------------------------------------------------------
(* Searches in a piece of a line.                                             *)

(* t is what follows the first z bytes of T, as far as it came; with the last *)
(* byte of the line before if z is -1.                                        *)
Slice(t, T, z) ==
    /\ t \in Seq(Byte) /\ z \in Int /\ z >= -1
    /\ Len(T) \in Nat /\ Len(t) + z <= Len(T)
    /\ \A i \in 1..Len(t) : t[i] = IF i + z = 0 THEN "LF" ELSE T[i + z]

OccursAt(thing, T, p) == \A k \in 1..Len(thing) : T[p + k - 1] = thing[k]

(* The first place from start on at which the word stands is p.               *)
WordAt(t, T, z, start, thing, p) ==
    /\ Slice(t, T, z) /\ start \in Nat \ {0} /\ p \in Nat \ {0}
    /\ thing \in Seq(Byte) /\ Len(thing) >= 1 /\ thing[1] # "LF"
    /\ start + z <= p /\ p + Len(thing) - 1 <= Len(t) + z
    /\ OccursAt(thing, T, p)
    /\ \A q \in Nat \ {0} : start + z <= q /\ q < p => ~OccursAt(thing, T, q)

LEMMA WordFound ==
    ASSUME NEW t, NEW T, NEW z, NEW start, NEW thing, NEW p, WordAt(t, T, z, start, thing, p)
    PROVE  /\ seek_next_string(t, start, thing).at = p - z
           /\ seek_next_string(t, start, thing).cursor = p - z + Len(thing)
<1>0. /\ Slice(t, T, z) /\ start \in Nat \ {0} /\ p \in Nat \ {0}
      /\ thing \in Seq(Byte) /\ Len(thing) >= 1 /\ thing[1] # "LF"
      /\ start + z <= p /\ p + Len(thing) - 1 <= Len(t) + z
      /\ OccursAt(thing, T, p)
      /\ \A q \in Nat \ {0} : start + z <= q /\ q < p => ~OccursAt(thing, T, q)
  BY DEF WordAt
<1> DEFINE m == p - z
           L == Len(thing)
<1>1. t \in Seq(Byte) /\ Len(t) \in Nat /\ L \in Nat /\ z \in Int /\ z >= -1 /\ behind(t) = Len(t) + 1
  BY <1>0, TextLength, LenProperties DEF Slice
<1>2. m \in Nat /\ start <= m /\ m <= Len(t) /\ m + L - 1 <= Len(t)
  BY <1>0, <1>1
<1>3. m \in Where(t, thing)
  <2>1. ASSUME NEW k \in 1..L PROVE t[m + k - 1] = thing[k]
    <3>1. m + k - 1 \in 1..Len(t) /\ (m + k - 1) + z = p + k - 1 /\ p + k - 1 # 0
      BY <1>0, <1>1, <1>2
    <3>2. t[m + k - 1] = T[p + k - 1]
      BY <1>0, <3>1 DEF Slice
    <3> QED
      BY <1>0, <3>2 DEF OccursAt
  <2> QED
    BY <1>0, <1>2, <2>1 DEF Where
<1>4. ASSUME NEW i \in Nat, start <= i, i < m, i \in Where(t, thing) PROVE FALSE
  <2> DEFINE q == i + z
  <2>1. i \in 1..Len(t) /\ q \in Nat /\ start + z <= q /\ q < p
    BY <1>0, <1>1, <1>2, <1>4
  <2>2. \A k \in 1..L : t[i + k - 1] = thing[k]
    BY <1>4 DEF Where
  <2>3. CASE q = 0
    <3>1. t[i] = "LF"
      BY <1>0, <2>1, <2>3 DEF Slice
    <3>2. 1 \in 1..L /\ i + 1 - 1 = i
      BY <1>0, <1>1
    <3>3. t[i] = thing[1]
      BY <2>2, <3>2
    <3> QED
      BY <1>0, <3>1, <3>3
  <2>4. CASE q # 0
    <3>1. PICK k \in 1..L : T[q + k - 1] # thing[k]
      <4> HIDE DEF q
      <4>1. ~OccursAt(thing, T, q)
        BY <1>0, <2>1, <2>4
      <4> QED
        BY <4>1 DEF OccursAt
    <3>2. i + k - 1 \in 1..Len(t) /\ (i + k - 1) + z = q + k - 1 /\ q + k - 1 # 0
      BY <1>1, <1>2, <1>4, <2>1, <2>4
    <3>3. t[i + k - 1] = T[q + k - 1]
      BY <1>0, <3>2 DEF Slice
    <3> QED
      BY <2>2, <3>1, <3>3
  <2> QED
    BY <2>3, <2>4
<1>5. IsFirst(find(t, start, thing), t, start, Where(t, thing))
  BY <1>0, <1>1, FindIs
<1>6. find(t, start, thing) = m
  <2> HIDE DEF m
  <2> QED
    BY <1>0, <1>1, <1>2, <1>3, <1>4, <1>5, OnlyFirst
<1>7. m # behind(t)
  BY <1>0, <1>1, <1>2
<1> QED
  BY <1>6, <1>7 DEF seek_next_string

(* The first byte from start on that is one of the kind is at p.              *)
KindAt(t, T, z, start, kind, p) ==
    /\ Slice(t, T, z) /\ start \in Nat \ {0} /\ p \in Nat \ {0}
    /\ start + z >= 1 /\ start + z <= p /\ p <= Len(t) + z
    /\ T[p] \in kind
    /\ \A q \in Nat \ {0} : start + z <= q /\ q < p => T[q] \notin kind

LEMMA CharFound ==
    ASSUME NEW t, NEW T, NEW z, NEW start, NEW c \in Byte, c # "LF", NEW p,
           KindAt(t, T, z, start, {c}, p)
    PROVE  /\ seek_next_char(t, start, c).at = p - z
           /\ seek_next_char(t, start, c).cursor = p - z + 1
<1> DEFINE thing == <<c>>
<1>0. /\ Slice(t, T, z) /\ start \in Nat \ {0} /\ p \in Nat \ {0}
      /\ start + z <= p /\ p <= Len(t) + z /\ T[p] = c
      /\ \A q \in Nat \ {0} : start + z <= q /\ q < p => T[q] # c
  BY DEF KindAt
<1>1. thing \in Seq(Byte) /\ Len(thing) = 1 /\ thing[1] = c /\ \A k \in 1..1 : k = 1
  OBVIOUS
<1>2. seek_next_char(t, start, c) = seek_next_string(t, start, thing)
  BY DEF seek_next_char
<1> HIDE DEF thing
<1>3. Len(t) \in Nat /\ z \in Int
  BY <1>0, TextLength DEF Slice
<1>4. p + Len(thing) - 1 <= Len(t) + z
  BY <1>0, <1>1, <1>3
<1>5. ASSUME NEW q \in Nat PROVE OccursAt(thing, T, q) <=> T[q] = c
  <2>1. q + 1 - 1 = q
    OBVIOUS
  <2> QED
    BY <1>1, <2>1 DEF OccursAt
<1>6. OccursAt(thing, T, p) /\ \A q \in Nat \ {0} : start + z <= q /\ q < p => ~OccursAt(thing, T, q)
  BY <1>0, <1>5
<1>7. Len(thing) >= 1 /\ thing[1] # "LF"
  BY <1>1
<1>8. WordAt(t, T, z, start, thing, p)
  BY <1>0, <1>1, <1>4, <1>6, <1>7 DEF WordAt
<1>9. /\ seek_next_string(t, start, thing).at = p - z
      /\ seek_next_string(t, start, thing).cursor = p - z + Len(thing)
  BY <1>8, WordFound
<1> QED
  BY <1>1, <1>2, <1>9

LEMMA KindFound ==
    ASSUME NEW t, NEW T, NEW z, NEW start, NEW kind, NEW p, KindAt(t, T, z, start, kind, p),
           NEW f, IsFirst(f, t, start, Kind(t, kind))
    PROVE  f = p - z
<1> DEFINE m == p - z
<1>0. /\ Slice(t, T, z) /\ start \in Nat \ {0} /\ p \in Nat \ {0}
      /\ start + z >= 1 /\ start + z <= p /\ p <= Len(t) + z /\ T[p] \in kind
      /\ \A q \in Nat \ {0} : start + z <= q /\ q < p => T[q] \notin kind
  BY DEF KindAt
<1>1. t \in Seq(Byte) /\ Len(t) \in Nat /\ z \in Int /\ z >= -1
  BY <1>0, TextLength DEF Slice
<1>2. m \in Nat /\ start <= m /\ m <= Len(t)
  BY <1>0, <1>1
<1>3. ASSUME NEW i \in Nat, start <= i, i <= Len(t) PROVE i \in 1..Len(t) /\ t[i] = T[i + z] /\ i + z \in Nat \ {0}
  <2>1. i \in 1..Len(t) /\ i + z # 0 /\ i + z \in Nat
    BY <1>0, <1>1, <1>3
  <2> QED
    BY <1>0, <2>1 DEF Slice
<1>4. m \in Kind(t, kind)
  <2>1. m + z = p
    BY <1>0, <1>1
  <2>2. t[m] = T[p] /\ m \in 1..Len(t)
    BY <1>2, <1>3, <2>1
  <2> QED
    BY <1>0, <2>2 DEF Kind
<1>5. ASSUME NEW i \in Nat, start <= i, i < m PROVE i \notin Kind(t, kind)
  <2>1. i <= Len(t) /\ start + z <= i + z /\ i + z < p
    BY <1>0, <1>1, <1>2, <1>5
  <2>2. t[i] = T[i + z] /\ i + z \in Nat \ {0}
    BY <1>3, <1>5, <2>1
  <2>3. T[i + z] \notin kind
    BY <1>0, <2>1, <2>2
  <2> QED
    BY <2>2, <2>3 DEF Kind
<1> HIDE DEF m
<1>6. f = m
  BY <1>0, <1>1, <1>2, <1>4, <1>5, OnlyFirst
<1> QED
  BY <1>6 DEF m

-----------------------------------------------------------------------------
(* Lines as they are typed.                                                   *)

(* What is neither a letter nor a digit nor an underscore.                    *)
LEMMA MarksApart ==
    ASSUME NEW c, isAlphanumeric(c)
    PROVE  c \notin {Space, "CR", "LF", "@", Semicolon, "=", "/", ":", "#", "!"}
<1> DEFINE small == {"a", "b", "c", "d", "e", "f", "g", "h", "i", "j", "k", "l", "m",
                     "n", "o", "p", "q", "r", "s", "t", "u", "v", "w", "x", "y", "z"}
           large == {"A", "B", "C", "D", "E", "F", "G", "H", "I", "J", "K", "L", "M",
                     "N", "O", "P", "Q", "R", "S", "T", "U", "V", "W", "X", "Y", "Z"}
           figures == {"0", "1", "2", "3", "4", "5", "6", "7", "8", "9"}
<1>1. c \in small \cup large \cup figures \cup {"_"}
  <2>1. \A i \in 1..26 : Lower[i] \in small
    BY SMTT(30) DEF Lower
  <2>2. \A i \in 1..26 : Upper[i] \in large
    BY SMTT(30) DEF Upper
  <2>3. \A i \in 1..10 : Digits[i] \in figures
    BY DEF Digits
  <2>4. DOMAIN Lower = 1..26 /\ DOMAIN Upper = 1..26 /\ DOMAIN Digits = 1..10
    BY DEF Lower, Upper, Digits
  <2> HIDE DEF small, large, figures
  <2> QED
    BY <2>1, <2>2, <2>3, <2>4 DEF isAlphanumeric, isAlpha, Alphabet, isNumber
<1>2. /\ \A x \in small : x \notin {"CR", "LF", "@", "=", "/", ":", "#", "!"}
      /\ \A x \in large : x \notin {"CR", "LF", "@", "=", "/", ":", "#", "!"}
      /\ \A x \in figures \cup {"_"} : x \notin {"CR", "LF", "@", "=", "/", ":", "#", "!"}
  BY SMTT(30)
<1>3. \A x \in small : x # " " /\ x # ";"
  BY Zenon
<1>4. \A x \in large : x # " " /\ x # ";"
  BY Zenon
<1>5. \A x \in figures : x # " " /\ x # ";"
  BY Zenon
<1>6. "_" # " " /\ "_" # ";"
  BY Zenon
<1>7. c # Space /\ c # Semicolon
  <2> HIDE DEF small, large, figures
  <2> QED
    BY <1>1, <1>3, <1>4, <1>5, <1>6, Zenon DEF Space, Semicolon
<1> HIDE DEF small, large, figures
<1> QED
  BY <1>1, <1>2, <1>7

LEMMA KindsApart ==
    /\ \A c \in Alphanumerics :
          c \in Byte /\ c \notin {Space, "CR", "LF", "@", Semicolon, "=", "/", ":", "#", "!"}
    /\ \A c \in Digit : c \in Alphanumerics
    /\ \A c \in Digit : c \notin {"P", "display-name", "broadcaster", "mod", "subscriber", "user-id"}
<1>1. \A c \in Alphanumerics : c \in Byte /\ isAlphanumeric(c)
  BY DEF Alphanumerics
<1>2. \A i \in 1..10 : Digits[i] \in {"0", "1", "2", "3", "4", "5", "6", "7", "8", "9"}
  BY DEF Digits
<1>3. \A c \in Digit : c \in {"0", "1", "2", "3", "4", "5", "6", "7", "8", "9"} /\ c \in Byte
  <2>1. Digit \subseteq Byte
    <3>1. \A i \in 1..10 : Digits[i] \in Part
      BY <1>2 DEF Part
    <3> QED
      BY <3>1 DEF Digit, Byte
  <2> QED
    BY <1>2, <2>1 DEF Digit
<1>4. \A c \in Digit : isAlphanumeric(c)
  <2>1. DOMAIN Digits = 1..10
    BY DEF Digits
  <2> QED
    BY <2>1 DEF Digit, isAlphanumeric, isNumber
<1> QED
  BY <1>1, <1>3, <1>4, MarksApart DEF Alphanumerics

(* Where a plain line has what.                                               *)
LEMMA PlacesAre ==
    ASSUME NEW said \in Chat, Plain(said)
    PROVE  LET l == toLabel(said.author)
               e == toNameEnd(said.author)
               B == toText(said)
               c == toChannelEnd(said)
               d == toCmdEnd(said) IN
           /\ said.author \in Viewer /\ textOf(said) \in Seq(Part) /\ textOf(said) \in Seq(Byte)
           /\ l \in {1, 5} /\ ("broadcaster" \notin said.author.roles => l = 1)
           /\ Len(said.author.displayName) \in Nat \ {0} /\ e = l + 2 + Len(said.author.displayName)
           /\ Len(append_u64(said.author.id)) \in Nat
           /\ said.tagged => B = e + 12 + Len(append_u64(said.author.id))
           /\ B \in Nat /\ Len(said.channel) \in Nat \ {0} /\ c = B + 6 + Len(said.channel)
           /\ Len(said.cmd) \in Nat /\ d = c + 3 + Len(said.cmd)
           /\ Len(said.cmdMessage) \in Nat /\ Len(textOf(said)) = d + 1 + Len(said.cmdMessage)
           /\ e \in Nat /\ c \in Nat /\ d \in Nat /\ Len(textOf(said)) \in Nat
<1>1. /\ said.author \in Viewer /\ said.author.displayName \in Seq(Part) /\ said.channel \in Seq(Part)
      /\ said.cmd \in Seq(Part) /\ said.cmdMessage \in Seq(Part)
      /\ append_u64(said.author.id) \in Seq(Part)
  BY Literals, NumberIs DEF Chat, Viewer
<1>2. /\ Len(said.author.displayName) \in Nat \ {0} /\ Len(said.channel) \in Nat \ {0}
      /\ Len(said.cmd) \in Nat /\ Len(said.cmdMessage) \in Nat /\ Len(append_u64(said.author.id)) \in Nat
  BY <1>1, LenProperties, EmptySeq DEF Plain
<1>3. textOf(said) \in Seq(Part) /\ textOf(said) \in Seq(Byte) /\ Len(textOf(said)) \in Nat
  <2>1. said \in Said
    BY DEF Chat, Said
  <2>2. Part \subseteq Byte
    BY DEF Byte
  <2> QED
    BY <2>1, <2>2, TextIs, SeqMonotonic, LenProperties
<1>4. Len(textOf(said)) = toCmdEnd(said) + 1 + Len(said.cmdMessage)
  BY ChatStandsThere DEF ChatStands
<1>5. toLabel(said.author) \in {1, 5} /\ ("broadcaster" \notin said.author.roles => toLabel(said.author) = 1)
  BY DEF toLabel
<1>6. /\ toNameEnd(said.author) = toLabel(said.author) + 2 + Len(said.author.displayName)
      /\ toNameEnd(said.author) \in Nat
  BY <1>2, <1>5 DEF toNameEnd
<1>7. /\ said.tagged => toText(said) = toNameEnd(said.author) + 12 + Len(append_u64(said.author.id))
      /\ toText(said) \in Nat
  <2>1. toTagsEnd(said.author) = toNameEnd(said.author) + 12 + Len(append_u64(said.author.id))
    BY DEF toTagsEnd
  <2> QED
    BY <1>2, <1>6, <2>1 DEF toText
<1>8. toChannelEnd(said) = toText(said) + 6 + Len(said.channel) /\ toChannelEnd(said) \in Nat
  BY <1>2, <1>7 DEF toChannelEnd
<1>9. toCmdEnd(said) = toChannelEnd(said) + 3 + Len(said.cmd) /\ toCmdEnd(said) \in Nat
  BY <1>2, <1>8 DEF toCmdEnd
<1> QED
  BY <1>1, <1>2, <1>3, <1>4, <1>5, <1>6, <1>7, <1>8, <1>9

(* What each byte of the tags is.                                             *)
TagByte(T, l, e, B, i) ==
    \/ i <= l /\ T[i] \in {"@", "1", Semicolon}
    \/ i <= l /\ l = 5 /\ T[i] \in {"broadcaster", "/"}
    \/ i = l + 1 /\ T[i] = "display-name"
    \/ i = l + 2 /\ T[i] = "="
    \/ i \in (l + 3)..e /\ T[i] \in Alphanumerics
    \/ i \in {e + 1, e + 5, e + 9} /\ T[i] = Semicolon
    \/ i = e + 2 /\ T[i] = "mod"
    \/ i = e + 6 /\ T[i] = "subscriber"
    \/ i = e + 10 /\ T[i] = "user-id"
    \/ i \in {e + 3, e + 7, e + 11} /\ T[i] = "="
    \/ i \in {e + 4, e + 8} /\ T[i] \in {"0", "1"}
    \/ i \in (e + 12)..(B - 1) /\ T[i] \in Digit
    \/ i = B /\ T[i] = Space

LEMMA TagByteIs ==
    ASSUME NEW said \in Chat, Plain(said), said.tagged, NEW i \in 1..toText(said)
    PROVE  TagByte(textOf(said), toLabel(said.author), toNameEnd(said.author), toText(said), i)
<1> DEFINE T == textOf(said)
           l == toLabel(said.author)
           e == toNameEnd(said.author)
           B == toText(said)
           name == said.author.displayName
           digits == append_u64(said.author.id)
<1>1. /\ l \in {1, 5} /\ ("broadcaster" \notin said.author.roles => l = 1)
      /\ Len(name) \in Nat \ {0} /\ e = l + 2 + Len(name) /\ e \in Nat
      /\ Len(digits) \in Nat /\ B = e + 12 + Len(digits) /\ B \in Nat
      /\ said.author \in Viewer
  BY PlacesAre
<1>2. TagsStand(said.author, T) /\ B = toTagsEnd(said.author)
  BY ChatStandsThere DEF ChatStands, toText
<1>3. ASSUME NEW k \in 1..Len(name) PROVE name[k] \in Alphanumerics
  <2>1. name[k] \in Byte
    <3>1. name \in Seq(Part)
      BY <1>1, Literals DEF Viewer
    <3> QED
      BY <3>1, ElementOfSeq DEF Byte
  <2> QED
    BY <2>1 DEF Plain, Alphanumerics
<1>4. ASSUME NEW k \in 1..Len(digits) PROVE digits[k] \in Digit
  <2>1. digits \in Seq(Digit)
    BY <1>1, NumberIs DEF Viewer
  <2> QED
    BY <2>1, ElementOfSeq
<1>5. i \in Nat /\ i >= 1 /\ i <= B
  BY <1>1
<1>6. \/ i = 1 \/ (i \in {2, 3, 4, 5} /\ l = 5) \/ i = l + 1 \/ i = l + 2 \/ i \in (l + 3)..e
      \/ i \in (e + 1)..(e + 11) \/ i \in (e + 12)..(B - 1) \/ i = B
  <2> HIDE DEF l, e, B, name, digits
  <2> QED
    BY <1>1, <1>5
<1>7. CASE i = 1
  <2>1. T[i] = "@"
    BY <1>2, <1>7 DEF TagsStand
  <2>2. i <= l
    <3> HIDE DEF l
    <3> QED
      BY <1>1, <1>7
  <2> QED
    BY <2>1, <2>2 DEF TagByte
<1>8. CASE i \in {2, 3, 4, 5} /\ l = 5
  <2>1. "broadcaster" \in said.author.roles
    BY <1>1, <1>8
  <2>2. T[i] \in {"1", Semicolon} \/ T[i] \in {"broadcaster", "/"}
    BY <1>2, <1>8, <2>1 DEF TagsStand
  <2> QED
    BY <1>8, <2>1, <2>2 DEF TagByte
<1>9. CASE i = l + 1 \/ i = l + 2
  BY <1>2, <1>9 DEF TagByte, TagsStand
<1>10. CASE i \in (l + 3)..e
  <2> DEFINE k == i - (l + 2)
  <2>1. k \in 1..Len(name) /\ (l + 2) + k = i
    <3> HIDE DEF l, e, B, name, digits
    <3> QED
      BY <1>1, <1>10
  <2>2. T[(l + 2) + k] = name[k]
    <3>1. StandsAt(name, T, l + 2)
      BY <1>2 DEF TagsStand
    <3> HIDE DEF k, l, name, T
    <3> QED
      BY <2>1, <3>1 DEF StandsAt
  <2>3. T[i] \in Alphanumerics
    BY <1>3, <2>1, <2>2
  <2> QED
    BY <1>10, <2>3 DEF TagByte
<1>11. CASE i \in (e + 1)..(e + 11)
  <2>1. \E j \in 1..11 : i = e + j
    <3> HIDE DEF l, e, B, name, digits
    <3>1. i - e \in 1..11 /\ i = e + (i - e)
      BY <1>1, <1>11
    <3> QED
      BY <3>1
  <2>2. \A role : bit(said.author, role) \in {"0", "1"}
    BY DEF bit
  <2>3. /\ T[e + 1] = Semicolon /\ T[e + 2] = "mod" /\ T[e + 3] = "=" /\ T[e + 4] \in {"0", "1"}
        /\ T[e + 5] = Semicolon /\ T[e + 6] = "subscriber" /\ T[e + 7] = "=" /\ T[e + 8] \in {"0", "1"}
        /\ T[e + 9] = Semicolon /\ T[e + 10] = "user-id" /\ T[e + 11] = "="
    BY <1>2, <2>2 DEF TagsStand
  <2>4. \/ i \in {e + 1, e + 5, e + 9} /\ T[i] = Semicolon
        \/ i = e + 2 /\ T[i] = "mod"
        \/ i = e + 6 /\ T[i] = "subscriber"
        \/ i = e + 10 /\ T[i] = "user-id"
        \/ i \in {e + 3, e + 7, e + 11} /\ T[i] = "="
        \/ i \in {e + 4, e + 8} /\ T[i] \in {"0", "1"}
    <3> HIDE DEF T, e
    <3> QED
      BY <2>1, <2>3
  <2> QED
    BY <2>4 DEF TagByte
<1>12. CASE i \in (e + 12)..(B - 1)
  <2> DEFINE k == i - (e + 11)
  <2>1. k \in 1..Len(digits) /\ (e + 11) + k = i
    <3> HIDE DEF l, e, B, name, digits
    <3> QED
      BY <1>1, <1>12
  <2>2. T[(e + 11) + k] = digits[k]
    <3>1. StandsAt(digits, T, e + 11)
      BY <1>2 DEF TagsStand
    <3> HIDE DEF k, e, digits, T
    <3> QED
      BY <2>1, <3>1 DEF StandsAt
  <2>3. T[i] \in Digit
    BY <1>4, <2>1, <2>2
  <2> QED
    BY <1>12, <2>3 DEF TagByte
<1>13. CASE i = B
  <2>1. T[B] = Space
    BY <1>2 DEF TagsStand
  <2> QED
    BY <1>13, <2>1 DEF TagByte
<1> QED
  BY <1>6, <1>7, <1>8, <1>9, <1>10, <1>11, <1>12, <1>13

(* What each byte behind the tags is.                                         *)
TextByte(T, B, c, d, i) ==
    \/ i \in {B + 1, c + 2} /\ T[i] = ":"
    \/ i = B + 2 /\ T[i] = "P"
    \/ i = B + 3 /\ T[i] = "RIVM"
    \/ i = B + 4 /\ T[i] = "SG"
    \/ i \in {B + 5, c + 1, d + 1} /\ T[i] = Space
    \/ i = B + 6 /\ T[i] = "#"
    \/ i \in (B + 7)..c /\ T[i] \in Alphanumerics
    \/ i = c + 3 /\ T[i] = "!"
    \/ i \in (c + 4)..d /\ T[i] \notin Whitespace /\ T[i] \notin {"display-name", "broadcaster"}
    \/ i \in (d + 2)..Len(T) /\ T[i] \notin {"display-name", "broadcaster"}

LEMMA TextByteIs ==
    ASSUME NEW said \in Chat, Plain(said), NEW i \in (toText(said) + 1)..Len(textOf(said))
    PROVE  TextByte(textOf(said), toText(said), toChannelEnd(said), toCmdEnd(said), i)
<1> DEFINE T == textOf(said)
           B == toText(said)
           c == toChannelEnd(said)
           d == toCmdEnd(said)
           channel == said.channel
           cmd == said.cmd
           cmdMessage == said.cmdMessage
<1>0. i \in (B + 1)..Len(T)
  OBVIOUS
<1>1. /\ B \in Nat /\ Len(channel) \in Nat \ {0} /\ c = B + 6 + Len(channel)
      /\ Len(cmd) \in Nat /\ d = c + 3 + Len(cmd) /\ Len(cmdMessage) \in Nat
      /\ Len(T) = d + 1 + Len(cmdMessage) /\ c \in Nat /\ d \in Nat
  BY PlacesAre
<1>2. /\ T[B + 1] = ":" /\ T[B + 2] = "P" /\ T[B + 3] = "RIVM" /\ T[B + 4] = "SG"
      /\ T[B + 5] = Space /\ T[B + 6] = "#"
      /\ T[c + 1] = Space /\ T[c + 2] = ":" /\ T[c + 3] = "!" /\ T[d + 1] = Space
      /\ StandsAt(channel, T, B + 6) /\ StandsAt(cmd, T, c + 3) /\ StandsAt(cmdMessage, T, d + 1)
  BY ChatStandsThere DEF ChatStands
<1>3. ASSUME NEW k \in 1..Len(channel) PROVE channel[k] \in Alphanumerics
  <2>1. channel[k] \in Byte
    <3>1. channel \in Seq(Part)
      BY Literals DEF Chat
    <3> QED
      BY <3>1, ElementOfSeq DEF Byte
  <2> QED
    BY <2>1 DEF Plain, Alphanumerics
<1>4. \A k \in 1..Len(cmd) : cmd[k] \notin Whitespace /\ cmd[k] \notin {"display-name", "broadcaster"}
  BY DEF Plain, DisplayName, Broadcaster
<1>5. \A k \in 1..Len(cmdMessage) : cmdMessage[k] \notin {"display-name", "broadcaster"}
  BY DEF Plain, DisplayName, Broadcaster
<1>6. \/ i \in (B + 1)..(B + 6) \/ i \in (B + 7)..c \/ i \in (c + 1)..(c + 3) \/ i \in (c + 4)..d
      \/ i = d + 1 \/ i \in (d + 2)..Len(T)
  <2> HIDE DEF T, B, c, d, channel, cmd, cmdMessage
  <2> QED
    BY <1>0, <1>1
<1>7. CASE i \in (B + 1)..(B + 6)
  <2>1. \/ i \in {B + 1, c + 2} /\ T[i] = ":"
        \/ i = B + 2 /\ T[i] = "P"
        \/ i = B + 3 /\ T[i] = "RIVM"
        \/ i = B + 4 /\ T[i] = "SG"
        \/ i \in {B + 5, c + 1, d + 1} /\ T[i] = Space
        \/ i = B + 6 /\ T[i] = "#"
    <3> HIDE DEF T, B, c, d, channel, cmd, cmdMessage
    <3>1. i = B + 1 \/ i = B + 2 \/ i = B + 3 \/ i = B + 4 \/ i = B + 5 \/ i = B + 6
      BY <1>0, <1>1, <1>7
    <3> QED
      BY <1>2, <3>1
  <2> QED
    BY <2>1 DEF TextByte
<1>8. CASE i \in (B + 7)..c
  <2>1. T[i] \in Alphanumerics
    <3> HIDE DEF T, B, c, d, channel, cmd, cmdMessage
    <3> DEFINE k == i - (B + 6)
    <3>1. k \in 1..Len(channel) /\ (B + 6) + k = i
      BY <1>1, <1>8
    <3> HIDE DEF k
    <3>2. T[(B + 6) + k] = channel[k]
      BY <1>2, <3>1 DEF StandsAt
    <3> QED
      BY <1>3, <3>1, <3>2
  <2> QED
    BY <1>8, <2>1 DEF TextByte
<1>9. CASE i \in (c + 1)..(c + 3)
  <2>1. \/ i \in {B + 1, c + 2} /\ T[i] = ":"
        \/ i \in {B + 5, c + 1, d + 1} /\ T[i] = Space
        \/ i = c + 3 /\ T[i] = "!"
    <3> HIDE DEF T, B, c, d, channel, cmd, cmdMessage
    <3>1. i = c + 1 \/ i = c + 2 \/ i = c + 3
      BY <1>1, <1>9
    <3> QED
      BY <1>2, <3>1
  <2> QED
    BY <2>1 DEF TextByte
<1>10. CASE i \in (c + 4)..d
  <2>1. T[i] \notin Whitespace /\ T[i] \notin {"display-name", "broadcaster"}
    <3> HIDE DEF T, B, c, d, channel, cmd, cmdMessage
    <3> DEFINE k == i - (c + 3)
    <3>1. k \in 1..Len(cmd) /\ (c + 3) + k = i
      BY <1>1, <1>10
    <3> HIDE DEF k
    <3>2. T[(c + 3) + k] = cmd[k]
      BY <1>2, <3>1 DEF StandsAt
    <3> QED
      BY <1>4, <3>1, <3>2
  <2> QED
    BY <1>10, <2>1 DEF TextByte
<1>11. CASE i = d + 1
  BY <1>2, <1>11 DEF TextByte
<1>12. CASE i \in (d + 2)..Len(T)
  <2>1. T[i] \notin {"display-name", "broadcaster"}
    <3> HIDE DEF T, B, c, d, channel, cmd, cmdMessage
    <3> DEFINE k == i - (d + 1)
    <3>1. k \in 1..Len(cmdMessage) /\ (d + 1) + k = i
      BY <1>1, <1>12
    <3> HIDE DEF k
    <3>2. T[(d + 1) + k] = cmdMessage[k]
      BY <1>2, <3>1 DEF StandsAt
    <3> QED
      BY <1>5, <3>1, <3>2
  <2> QED
    BY <1>12, <2>1 DEF TextByte
<1> QED
  BY <1>6, <1>7, <1>8, <1>9, <1>10, <1>11, <1>12

LEMMA PlacesInOrder ==
    ASSUME NEW said \in Chat, Plain(said)
    PROVE  LET l == toLabel(said.author)
               e == toNameEnd(said.author)
               B == toText(said)
               c == toChannelEnd(said)
               d == toCmdEnd(said)
               n == Len(textOf(said)) IN
           /\ l \in Nat /\ e \in Nat /\ B \in Nat /\ c \in Nat /\ d \in Nat /\ n \in Nat
           /\ 1 <= l /\ l + 3 <= e /\ (said.tagged => e + 12 <= B)
           /\ B + 7 <= c /\ c + 3 <= d /\ d + 1 <= n
<1> DEFINE l == toLabel(said.author)
           e == toNameEnd(said.author)
           B == toText(said)
           c == toChannelEnd(said)
           d == toCmdEnd(said)
           n == Len(textOf(said))
           name == Len(said.author.displayName)
           digits == Len(append_u64(said.author.id))
           channel == Len(said.channel)
           cmd == Len(said.cmd)
           cmdMessage == Len(said.cmdMessage)
<1>1. /\ l \in {1, 5} /\ name \in Nat \ {0} /\ e = l + 2 + name
      /\ digits \in Nat /\ (said.tagged => B = e + 12 + digits)
      /\ B \in Nat /\ channel \in Nat \ {0} /\ c = B + 6 + channel
      /\ cmd \in Nat /\ d = c + 3 + cmd /\ cmdMessage \in Nat /\ n = d + 1 + cmdMessage
  BY PlacesAre
<1> HIDE DEF l, e, B, c, d, n, name, digits, channel, cmd, cmdMessage
<1>2. l \in Nat /\ e \in Nat /\ 1 <= l /\ l + 3 <= e
  BY <1>1
<1>3. said.tagged => e + 12 <= B
  BY <1>1, <1>2
<1>4. c \in Nat /\ B + 7 <= c
  BY <1>1
<1>5. d \in Nat /\ c + 3 <= d
  BY <1>1, <1>4
<1>6. n \in Nat /\ d + 1 <= n
  BY <1>1, <1>5
<1> QED
  BY <1>1, <1>2, <1>3, <1>4, <1>5, <1>6 DEF l, e, B, c, d, n

(* An equals sign among the tags, and a label anywhere.                       *)
LEMMA LabelsAre ==
    ASSUME NEW said \in Chat, Plain(said)
    PROVE  LET T == textOf(said)
               l == toLabel(said.author)
               e == toNameEnd(said.author)
               B == toText(said) IN
           /\ said.tagged => \A i \in 1..B : T[i] = "=" => i \in {l + 2, e + 3, e + 7, e + 11}
           /\ \A i \in 1..(Len(T) - 1) :
                 T[i] = "display-name" /\ T[i + 1] = "=" => said.tagged /\ i = l + 1
           /\ \A i \in 1..(Len(T) - 1) :
                 T[i] = "broadcaster" /\ T[i + 1] = "/" => said.tagged /\ "broadcaster" \in said.author.roles
<1> DEFINE T == textOf(said)
           l == toLabel(said.author)
           e == toNameEnd(said.author)
           B == toText(said)
           c == toChannelEnd(said)
           d == toCmdEnd(said)
<1>1. /\ l \in Nat /\ e \in Nat /\ B \in Nat /\ c \in Nat /\ d \in Nat /\ Len(T) \in Nat
      /\ 1 <= l /\ l + 3 <= e /\ (said.tagged => e + 12 <= B)
      /\ B + 7 <= c /\ c + 3 <= d /\ d + 1 <= Len(T)
  BY PlacesInOrder
<1>2. \A x \in {Space, Semicolon} : x \notin {"=", "/", "display-name", "broadcaster"}
  BY BytesApart
<1>3. \A x \in Alphanumerics : x \notin {"=", "/"}
  BY KindsApart
<1>4. \A x \in Digit : x \notin {"=", "/", "display-name", "broadcaster"}
  BY KindsApart
<1>5. ~said.tagged => B = 0
  BY DEF toText
<1>6. said.tagged => \A i \in 1..B : TagByte(T, l, e, B, i)
  BY TagByteIs
<1>7. \A i \in (B + 1)..Len(T) : TextByte(T, B, c, d, i)
  BY TextByteIs
<1>8. l = 5 => "broadcaster" \in said.author.roles
  BY DEF toLabel
<1> HIDE DEF T, l, e, B, c, d
<1>9. ASSUME said.tagged, NEW i \in 1..B, T[i] = "=" PROVE i \in {l + 2, e + 3, e + 7, e + 11}
  <2>1. TagByte(T, l, e, B, i)
    BY <1>6, <1>9
  <2> QED
    BY <1>2, <1>3, <1>4, <1>9, <2>1 DEF TagByte
<1>10. ASSUME said.tagged, NEW i \in 1..B, T[i] \in {"display-name", "broadcaster"}
       PROVE  \/ T[i] = "display-name" /\ i = l + 1
              \/ T[i] = "broadcaster" /\ l = 5
              \/ i \in (l + 3)..e
  <2>1. TagByte(T, l, e, B, i)
    BY <1>6, <1>10
  <2> QED
    BY <1>2, <1>4, <1>10, <2>1 DEF TagByte
<1>11. ASSUME said.tagged, NEW i \in (l + 3)..e PROVE T[i + 1] \notin {"=", "/"}
  <2>1. i + 1 \in 1..B /\ i + 1 \in (l + 4)..(e + 1)
    <3>1. e + 12 <= B
      BY <1>1, <1>11
    <3> QED
      BY <1>1, <3>1
  <2>2. TagByte(T, l, e, B, i + 1)
    BY <1>6, <1>11, <2>1
  <2>3. T[i + 1] \in Alphanumerics \/ T[i + 1] = Semicolon
    BY <1>1, <1>11, <2>1, <2>2 DEF TagByte
  <2> QED
    BY <1>2, <1>3, <2>3
<1>12. ASSUME NEW i \in (B + 1)..(Len(T) - 1), T[i] \in {"display-name", "broadcaster"}
       PROVE  T[i + 1] \notin {"=", "/"}
  <2>1. i \in (B + 1)..Len(T) /\ i + 1 \in (B + 1)..Len(T)
    BY <1>1
  <2>2. TextByte(T, B, c, d, i) /\ TextByte(T, B, c, d, i + 1)
    BY <1>7, <2>1
  <2>3. i \in (B + 7)..c
    BY <1>2, <1>12, <2>2 DEF TextByte
  <2>4. T[i + 1] \in Alphanumerics \/ T[i + 1] = Space
    BY <1>1, <2>2, <2>3 DEF TextByte
  <2> QED
    BY <1>2, <1>3, <2>4
<1>13. ASSUME NEW i \in 1..(Len(T) - 1), T[i] \in {"display-name", "broadcaster"}, T[i + 1] \in {"=", "/"}
       PROVE  /\ said.tagged
              /\ \/ T[i] = "display-name" /\ i = l + 1
                 \/ T[i] = "broadcaster" /\ l = 5
  <2>1. i <= B
    <3> SUFFICES ASSUME ~(i <= B) PROVE FALSE
      OBVIOUS
    <3>1. i \in (B + 1)..(Len(T) - 1)
      BY <1>1
    <3> QED
      BY <1>12, <1>13, <3>1
  <2>2. i \in 1..B
    BY <1>1, <2>1
  <2>3. said.tagged
    BY <1>5, <2>2
  <2>4. i \notin (l + 3)..e
    BY <1>11, <1>13, <2>3
  <2> QED
    BY <1>10, <1>13, <2>2, <2>3, <2>4
<1>14. \A i \in 1..(Len(T) - 1) : T[i] = "display-name" /\ T[i + 1] = "=" => said.tagged /\ i = l + 1
  BY <1>13
<1>15. \A i \in 1..(Len(T) - 1) :
          T[i] = "broadcaster" /\ T[i + 1] = "/" => said.tagged /\ "broadcaster" \in said.author.roles
  <2> SUFFICES ASSUME NEW i \in 1..(Len(T) - 1), T[i] = "broadcaster", T[i + 1] = "/"
               PROVE  said.tagged /\ "broadcaster" \in said.author.roles
    OBVIOUS
  <2>1. said.tagged /\ l = 5
    BY <1>13
  <2> QED
    BY <1>8, <2>1
<1>16. said.tagged => \A i \in 1..B : T[i] = "=" => i \in {l + 2, e + 3, e + 7, e + 11}
  BY <1>9
<1> QED
  BY <1>14, <1>15, <1>16 DEF T, l, e, B

-----------------------------------------------------------------------------
(* The reading of a command.                                                  *)

label(t) == seek_next_string(t, 1, DisplayName)
nameStart(t) == seek_next_alphanumeric(t, label(t).cursor)
nameStop(t) == seek_next_char(t, nameStart(t).cursor, Semicolon)
privmsg(t) == seek_next_string(t, nameStop(t).cursor, PRIVMSG)
hash(t) == seek_next_char(t, privmsg(t).cursor, "#")
channelStart(t) == seek_next_alphanumeric(t, hash(t).cursor)
channelStop(t) == seek_next_non_alphanumeric(t, channelStart(t).cursor)
colon(t) == seek_next_char(t, channelStop(t).cursor, ":")
chatStart(t) == seek_past_whitespace(t, colon(t).cursor)
cmdStop(t) == seek_next_whitespace(t, chatStart(t) + 1).at
userId(t) == seek_next_string(t, 1, UserId).cursor
nameIn(t) == SubSeq(t, nameStart(t).at, nameStop(t).at - 1)
channelIn(t) == SubSeq(t, channelStart(t).at, channelStop(t).at - 1)
cmdIn(t) == SubSeq(t, chatStart(t) + 1, cmdStop(t) - 1)
textIn(t) == SubSeq(t, cmdStop(t) + 1, Len(t))

IsCommand(t) == byteAt(t, chatStart(t)) = "!" /\ byteAt(t, chatStart(t) + 1) \notin Whitespace

commandIn(t) ==
    [kind |-> "command",
     user |-> [id |-> parse_u64(t, userId(t)),
               displayName |-> cutTo(nameIn(t), TWITCH_USER_NAME_LENGTH),
               roles |-> rolesIn(t)],
     channel |-> cutTo(channelIn(t), TWITCH_USER_NAME_BUFFER - 1),
     cmd |-> cutTo(cmdIn(t), TWITCH_CMD_BUFFER - 1),
     cmdMessage |-> cutTo(textIn(t), TWITCH_MESSAGE_BUFFER - 1),
     messageLength |-> Len(textIn(t))]

LEMMA ChatIs ==
    ASSUME NEW t
    PROVE  IF IsCommand(t) THEN chatIn(t) = commandIn(t) ELSE chatIn(t).kind = "message"
<1>1. CASE IsCommand(t)
  BY <1>1, Zenon DEF IsCommand, commandIn, chatIn, label, nameStart, nameStop, privmsg, hash, channelStart,
       channelStop, colon, chatStart, cmdStop, userId, nameIn, channelIn, cmdIn, textIn, Semicolon
<1>2. CASE ~IsCommand(t)
  <2>1. chatIn(t) = [kind |-> "message", user |-> commandIn(t).user]
    <3>1. commandIn(t).user = [id |-> parse_u64(t, userId(t)),
                displayName |-> cutTo(nameIn(t), TWITCH_USER_NAME_LENGTH),
                roles |-> rolesIn(t)]
      BY DEF commandIn
    <3> QED
      BY <1>2, <3>1, Zenon DEF IsCommand, chatIn, label, nameStart, nameStop, privmsg, hash, channelStart,
         channelStop, colon, chatStart, cmdStop, userId, nameIn, channelIn, cmdIn, textIn, Semicolon
  <2> QED
    BY <1>2, <2>1
<1> QED
  BY <1>1, <1>2

LEMMA WordsAre ==
    /\ DisplayName \in Seq(Byte) /\ Len(DisplayName) = 2 /\ DisplayName[1] = "display-name" /\ DisplayName[2] = "="
    /\ Broadcaster \in Seq(Byte) /\ Len(Broadcaster) = 2 /\ Broadcaster[1] = "broadcaster" /\ Broadcaster[2] = "/"
    /\ Mod \in Seq(Byte) /\ Len(Mod) = 2 /\ Mod[1] = "mod" /\ Mod[2] = "="
    /\ Subscriber \in Seq(Byte) /\ Len(Subscriber) = 2 /\ Subscriber[1] = "subscriber" /\ Subscriber[2] = "="
    /\ UserId \in Seq(Byte) /\ Len(UserId) = 2 /\ UserId[1] = "user-id" /\ UserId[2] = "="
    /\ PRIVMSG \in Seq(Byte) /\ Len(PRIVMSG) = 3
    /\ PRIVMSG[1] = "P" /\ PRIVMSG[2] = "RIVM" /\ PRIVMSG[3] = "SG"
    /\ Semicolon \in Byte /\ Space \in Byte /\ "#" \in Byte /\ ":" \in Byte /\ "!" \in Byte
<1>1. Part \subseteq Byte
  BY DEF Byte
<1>2. Seq(Part) \subseteq Seq(Byte)
  BY <1>1, SeqMonotonic
<1>3. /\ DisplayName \in Seq(Byte) /\ Broadcaster \in Seq(Byte) /\ Mod \in Seq(Byte)
      /\ Subscriber \in Seq(Byte) /\ UserId \in Seq(Byte) /\ PRIVMSG \in Seq(Byte)
  BY <1>2, Literals
<1>4. Semicolon \in Byte /\ Space \in Byte
  BY <1>1, BytesApart
<1>5. "#" \in Byte /\ ":" \in Byte /\ "!" \in Byte
  BY <1>1, Literals
<1> QED
  BY <1>3, <1>4, <1>5 DEF DisplayName, Broadcaster, Mod, Subscriber, UserId, PRIVMSG

(* Nothing is read in front of the label.                                     *)
LEMMA ReadingGoesOn ==
    ASSUME NEW t \in Seq(Byte)
    PROVE  /\ label(t).cursor \in 1..behind(t)
           /\ chatStart(t) \in label(t).cursor..behind(t)
<1> DEFINE b == behind(t)
<1>0. b \in Nat \ {0}
  BY TextLength
<1>1. ASSUME NEW start \in 1..b, NEW seek, GoesOn(seek, t, start)
      PROVE  seek.cursor \in start..b /\ seek.cursor \in 1..b
  BY <1>0, <1>1 DEF GoesOn
<1>2. ASSUME NEW start \in 1..b, NEW c \in Byte
      PROVE  GoesOn(seek_next_char(t, start, c), t, start)
  <2> DEFINE thing == <<c>>
  <2>1. thing \in Seq(Byte) /\ Len(thing) >= 1
    OBVIOUS
  <2>2. seek_next_char(t, start, c) = seek_next_string(t, start, thing)
    BY DEF seek_next_char
  <2> HIDE DEF thing
  <2>3. GoesOn(seek_next_string(t, start, thing), t, start)
    BY <2>1, SeeksGoOn
  <2> QED
    BY <2>2, <2>3
<1> HIDE DEF b
<1>3. ASSUME NEW start \in 1..b
      PROVE  /\ GoesOn(seek_next_string(t, start, DisplayName), t, start)
             /\ GoesOn(seek_next_string(t, start, PRIVMSG), t, start)
             /\ GoesOn(seek_next_alphanumeric(t, start), t, start)
             /\ GoesOn(seek_next_non_alphanumeric(t, start), t, start)
             /\ seek_past_whitespace(t, start) \in start..b
  <2>1. Len(DisplayName) >= 1 /\ Len(PRIVMSG) >= 1 /\ DisplayName \in Seq(Byte) /\ PRIVMSG \in Seq(Byte)
    BY WordsAre
  <2> QED
    BY <2>1, SeeksGoOn DEF b
<1>4. label(t).cursor \in 1..b
  <2>1. 1 \in 1..b
    BY <1>0
  <2> QED
    BY <1>1, <1>3, <2>1 DEF label
<1>5. nameStart(t).cursor \in label(t).cursor..b /\ nameStart(t).cursor \in 1..b
  BY <1>1, <1>3, <1>4 DEF nameStart
<1>6. nameStop(t).cursor \in nameStart(t).cursor..b /\ nameStop(t).cursor \in 1..b
  BY <1>1, <1>2, <1>5, WordsAre DEF nameStop
<1>7. privmsg(t).cursor \in nameStop(t).cursor..b /\ privmsg(t).cursor \in 1..b
  BY <1>1, <1>3, <1>6 DEF privmsg
<1>8. hash(t).cursor \in privmsg(t).cursor..b /\ hash(t).cursor \in 1..b
  BY <1>1, <1>2, <1>7, WordsAre DEF hash
<1>9. channelStart(t).cursor \in hash(t).cursor..b /\ channelStart(t).cursor \in 1..b
  BY <1>1, <1>3, <1>8 DEF channelStart
<1>10. channelStop(t).cursor \in channelStart(t).cursor..b /\ channelStop(t).cursor \in 1..b
  BY <1>1, <1>3, <1>9 DEF channelStop
<1>11. colon(t).cursor \in channelStop(t).cursor..b /\ colon(t).cursor \in 1..b
  BY <1>1, <1>2, <1>10, WordsAre DEF colon
<1>12. chatStart(t) \in colon(t).cursor..b
  BY <1>3, <1>11 DEF chatStart
<1>13. chatStart(t) \in label(t).cursor..b
  <2>1. nameStop(t).cursor \in label(t).cursor..b
    BY <1>4, <1>5, <1>6
  <2>2. hash(t).cursor \in label(t).cursor..b
    BY <1>4, <1>7, <1>8, <2>1
  <2>3. channelStop(t).cursor \in label(t).cursor..b
    BY <1>4, <1>9, <1>10, <2>2
  <2>4. colon(t).cursor \in label(t).cursor..b
    BY <1>4, <1>11, <2>3
  <2> QED
    BY <1>4, <1>12, <2>4
<1> QED
  BY <1>4, <1>13 DEF b

-----------------------------------------------------------------------------
(* What is read where, in a piece of a plain line in which there is a command.*)

Cut(said, t, z) == said \in Chat /\ Plain(said) /\ Slice(t, textOf(said), z)

(* The piece holds the label and the exclamation mark, and what is between.   *)
Opened(said, t, z) ==
    /\ Cut(said, t, z)
    /\ said.tagged /\ z <= toLabel(said.author) /\ toChannelEnd(said) + 3 <= Len(t) + z
    /\ label(t).cursor = toLabel(said.author) + 3 - z

LEMMA SliceByte ==
    ASSUME NEW t, NEW T, NEW z, Slice(t, T, z), NEW i \in 1..Len(t), t[i] # "LF"
    PROVE  i + z \in 1..Len(T) /\ t[i] = T[i + z]
<1>1. Len(t) \in Nat /\ z \in Int /\ z >= -1 /\ Len(T) \in Nat /\ Len(t) + z <= Len(T)
  BY TextLength DEF Slice
<1>2. t[i] = IF i + z = 0 THEN "LF" ELSE T[i + z]
  BY DEF Slice
<1>3. i + z # 0
  BY <1>2
<1> QED
  BY <1>1, <1>2, <1>3

LEMMA BangsAre ==
    ASSUME NEW said \in Chat, Plain(said), NEW i \in 1..Len(textOf(said)), textOf(said)[i] = "!"
    PROVE  i >= toChannelEnd(said) + 3
<1> DEFINE T == textOf(said)
           l == toLabel(said.author)
           e == toNameEnd(said.author)
           B == toText(said)
           c == toChannelEnd(said)
           d == toCmdEnd(said)
<1>1. /\ l \in Nat /\ e \in Nat /\ B \in Nat /\ c \in Nat /\ d \in Nat /\ Len(T) \in Nat
      /\ 1 <= l /\ l + 3 <= e /\ (said.tagged => e + 12 <= B)
      /\ B + 7 <= c /\ c + 3 <= d /\ d + 1 <= Len(T)
  BY PlacesInOrder
<1>2. Space # "!" /\ Semicolon # "!"
  BY BytesApart
<1>3. (\A x \in Alphanumerics : x # "!") /\ (\A x \in Digit : x # "!")
  BY KindsApart
<1>4. ~said.tagged => B = 0
  BY DEF toText
<1>5. said.tagged /\ i \in 1..B => TagByte(T, l, e, B, i)
  BY TagByteIs
<1>6. i \in (B + 1)..Len(T) => TextByte(T, B, c, d, i)
  BY TextByteIs
<1>7. i \in 1..Len(T) /\ T[i] = "!"
  OBVIOUS
<1> HIDE DEF T, l, e, B, c, d
<1>8. CASE i <= B
  <2>1. said.tagged /\ i \in 1..B
    BY <1>1, <1>4, <1>7, <1>8
  <2> QED
    BY <1>2, <1>3, <1>5, <1>7, <2>1 DEF TagByte
<1>9. CASE i > B
  <2>1. TextByte(T, B, c, d, i)
    BY <1>1, <1>6, <1>7, <1>9
  <2>2. i = c + 3 \/ i \in (c + 4)..d \/ i \in (d + 2)..Len(T)
    BY <1>2, <1>3, <1>7, <2>1 DEF TextByte
  <2> QED
    BY <1>1, <2>2 DEF c
<1> QED
  BY <1>1, <1>7, <1>8, <1>9 DEF c

(* Only in a line with tags is a command found, and only when the label of    *)
(* the display name and all of the channel came with it.                      *)
LEMMA CommandStands ==
    ASSUME NEW said, NEW t, NEW z, Cut(said, t, z), IsCommand(t)
    PROVE  Opened(said, t, z)
<1> DEFINE T == textOf(said)
           l == toLabel(said.author)
           c == toChannelEnd(said)
           at == find(t, 1, DisplayName)
           s == chatStart(t)
<1>1. said \in Chat /\ Plain(said) /\ Slice(t, T, z)
  BY DEF Cut
<1>2. t \in Seq(Byte) /\ Len(t) \in Nat /\ behind(t) = Len(t) + 1 /\ z \in Int /\ z >= -1
  BY <1>1, TextLength DEF Slice
<1>3. s \in 1..Len(t) /\ t[s] = "!"
  BY DEF IsCommand, byteAt
<1>4. l \in Nat /\ c \in Nat /\ Len(T) \in Nat
  BY <1>1, PlacesInOrder
<1>5. c + 3 <= Len(t) + z
  <2>1. s + z \in 1..Len(T) /\ T[s + z] = "!"
    BY <1>1, <1>3, SliceByte
  <2>2. s + z >= c + 3
    BY <1>1, <2>1, BangsAre
  <2> HIDE DEF s, c, T
  <2> QED
    BY <1>2, <1>3, <1>4, <2>2
<1>6. label(t) = [at |-> at, cursor |-> IF at = behind(t) THEN at ELSE at + 2]
  BY WordsAre DEF label, seek_next_string
<1>7. label(t).cursor \in 1..behind(t) /\ s \in label(t).cursor..behind(t)
  BY <1>2, ReadingGoesOn
<1>8. at # behind(t)
  <2> HIDE DEF at, s
  <2> SUFFICES ASSUME at = behind(t) PROVE FALSE
    OBVIOUS
  <2>1. label(t).cursor = behind(t)
    BY <1>6
  <2> QED
    BY <1>2, <1>3, <1>7, <2>1
<1>9. at \in Where(t, DisplayName) /\ at \in Nat
  <2>1. IsFirst(at, t, 1, Where(t, DisplayName))
    BY <1>2, WordsAre, FindIs
  <2> HIDE DEF at
  <2> QED
    BY <1>2, <1>8, <2>1 DEF IsFirst
<1>10. at \in 1..Len(t) /\ at + 1 \in 1..Len(t) /\ t[at] = "display-name" /\ t[at + 1] = "="
  <2>0. Len(DisplayName) = 2 /\ DisplayName[1] = "display-name" /\ DisplayName[2] = "="
    BY WordsAre
  <2> HIDE DEF at
  <2>1. at \in 1..Len(t) /\ at + 2 - 1 <= Len(t) /\ \A k \in 1..2 : t[at + k - 1] = DisplayName[k]
    BY <1>9, <2>0 DEF Where
  <2>2. at + 1 - 1 = at /\ at + 2 - 1 = at + 1 /\ at + 1 \in 1..Len(t)
    BY <1>2, <1>9, <2>1
  <2> QED
    BY <2>0, <2>1, <2>2
<1>11. /\ at + z \in 1..Len(T) /\ T[at + z] = "display-name"
       /\ (at + 1) + z \in 1..Len(T) /\ T[(at + 1) + z] = "="
  BY <1>1, <1>10, SliceByte
<1>12. at + z \in 1..(Len(T) - 1) /\ (at + z) + 1 = (at + 1) + z
  <2> HIDE DEF at, T
  <2> QED
    BY <1>2, <1>4, <1>9, <1>11
<1>13. said.tagged /\ at + z = l + 1
  BY <1>1, <1>11, <1>12, LabelsAre
<1>14. z <= l /\ label(t).cursor = l + 3 - z
  <2> HIDE DEF at, l
  <2>1. label(t).cursor = at + 2
    BY <1>6, <1>8
  <2> QED
    BY <1>2, <1>4, <1>9, <1>10, <1>13, <2>1
<1> QED
  BY <1>5, <1>13, <1>14 DEF Opened

LEMMA OpenedIs ==
    ASSUME NEW said, NEW t, NEW z, Opened(said, t, z)
    PROVE  LET T == textOf(said)
               l == toLabel(said.author)
               e == toNameEnd(said.author)
               B == toText(said)
               c == toChannelEnd(said)
               d == toCmdEnd(said)
               m == Len(t) IN
           /\ said \in Chat /\ Plain(said) /\ said.tagged /\ Slice(t, T, z)
           /\ t \in Seq(Byte) /\ T \in Seq(Byte) /\ m \in Nat /\ behind(t) = m + 1
           /\ l \in Nat /\ e \in Nat /\ B \in Nat /\ c \in Nat /\ d \in Nat /\ Len(T) \in Nat
           /\ z \in Int /\ z >= -1 /\ z <= l /\ 1 <= l /\ l + 3 <= e /\ e + 12 <= B
           /\ B + 7 <= c /\ c + 3 <= d /\ d + 1 <= Len(T) /\ c + 3 <= m + z /\ m + z <= Len(T)
           /\ \A i \in 1..B : TagByte(T, l, e, B, i)
           /\ \A i \in (B + 1)..Len(T) : TextByte(T, B, c, d, i)
<1>1. /\ said \in Chat /\ Plain(said) /\ said.tagged /\ Slice(t, textOf(said), z)
      /\ z <= toLabel(said.author) /\ toChannelEnd(said) + 3 <= Len(t) + z
  BY DEF Opened, Cut
<1>2. t \in Seq(Byte) /\ z \in Int /\ z >= -1 /\ Len(t) + z <= Len(textOf(said))
  BY <1>1 DEF Slice
<1>3. Len(t) \in Nat /\ behind(t) = Len(t) + 1
  BY <1>2, TextLength
<1>4. textOf(said) \in Seq(Byte)
  BY <1>1, PlacesAre
<1>5. \A i \in 1..toText(said) :
         TagByte(textOf(said), toLabel(said.author), toNameEnd(said.author), toText(said), i)
  BY <1>1, TagByteIs
<1>6. \A i \in (toText(said) + 1)..Len(textOf(said)) :
         TextByte(textOf(said), toText(said), toChannelEnd(said), toCmdEnd(said), i)
  BY <1>1, TextByteIs
<1> QED
  BY <1>1, <1>2, <1>3, <1>4, <1>5, <1>6, PlacesInOrder

(* A seek for a kind of byte steps over the one it finds.                     *)
LEMMA SeekStepsOver ==
    ASSUME NEW t \in Seq(Byte), NEW f \in 1..Len(t)
    PROVE  Min({f + 1, behind(t)}) = f + 1
<1>1. Len(t) \in Nat /\ behind(t) = Len(t) + 1
  BY TextLength
<1>2. f + 1 \in Int /\ behind(t) \in Int /\ f + 1 <= behind(t)
  BY <1>1
<1> QED
  BY <1>2, MinIs

LEMMA NameIsFound ==
    ASSUME NEW said, NEW t, NEW z, Opened(said, t, z)
    PROVE  /\ nameStart(t).at = toLabel(said.author) + 3 - z
           /\ nameStop(t).at = toNameEnd(said.author) + 1 - z
           /\ privmsg(t).cursor = toText(said) + 5 - z
<1> DEFINE T == textOf(said)
           l == toLabel(said.author)
           e == toNameEnd(said.author)
           B == toText(said)
           c == toChannelEnd(said)
           d == toCmdEnd(said)
           m == Len(t)
<1>1. /\ Slice(t, T, z) /\ t \in Seq(Byte) /\ m \in Nat /\ behind(t) = m + 1
      /\ l \in Nat /\ e \in Nat /\ B \in Nat /\ c \in Nat /\ d \in Nat /\ Len(T) \in Nat
      /\ z \in Int /\ z >= -1 /\ z <= l /\ 1 <= l /\ l + 3 <= e /\ e + 12 <= B
      /\ B + 7 <= c /\ c + 3 <= d /\ d + 1 <= Len(T) /\ c + 3 <= m + z /\ m + z <= Len(T)
  BY OpenedIs
<1>0. /\ \A i \in 1..B : TagByte(T, l, e, B, i)
      /\ \A i \in (B + 1)..Len(T) : TextByte(T, B, c, d, i)
  BY OpenedIs
<1>2. label(t).cursor = l + 3 - z
  BY DEF Opened
<1>3. \A x \in {Space, Semicolon} : x \notin {"=", "/", "display-name", "broadcaster", "P"}
  BY BytesApart
<1>4. \A x \in Alphanumerics : x # Semicolon /\ x # "@" /\ x # "="
  BY KindsApart
<1>5. \A x \in Digit : x # "P"
  BY KindsApart
<1> HIDE DEF T, l, e, B, c, d, m
<1>6. \A i \in (l + 3)..e : i \in 1..B /\ T[i] \in Alphanumerics
  <2> SUFFICES ASSUME NEW i \in (l + 3)..e PROVE i \in 1..B /\ T[i] \in Alphanumerics
    OBVIOUS
  <2>1. i \in 1..B
    BY <1>1
  <2>2. TagByte(T, l, e, B, i)
    BY <1>0, <2>1
  <2> QED
    BY <1>1, <2>1, <2>2 DEF TagByte
<1>7. nameStart(t).at = l + 3 - z /\ nameStart(t).cursor = l + 4 - z
  <2> DEFINE start == l + 3 - z
  <2>1. /\ start \in Nat \ {0} /\ l + 3 \in Nat \ {0} /\ start + z = l + 3
        /\ l + 3 <= m + z /\ start \in 1..m /\ l + 3 \in (l + 3)..e
    BY <1>1
  <2>2. T[l + 3] \in Alphanumerics
    BY <1>6, <2>1
  <2>3. KindAt(t, T, z, start, Alphanumerics, l + 3)
    <3> HIDE DEF start
    <3>1. ~(\E q \in Nat \ {0} : start + z <= q /\ q < l + 3)
      BY <1>1, <2>1
    <3>2. start + z >= 1 /\ start + z <= l + 3
      BY <1>1, <2>1
    <3> QED
      BY <1>1, <2>1, <2>2, <3>1, <3>2 DEF KindAt, m
  <2>4. nameStart(t) = seek_next_alphanumeric(t, start)
    BY <1>2 DEF nameStart
  <2> HIDE DEF start
  <2>5. IsFirst(seek_next_alphanumeric(t, start).at, t, start, Kind(t, Alphanumerics))
    BY <1>1, <2>1, KindIs
  <2>6. seek_next_alphanumeric(t, start).at = l + 3 - z
    <3> DEFINE p == l + 3
               f == seek_next_alphanumeric(t, start).at
    <3>1. KindAt(t, T, z, start, Alphanumerics, p) /\ IsFirst(f, t, start, Kind(t, Alphanumerics))
      BY <2>3, <2>5
    <3> HIDE DEF p, f
    <3>2. f = p - z
      BY <3>1, KindFound
    <3> QED
      BY <1>1, <3>2 DEF p, f
  <2>7. seek_next_alphanumeric(t, start).cursor = Min({(l + 3 - z) + 1, behind(t)})
    BY <2>6 DEF seek_next_alphanumeric, seek_next
  <2>8. l + 3 - z \in 1..m /\ (l + 3 - z) + 1 = l + 4 - z
    BY <1>1
  <2>9. Min({(l + 3 - z) + 1, behind(t)}) = (l + 3 - z) + 1
    BY <1>1, <2>8, SeekStepsOver DEF m
  <2> QED
    BY <2>4, <2>6, <2>7, <2>8, <2>9
<1>8. nameStop(t).at = e + 1 - z /\ nameStop(t).cursor = e + 2 - z
  <2> DEFINE start == l + 4 - z
  <2>1. /\ start \in Nat \ {0} /\ e + 1 \in Nat \ {0} /\ start + z = l + 4
        /\ l + 4 >= 1 /\ l + 4 <= e + 1 /\ e + 1 <= m + z /\ e + 1 \in 1..B
    BY <1>1
  <2>2. T[e + 1] = Semicolon
    <3>1. TagByte(T, l, e, B, e + 1)
      BY <1>0, <2>1
    <3> QED
      BY <1>1, <2>1, <3>1 DEF TagByte
  <2>3. \A q \in Nat \ {0} : l + 4 <= q /\ q < e + 1 => T[q] \notin {Semicolon}
    <3> SUFFICES ASSUME NEW q \in Nat \ {0}, l + 4 <= q, q < e + 1 PROVE T[q] # Semicolon
      OBVIOUS
    <3>1. q \in (l + 3)..e
      BY <1>1
    <3> QED
      BY <1>4, <1>6, <3>1
  <2>4. nameStop(t) = seek_next_char(t, start, Semicolon)
    BY <1>7 DEF nameStop
  <2> HIDE DEF start
  <2>5. KindAt(t, T, z, start, {Semicolon}, e + 1)
    BY <1>1, <2>1, <2>2, <2>3 DEF KindAt, m
  <2>6. Semicolon \in Byte /\ Semicolon # "LF"
    BY WordsAre, BytesApart
  <2>7. /\ seek_next_char(t, start, Semicolon).at = (e + 1) - z
        /\ seek_next_char(t, start, Semicolon).cursor = (e + 1) - z + 1
    BY <2>5, <2>6, CharFound
  <2>8. (e + 1) - z + 1 = e + 2 - z
    BY <1>1
  <2>9. (e + 1) - z = e + 1 - z
    BY <1>1
  <2> QED
    BY <2>4, <2>7, <2>8, <2>9, Zenon
<1>9. privmsg(t).cursor = B + 5 - z
  <2> DEFINE start == e + 2 - z
  <2>0. Len(PRIVMSG) = 3 /\ PRIVMSG[1] = "P" /\ PRIVMSG[2] = "RIVM" /\ PRIVMSG[3] = "SG" /\ PRIVMSG \in Seq(Byte)
    BY WordsAre
  <2>1. /\ start \in Nat \ {0} /\ B + 2 \in Nat \ {0} /\ start + z = e + 2
        /\ e + 2 <= B + 2 /\ (B + 2) + 3 - 1 <= m + z
    BY <1>1
  <2>2. \A i \in (B + 1)..(B + 4) : i \in (B + 1)..Len(T)
    BY <1>1
  <2>3. T[B + 1] = ":" /\ T[B + 2] = "P" /\ T[B + 3] = "RIVM" /\ T[B + 4] = "SG"
    <3>1. B + 1 \in (B + 1)..(B + 4) /\ B + 2 \in (B + 1)..(B + 4)
          /\ B + 3 \in (B + 1)..(B + 4) /\ B + 4 \in (B + 1)..(B + 4)
      BY <1>1
    <3>2. TextByte(T, B, c, d, B + 1) /\ TextByte(T, B, c, d, B + 2)
          /\ TextByte(T, B, c, d, B + 3) /\ TextByte(T, B, c, d, B + 4)
      BY <1>0, <2>2, <3>1
    <3>3. T[B + 1] = ":"
      BY <1>1, <3>2 DEF TextByte
    <3>4. T[B + 2] = "P"
      BY <1>1, <3>2 DEF TextByte
    <3>5. T[B + 3] = "RIVM"
      BY <1>1, <3>2 DEF TextByte
    <3>6. T[B + 4] = "SG"
      BY <1>1, <3>2 DEF TextByte
    <3> QED
      BY <3>3, <3>4, <3>5, <3>6
  <2>4. \A q \in Nat \ {0} : e + 2 <= q /\ q < B + 2 => T[q] # "P"
    <3> SUFFICES ASSUME NEW q \in Nat \ {0}, e + 2 <= q, q < B + 2 PROVE T[q] # "P"
      OBVIOUS
    <3>1. CASE q = B + 1
      BY <2>3, <3>1
    <3>2. CASE q # B + 1
      <4>1. q \in 1..B
        BY <1>1, <3>2
      <4>2. TagByte(T, l, e, B, q)
        BY <1>0, <4>1
      <4>3. q \notin (l + 3)..e /\ ~(q <= l)
        BY <1>1
      <4> QED
        BY <1>3, <1>5, <4>2, <4>3 DEF TagByte
    <3> QED
      BY <3>1, <3>2
  <2>5. OccursAt(PRIVMSG, T, B + 2)
    <3>1. (B + 2) + 1 - 1 = B + 2 /\ (B + 2) + 2 - 1 = B + 3 /\ (B + 2) + 3 - 1 = B + 4
      BY <1>1
    <3>2. \A k \in 1..3 : k = 1 \/ k = 2 \/ k = 3
      OBVIOUS
    <3> QED
      BY <2>0, <2>3, <3>1, <3>2 DEF OccursAt
  <2>6. \A q \in Nat \ {0} : e + 2 <= q /\ q < B + 2 => ~OccursAt(PRIVMSG, T, q)
    <3> SUFFICES ASSUME NEW q \in Nat \ {0}, e + 2 <= q, q < B + 2, OccursAt(PRIVMSG, T, q) PROVE FALSE
      OBVIOUS
    <3>1. q + 1 - 1 = q /\ 1 \in 1..Len(PRIVMSG)
      BY <2>0
    <3>2. T[q] = "P"
      BY <2>0, <3>1 DEF OccursAt
    <3> QED
      BY <2>4, <3>2
  <2>7. privmsg(t) = seek_next_string(t, start, PRIVMSG)
    BY <1>8 DEF privmsg
  <2> HIDE DEF start
  <2>8. WordAt(t, T, z, start, PRIVMSG, B + 2)
    <3>1. Len(PRIVMSG) >= 1 /\ PRIVMSG[1] # "LF"
      BY <2>0
    <3> QED
      BY <1>1, <2>0, <2>1, <2>5, <2>6, <3>1 DEF WordAt, m
  <2>9. seek_next_string(t, start, PRIVMSG).cursor = (B + 2) - z + 3
    <3> DEFINE p == B + 2
    <3>1. WordAt(t, T, z, start, PRIVMSG, p)
      BY <2>8
    <3> HIDE DEF p
    <3>2. seek_next_string(t, start, PRIVMSG).cursor = p - z + Len(PRIVMSG)
      BY <3>1, WordFound
    <3> QED
      BY <2>0, <3>2 DEF p
  <2>10. (B + 2) - z + 3 = B + 5 - z
    BY <1>1
  <2> QED
    BY <2>7, <2>9, <2>10
<1> QED
  BY <1>7, <1>8, <1>9 DEF l, e, B

LEMMA SeekFound ==
    ASSUME NEW t, NEW T, NEW z, NEW start, NEW p
    PROVE  /\ KindAt(t, T, z, start, Alphanumerics, p) =>
                 /\ seek_next_alphanumeric(t, start).at = p - z
                 /\ seek_next_alphanumeric(t, start).cursor = p - z + 1
           /\ KindAt(t, T, z, start, Byte \ Alphanumerics, p) =>
                 /\ seek_next_non_alphanumeric(t, start).at = p - z
                 /\ seek_next_non_alphanumeric(t, start).cursor = p - z + 1
           /\ KindAt(t, T, z, start, Whitespace, p) => seek_next_whitespace(t, start).at = p - z
           /\ KindAt(t, T, z, start, Byte \ Whitespace, p) => seek_past_whitespace(t, start) = p - z
<1>1. ASSUME NEW kind, KindAt(t, T, z, start, kind, p)
      PROVE  t \in Seq(Byte) /\ start \in Nat \ {0} /\ p - z \in 1..Len(t)
  <2>1. Slice(t, T, z) /\ start \in Nat \ {0} /\ p \in Nat \ {0} /\ start + z <= p /\ p <= Len(t) + z
    BY <1>1 DEF KindAt
  <2>2. t \in Seq(Byte) /\ Len(t) \in Nat /\ z \in Int
    BY <2>1, TextLength DEF Slice
  <2> QED
    BY <2>1, <2>2
<1>2. ASSUME KindAt(t, T, z, start, Alphanumerics, p)
      PROVE  /\ seek_next_alphanumeric(t, start).at = p - z
             /\ seek_next_alphanumeric(t, start).cursor = p - z + 1
  <2>1. t \in Seq(Byte) /\ start \in Nat \ {0} /\ p - z \in 1..Len(t)
    BY <1>1, <1>2
  <2>2. seek_next_alphanumeric(t, start).at = p - z
    BY <1>2, <2>1, KindIs, KindFound
  <2>3. seek_next_alphanumeric(t, start).cursor = Min({(p - z) + 1, behind(t)})
    BY <2>2 DEF seek_next_alphanumeric, seek_next
  <2> QED
    BY <2>1, <2>2, <2>3, SeekStepsOver
<1>3. ASSUME KindAt(t, T, z, start, Byte \ Alphanumerics, p)
      PROVE  /\ seek_next_non_alphanumeric(t, start).at = p - z
             /\ seek_next_non_alphanumeric(t, start).cursor = p - z + 1
  <2>1. t \in Seq(Byte) /\ start \in Nat \ {0} /\ p - z \in 1..Len(t)
    BY <1>1, <1>3
  <2>2. seek_next_non_alphanumeric(t, start).at = p - z
    <3> DEFINE others == Byte \ Alphanumerics
               f == seek_next_non_alphanumeric(t, start).at
    <3>1. KindAt(t, T, z, start, others, p) /\ IsFirst(f, t, start, Kind(t, others))
      BY <1>3, <2>1, KindIs
    <3> HIDE DEF others
    <3> QED
      BY <3>1, KindFound
  <2>3. seek_next_non_alphanumeric(t, start).cursor = Min({(p - z) + 1, behind(t)})
    BY <2>2 DEF seek_next_non_alphanumeric, seek_next
  <2> QED
    BY <2>1, <2>2, <2>3, SeekStepsOver
<1>4. ASSUME KindAt(t, T, z, start, Whitespace, p) PROVE seek_next_whitespace(t, start).at = p - z
  <2>1. t \in Seq(Byte) /\ start \in Nat \ {0}
    BY <1>1, <1>4
  <2> QED
    BY <1>4, <2>1, KindIs, KindFound
<1>5. ASSUME KindAt(t, T, z, start, Byte \ Whitespace, p) PROVE seek_past_whitespace(t, start) = p - z
  <2>1. t \in Seq(Byte) /\ start \in Nat \ {0}
    BY <1>1, <1>5
  <2> DEFINE others == Byte \ Whitespace
             f == seek_past_whitespace(t, start)
  <2>2. KindAt(t, T, z, start, others, p) /\ IsFirst(f, t, start, Kind(t, others))
    BY <1>5, <2>1, KindIs
  <2> HIDE DEF others
  <2> QED
    BY <2>2, KindFound
<1> QED
  BY <1>2, <1>3, <1>4, <1>5

LEMMA CommandIsFound ==
    ASSUME NEW said, NEW t, NEW z, Opened(said, t, z)
    PROVE  LET d == toCmdEnd(said) IN
           /\ channelStart(t).at = toText(said) + 7 - z
           /\ channelStop(t).at = toChannelEnd(said) + 1 - z
           /\ chatStart(t) = toChannelEnd(said) + 3 - z
           /\ d + 1 <= Len(t) + z => cmdStop(t) = d + 1 - z
           /\ d + 1 > Len(t) + z => cmdStop(t) = Len(t) + 1
<1> DEFINE T == textOf(said)
           B == toText(said)
           c == toChannelEnd(said)
           d == toCmdEnd(said)
           m == Len(t)
<1>1. /\ Slice(t, T, z) /\ t \in Seq(Byte) /\ m \in Nat /\ behind(t) = m + 1
      /\ B \in Nat /\ c \in Nat /\ d \in Nat /\ Len(T) \in Nat /\ z \in Int /\ z >= -1 /\ z + 15 <= B
      /\ B + 7 <= c /\ c + 3 <= d /\ d + 1 <= Len(T) /\ c + 3 <= m + z /\ m + z <= Len(T)
  BY OpenedIs, SMTT(30)
<1>2. \A i \in (B + 1)..Len(T) : TextByte(T, B, c, d, i)
  BY OpenedIs
<1>3. privmsg(t).cursor = B + 5 - z
  BY NameIsFound
<1>4. /\ Space \in Byte \ Alphanumerics /\ Space # "#" /\ Space \in Whitespace
      /\ "!" \in Byte \ Whitespace /\ "LF" \in Whitespace
  <2>1. Space \in Byte /\ "!" \in Byte /\ Space # "#" /\ Space # "!" /\ Space \in Whitespace /\ "!" \notin Whitespace
    BY WordsAre, BytesApart
  <2>2. Space \notin Alphanumerics
    BY KindsApart
  <2> QED
    BY <2>1, <2>2, BytesApart
<1>5. "#" \in Byte /\ ":" \in Byte
  BY WordsAre
<1> HIDE DEF T, B, c, d, m
<1>6. T[B + 5] = Space /\ T[B + 6] = "#" /\ T[c + 1] = Space /\ T[c + 2] = ":" /\ T[c + 3] = "!" /\ T[d + 1] = Space
  <2>1. /\ B + 5 \in (B + 1)..Len(T) /\ B + 6 \in (B + 1)..Len(T) /\ c + 1 \in (B + 1)..Len(T)
        /\ c + 2 \in (B + 1)..Len(T) /\ c + 3 \in (B + 1)..Len(T) /\ d + 1 \in (B + 1)..Len(T)
    BY <1>1
  <2>2. T[B + 5] = Space
    BY <1>1, <1>2, <2>1 DEF TextByte
  <2>3. T[B + 6] = "#"
    BY <1>1, <1>2, <2>1 DEF TextByte
  <2>4. T[c + 1] = Space
    BY <1>1, <1>2, <2>1 DEF TextByte
  <2>5. T[c + 2] = ":"
    BY <1>1, <1>2, <2>1 DEF TextByte
  <2>6. T[c + 3] = "!"
    BY <1>1, <1>2, <2>1 DEF TextByte
  <2>7. T[d + 1] = Space
    BY <1>1, <1>2, <2>1 DEF TextByte
  <2> QED
    BY <2>2, <2>3, <2>4, <2>5, <2>6, <2>7
<1>7. \A i \in Nat : B + 7 <= i /\ i <= c => T[i] \in Alphanumerics
  <2> SUFFICES ASSUME NEW i \in Nat, B + 7 <= i, i <= c PROVE T[i] \in Alphanumerics
    OBVIOUS
  <2>1. TextByte(T, B, c, d, i)
    <3>1. i \in (B + 1)..Len(T)
      BY <1>1
    <3> QED
      BY <1>2, <3>1
  <2> QED
    BY <1>1, <2>1 DEF TextByte
<1>8. \A i \in Nat : c + 4 <= i /\ i <= d => T[i] \notin Whitespace
  <2> SUFFICES ASSUME NEW i \in Nat, c + 4 <= i, i <= d PROVE T[i] \notin Whitespace
    OBVIOUS
  <2>1. TextByte(T, B, c, d, i)
    <3>1. i \in (B + 1)..Len(T)
      BY <1>1
    <3> QED
      BY <1>2, <3>1
  <2> QED
    BY <1>1, <2>1 DEF TextByte
<1>9. hash(t).cursor = B + 7 - z
  <2> DEFINE start == B + 5 - z
             p == B + 6
  <2>1. /\ start \in Nat \ {0} /\ p \in Nat \ {0} /\ start + z = B + 5 /\ start + z >= 1
        /\ start + z <= p /\ p <= m + z /\ p - z + 1 = B + 7 - z
    BY <1>1
  <2>2. \A q \in Nat \ {0} : start + z <= q /\ q < p => q = B + 5
    BY <1>1, <2>1
  <2>3. hash(t) = seek_next_char(t, start, "#") /\ T[p] = "#"
    BY <1>3, <1>6 DEF hash
  <2>4. T[B + 5] \notin {"#"}
    BY <1>4, <1>6
  <2> HIDE DEF start, p
  <2>5. KindAt(t, T, z, start, {"#"}, p)
    BY <1>1, <2>1, <2>2, <2>3, <2>4 DEF KindAt, m
  <2>6. seek_next_char(t, start, "#").cursor = p - z + 1
    BY <1>5, <2>5, CharFound
  <2> QED
    BY <2>1, <2>3, <2>6
<1>10. channelStart(t).at = B + 7 - z /\ channelStart(t).cursor = B + 8 - z
  <2> DEFINE start == B + 7 - z
             p == B + 7
  <2>1. /\ start \in Nat \ {0} /\ p \in Nat \ {0} /\ start + z = p /\ start + z >= 1
        /\ p <= m + z /\ p - z = B + 7 - z /\ p - z + 1 = B + 8 - z /\ p <= c /\ B + 7 <= p
    BY <1>1
  <2>2. channelStart(t) = seek_next_alphanumeric(t, start)
    BY <1>9 DEF channelStart
  <2> HIDE DEF start, p
  <2>3. T[p] \in Alphanumerics /\ start + z <= p /\ \A q \in Nat \ {0} : start + z <= q /\ q < p => FALSE
    BY <1>7, <2>1
  <2>4. KindAt(t, T, z, start, Alphanumerics, p)
    BY <1>1, <2>1, <2>3 DEF KindAt, m
  <2>5. /\ seek_next_alphanumeric(t, start).at = p - z
        /\ seek_next_alphanumeric(t, start).cursor = p - z + 1
    BY <2>4, SeekFound
  <2> QED
    BY <2>1, <2>2, <2>5
<1>11. channelStop(t).at = c + 1 - z /\ channelStop(t).cursor = c + 2 - z
  <2> DEFINE start == B + 8 - z
             p == c + 1
  <2>1. /\ start \in Nat \ {0} /\ p \in Nat \ {0} /\ start + z = B + 8 /\ start + z >= 1
        /\ start + z <= p /\ p <= m + z /\ p - z = c + 1 - z /\ p - z + 1 = c + 2 - z
    BY <1>1
  <2>2. \A q \in Nat \ {0} : start + z <= q /\ q < p => B + 7 <= q /\ q <= c
    BY <1>1, <2>1
  <2>3. \A q \in Nat \ {0} : start + z <= q /\ q < p => T[q] \notin Byte \ Alphanumerics
    BY <1>7, <2>2
  <2>4. channelStop(t) = seek_next_non_alphanumeric(t, start) /\ T[p] \in Byte \ Alphanumerics
    BY <1>4, <1>6, <1>10 DEF channelStop
  <2> HIDE DEF start, p
  <2>5. KindAt(t, T, z, start, Byte \ Alphanumerics, p)
    BY <1>1, <2>1, <2>3, <2>4 DEF KindAt, m
  <2>6. /\ seek_next_non_alphanumeric(t, start).at = p - z
        /\ seek_next_non_alphanumeric(t, start).cursor = p - z + 1
    BY <2>5, SeekFound
  <2> QED
    BY <2>1, <2>4, <2>6
<1>12. colon(t).cursor = c + 3 - z
  <2> DEFINE start == c + 2 - z
             p == c + 2
  <2>1. /\ start \in Nat \ {0} /\ p \in Nat \ {0} /\ start + z = p /\ start + z >= 1
        /\ p <= m + z /\ p - z + 1 = c + 3 - z
    BY <1>1
  <2>2. colon(t) = seek_next_char(t, start, ":") /\ T[p] = ":"
    BY <1>6, <1>11 DEF colon
  <2> HIDE DEF start, p
  <2>3. start + z <= p /\ \A q \in Nat \ {0} : start + z <= q /\ q < p => FALSE
    BY <2>1
  <2>4. KindAt(t, T, z, start, {":"}, p)
    BY <1>1, <2>1, <2>2, <2>3 DEF KindAt, m
  <2>5. seek_next_char(t, start, ":").cursor = p - z + 1
    BY <1>5, <2>4, CharFound
  <2> QED
    BY <2>1, <2>2, <2>5
<1>13. chatStart(t) = c + 3 - z
  <2> DEFINE start == c + 3 - z
             p == c + 3
  <2>1. /\ start \in Nat \ {0} /\ p \in Nat \ {0} /\ start + z = p /\ start + z >= 1
        /\ p <= m + z /\ p - z = c + 3 - z
    BY <1>1
  <2>2. chatStart(t) = seek_past_whitespace(t, start) /\ T[p] \in Byte \ Whitespace
    BY <1>4, <1>6, <1>12 DEF chatStart
  <2> HIDE DEF start, p
  <2>3. start + z <= p /\ \A q \in Nat \ {0} : start + z <= q /\ q < p => FALSE
    BY <2>1
  <2>4. KindAt(t, T, z, start, Byte \ Whitespace, p)
    BY <1>1, <2>1, <2>2, <2>3 DEF KindAt, m
  <2>5. seek_past_whitespace(t, start) = p - z
    BY <2>4, SeekFound
  <2> QED
    BY <2>1, <2>2, <2>5
<1> DEFINE from == c + 4 - z
<1>14. from \in Nat \ {0} /\ from + z = c + 4 /\ cmdStop(t) = seek_next_whitespace(t, from).at
  <2>1. (c + 3 - z) + 1 = from /\ from \in Nat \ {0} /\ from + z = c + 4
    BY <1>1
  <2> QED
    BY <1>13, <2>1 DEF cmdStop
<1> HIDE DEF from
<1>15. ASSUME d + 1 <= m + z PROVE cmdStop(t) = d + 1 - z
  <2> DEFINE p == d + 1
  <2>1. /\ p \in Nat \ {0} /\ from + z >= 1 /\ from + z <= p /\ p <= m + z /\ p - z = d + 1 - z
    BY <1>1, <1>14, <1>15
  <2>2. \A q \in Nat \ {0} : from + z <= q /\ q < p => T[q] \notin Whitespace
    <3> SUFFICES ASSUME NEW q \in Nat \ {0}, from + z <= q, q < p PROVE T[q] \notin Whitespace
      OBVIOUS
    <3>1. c + 4 <= q /\ q <= d
      BY <1>1, <1>14
    <3> QED
      BY <1>8, <3>1
  <2>3. T[p] \in Whitespace
    BY <1>4, <1>6
  <2> HIDE DEF p
  <2>4. KindAt(t, T, z, from, Whitespace, p)
    BY <1>1, <1>14, <2>1, <2>2, <2>3 DEF KindAt, m
  <2>5. seek_next_whitespace(t, from).at = p - z
    BY <2>4, SeekFound
  <2> QED
    BY <1>14, <2>1, <2>5
<1>16. ASSUME d + 1 > m + z PROVE cmdStop(t) = m + 1
  <2> DEFINE f == seek_next_whitespace(t, from).at
  <2>1. IsFirst(f, t, from, Kind(t, Whitespace))
    BY <1>1, <1>14, KindIs
  <2> HIDE DEF f
  <2>2. SUFFICES ASSUME f # m + 1 PROVE FALSE
    BY <1>14 DEF f
  <2>3. f \in from..Len(t) /\ f \in 1..Len(t) /\ t[f] \in Whitespace
    <3>1. f \in Nat /\ f < behind(t)
      BY <1>1, <2>1, <2>2 DEF IsFirst
    <3> QED
      BY <2>1, <3>1 DEF IsFirst, Kind
  <2>4. f + z \in Nat /\ c + 4 <= f + z /\ f + z <= d /\ f + z # 0
    BY <1>1, <1>14, <1>16, <2>3 DEF m
  <2>5. t[f] = T[f + z]
    BY <1>1, <2>3, <2>4 DEF Slice
  <2> QED
    BY <1>8, <2>3, <2>4, <2>5
<1> QED
  BY <1>10, <1>11, <1>13, <1>15, <1>16 DEF B, c, d, m

(* One of the tags that follow the name, of which the first byte is at x.     *)
LEMMA TagIsFound ==
    ASSUME NEW said, NEW t, NEW z, Opened(said, t, z),
           NEW x \in {toNameEnd(said.author) + 2, toNameEnd(said.author) + 6, toNameEnd(said.author) + 10},
           NEW word \in Seq(Byte), Len(word) = 2, word[1] = textOf(said)[x], word[2] = "="
    PROVE  seek_next_string(t, 1, word).cursor = x + 2 - z
<1> DEFINE T == textOf(said)
           l == toLabel(said.author)
           e == toNameEnd(said.author)
           B == toText(said)
           m == Len(t)
<1>1. /\ Slice(t, T, z) /\ m \in Nat /\ l \in Nat /\ e \in Nat /\ B \in Nat
      /\ z \in Int /\ z >= -1 /\ z <= l /\ 1 <= l /\ l + 3 <= e /\ e + 12 <= B /\ B + 10 <= m + z
  <2>1. /\ Slice(t, T, z) /\ m \in Nat /\ l \in Nat /\ e \in Nat /\ B \in Nat /\ toChannelEnd(said) \in Nat
        /\ z \in Int /\ z >= -1 /\ z <= l /\ 1 <= l /\ l + 3 <= e /\ e + 12 <= B
        /\ B + 7 <= toChannelEnd(said) /\ toChannelEnd(said) + 3 <= m + z
    BY OpenedIs
  <2> HIDE DEF m, l, e, B, T
  <2> QED
    BY <2>1
<1>2. /\ T[l + 1] = "display-name" /\ T[e + 2] = "mod" /\ T[e + 6] = "subscriber" /\ T[e + 10] = "user-id"
      /\ T[e + 3] = "=" /\ T[e + 7] = "=" /\ T[e + 11] = "="
  BY ChatStandsThere, OpenedIs DEF ChatStands, TagsStand
<1>3. \A i \in 1..B : T[i] = "=" => i \in {l + 2, e + 3, e + 7, e + 11}
  BY OpenedIs, LabelsAre
<1>4. x \in {e + 2, e + 6, e + 10} /\ word[1] = T[x]
  OBVIOUS
<1> HIDE DEF T, l, e, B, m
<1>5. x \in Nat \ {0} /\ l + 1 < x /\ x + 1 <= B /\ x + 2 - 1 <= m + z
  BY <1>1, <1>4
<1>6. OccursAt(word, T, x)
  <2>1. T[x + 1] = "="
    <3>1. x + 1 \in {e + 3, e + 7, e + 11}
      BY <1>1, <1>4
    <3> QED
      BY <1>2, <3>1
  <2>2. x + 1 - 1 = x /\ x + 2 - 1 = x + 1 /\ \A k \in 1..2 : k = 1 \/ k = 2
    BY <1>5
  <2> QED
    BY <1>4, <2>1, <2>2 DEF OccursAt
<1>7. \A q \in Nat \ {0} : 1 + z <= q /\ q < x => ~OccursAt(word, T, q)
  <2> SUFFICES ASSUME NEW q \in Nat \ {0}, q < x, OccursAt(word, T, q) PROVE FALSE
    OBVIOUS
  <2>1. q + 1 - 1 = q /\ q + 2 - 1 = q + 1 /\ 1 \in 1..2 /\ 2 \in 1..2 /\ q + 1 \in 1..B
    BY <1>1, <1>5
  <2>2. T[q] = word[1] /\ T[q + 1] = "="
    BY <2>1 DEF OccursAt
  <2>3. q + 1 \in {l + 2, e + 3, e + 7, e + 11}
    BY <1>3, <2>1, <2>2
  <2>4. q \in {l + 1, e + 2, e + 6, e + 10}
    BY <1>1, <2>3
  <2>5. T[q] = T[x] /\ q # x
    BY <1>4, <1>5, <2>2
  <2> QED
    BY <1>2, <1>4, <1>5, <2>4, <2>5
<1>8. WordAt(t, T, z, 1, word, x)
  <2>1. word[1] # "LF"
    BY <1>2, <1>4
  <2> QED
    BY <1>1, <1>5, <1>6, <1>7, <2>1 DEF WordAt, m
<1>9. seek_next_string(t, 1, word).cursor = x - z + 2
  <2> DEFINE start == 1
  <2>1. WordAt(t, T, z, start, word, x)
    BY <1>8
  <2> HIDE DEF start
  <2>2. \A p, w : WordAt(t, T, z, start, w, p) => seek_next_string(t, start, w).cursor = p - z + Len(w)
    BY WordFound
  <2>3. seek_next_string(t, start, word).cursor = x - z + Len(word)
    BY <2>1, <2>2
  <2> QED
    BY <1>1, <1>5, <2>3 DEF start
<1> QED
  BY <1>1, <1>5, <1>9

(* Nobody is taken for what he is not, and of a line that comes with all its  *)
(* tags no role is lost.                                                      *)
LEMMA RolesAreHis ==
    ASSUME NEW said, NEW t, NEW z, Opened(said, t, z)
    PROVE  /\ rolesIn(t) \subseteq said.author.roles
           /\ z <= 0 => rolesIn(t) = said.author.roles
<1> DEFINE T == textOf(said)
           l == toLabel(said.author)
           e == toNameEnd(said.author)
           B == toText(said)
           m == Len(t)
           roles == said.author.roles
<1>1. /\ said \in Chat /\ Plain(said) /\ said.tagged
      /\ Slice(t, T, z) /\ t \in Seq(Byte) /\ m \in Nat /\ behind(t) = m + 1
      /\ l \in Nat /\ e \in Nat /\ B \in Nat
      /\ z \in Int /\ z >= -1 /\ z <= l /\ 1 <= l /\ l + 3 <= e /\ e + 12 <= B /\ B + 10 <= m + z
      /\ Len(T) \in Nat /\ m + z <= Len(T)
  <2>1. /\ said \in Chat /\ Plain(said) /\ said.tagged
        /\ Slice(t, T, z) /\ t \in Seq(Byte) /\ m \in Nat /\ behind(t) = m + 1
        /\ l \in Nat /\ e \in Nat /\ B \in Nat /\ toChannelEnd(said) \in Nat
        /\ z \in Int /\ z >= -1 /\ z <= l /\ 1 <= l /\ l + 3 <= e /\ e + 12 <= B
        /\ B + 7 <= toChannelEnd(said) /\ toChannelEnd(said) + 3 <= m + z
        /\ Len(T) \in Nat /\ m + z <= Len(T)
    BY OpenedIs
  <2> HIDE DEF m, l, e, B, T
  <2> QED
    BY <2>1
<1>2. /\ T[e + 2] = "mod" /\ T[e + 4] = bit(said.author, "moderator")
      /\ T[e + 6] = "subscriber" /\ T[e + 8] = bit(said.author, "subscriber")
      /\ "broadcaster" \in roles => T[2] = "broadcaster" /\ T[3] = "/" /\ T[4] = "1" /\ l = 5
  BY <1>1, ChatStandsThere DEF ChatStands, TagsStand, toLabel
<1>3. \A role : bit(said.author, role) = "1" <=> role \in roles
  BY DEF bit
<1>4. ASSUME NEW x \in {e + 2, e + 6}, NEW word \in {Mod, Subscriber}, word[1] = T[x]
      PROVE  hasFlag(t, word) <=> T[x + 2] = "1"
  <2>1. seek_next_string(t, 1, word).cursor = x + 2 - z
    <3>1. word \in Seq(Byte) /\ Len(word) = 2 /\ word[2] = "="
      BY WordsAre
    <3> QED
      BY <1>4, <3>1, TagIsFound
  <2> DEFINE i == x + 2 - z
  <2> HIDE DEF l, e, B, m, T
  <2>2. i \in 1..m /\ i + z = x + 2 /\ i + z # 0
    BY <1>1, <1>4, SMTT(30)
  <2>3. t[i] = T[x + 2]
    BY <1>1, <2>2 DEF Slice, m
  <2>4. byteAt(t, i) = T[x + 2]
    BY <2>2, <2>3 DEF byteAt, m
  <2> HIDE DEF i
  <2> QED
    BY <2>1, <2>4 DEF hasFlag, i
<1>5. hasFlag(t, Mod) <=> "moderator" \in roles
  <2>1. Mod[1] = T[e + 2]
    BY <1>2, WordsAre
  <2>2. hasFlag(t, Mod) <=> T[(e + 2) + 2] = "1"
    BY <1>4, <2>1
  <2>3. (e + 2) + 2 = e + 4
    BY <1>1
  <2> QED
    BY <1>2, <1>3, <2>2, <2>3
<1>6. hasFlag(t, Subscriber) <=> "subscriber" \in roles
  <2>1. Subscriber[1] = T[e + 6]
    BY <1>2, WordsAre
  <2>2. hasFlag(t, Subscriber) <=> T[(e + 6) + 2] = "1"
    BY <1>4, <2>1
  <2>3. (e + 6) + 2 = e + 8
    BY <1>1
  <2> QED
    BY <1>2, <1>3, <2>2, <2>3
<1>7. ASSUME hasFlag(t, Broadcaster) PROVE "broadcaster" \in roles
  <2> DEFINE at == find(t, 1, Broadcaster)
  <2>0. Len(Broadcaster) = 2 /\ Broadcaster[1] = "broadcaster" /\ Broadcaster[2] = "/" /\ Broadcaster \in Seq(Byte)
    BY WordsAre
  <2>1. at # behind(t)
    <3> SUFFICES ASSUME at = behind(t) PROVE FALSE
      OBVIOUS
    <3>1. seek_next_string(t, 1, Broadcaster).cursor = behind(t)
      BY DEF seek_next_string
    <3>2. byteAt(t, behind(t)) = "NUL"
      BY <1>1 DEF byteAt
    <3>3. byteAt(t, seek_next_string(t, 1, Broadcaster).cursor) = "1"
      BY <1>7 DEF hasFlag
    <3>4. "NUL" # "1"
      OBVIOUS
    <3> QED
      BY <3>1, <3>2, <3>3, <3>4, Zenon
  <2>2. IsFirst(at, t, 1, Where(t, Broadcaster))
    <3>1. t \in Seq(Byte)
      BY <1>1
    <3> QED
      BY <3>1, WordsAre, FindIs
  <2> HIDE DEF at
  <2>3. at \in Where(t, Broadcaster) /\ at \in Nat
    BY <1>1, <2>1, <2>2 DEF IsFirst
  <2>4. at \in 1..Len(t) /\ at + 1 \in 1..Len(t) /\ t[at] = "broadcaster" /\ t[at + 1] = "/"
    <3>1. at \in 1..Len(t) /\ at + 2 - 1 <= Len(t) /\ \A k \in 1..2 : t[at + k - 1] = Broadcaster[k]
      BY <2>0, <2>3 DEF Where
    <3>2. at + 1 - 1 = at /\ at + 2 - 1 = at + 1 /\ at + 1 \in 1..Len(t)
      BY <1>1, <2>3, <3>1
    <3> QED
      BY <2>0, <3>1, <3>2
  <2>5. /\ at + z \in 1..Len(T) /\ T[at + z] = "broadcaster"
        /\ (at + 1) + z \in 1..Len(T) /\ T[(at + 1) + z] = "/"
    <3> DEFINE next == at + 1
    <3>1. next \in 1..Len(t) /\ t[next] = "/"
      BY <2>4
    <3> HIDE DEF next
    <3>2. at + z \in 1..Len(T) /\ T[at + z] = "broadcaster"
      BY <1>1, <2>4, SliceByte
    <3>3. next + z \in 1..Len(T) /\ T[next + z] = "/"
      BY <1>1, <3>1, SliceByte, SMTT(30)
    <3> QED
      BY <3>2, <3>3 DEF next
  <2>6. at + z \in 1..(Len(T) - 1) /\ (at + z) + 1 = (at + 1) + z
    BY <1>1, <2>3, <2>5
  <2> QED
    BY <1>1, <2>5, <2>6, LabelsAre
<1>8. ASSUME "broadcaster" \in roles, z <= 0 PROVE hasFlag(t, Broadcaster)
  <2>0. Len(Broadcaster) = 2 /\ Broadcaster[1] = "broadcaster" /\ Broadcaster[2] = "/" /\ Broadcaster \in Seq(Byte)
    BY WordsAre
  <2>1. T[1] = "@"
    BY <1>1, ChatStandsThere DEF ChatStands, TagsStand
  <2> HIDE DEF l, e, B, m, T
  <2>2. OccursAt(Broadcaster, T, 2)
    <3>1. \A k \in 1..2 : k = 1 \/ k = 2
      OBVIOUS
    <3> QED
      BY <1>2, <1>8, <2>0, <3>1 DEF OccursAt
  <2>3. \A q \in Nat \ {0} : 1 + z <= q /\ q < 2 => ~OccursAt(Broadcaster, T, q)
    <3> SUFFICES ~OccursAt(Broadcaster, T, 1)
      OBVIOUS
    <3>1. 1 \in 1..2 /\ 1 + 1 - 1 = 1
      OBVIOUS
    <3> QED
      BY <2>0, <2>1, <3>1 DEF OccursAt
  <2>4. WordAt(t, T, z, 1, Broadcaster, 2)
    <3>1. 1 + z <= 2 /\ 2 + 2 - 1 <= m + z
      BY <1>1, <1>8
    <3>2. Broadcaster[1] # "LF"
      BY <2>0
    <3> QED
      BY <1>1, <2>0, <2>2, <2>3, <3>1, <3>2 DEF WordAt, m
  <2>5. seek_next_string(t, 1, Broadcaster).cursor = 2 - z + 2
    <3> DEFINE start == 1
               p == 2
    <3>1. WordAt(t, T, z, start, Broadcaster, p)
      BY <2>4
    <3> HIDE DEF start, p
    <3>2. seek_next_string(t, start, Broadcaster).cursor = p - z + Len(Broadcaster)
      BY <3>1, WordFound
    <3> QED
      BY <2>0, <3>2 DEF start, p
  <2> DEFINE i == 2 - z + 2
  <2>6. i \in 1..m /\ i + z = 4 /\ i + z # 0
    BY <1>1, <1>8
  <2>7. t[i] = T[4]
    BY <1>1, <2>6 DEF Slice, m
  <2>8. byteAt(t, i) = "1"
    BY <1>2, <1>8, <2>6, <2>7 DEF byteAt, m
  <2> HIDE DEF i
  <2> QED
    BY <2>5, <2>8 DEF hasFlag, i
<1>9. roles \subseteq {"broadcaster", "moderator", "subscriber"}
  BY <1>1, PlacesAre DEF Viewer
<1>10. "broadcaster" \in roles => "moderator" \in roles
  BY <1>1 DEF Plain
<1> HIDE DEF roles
<1> QED
  BY <1>5, <1>6, <1>7, <1>8, <1>9, <1>10 DEF rolesIn, roles

-----------------------------------------------------------------------------
(* The words of a command.                                                    *)

(* A name, for the provers' sake.                                             *)
Span(t, from, to) == SubSeq(t, from, to)

(* From position from to position to, t holds the first n bytes of word.      *)
Piece(word, T, o, t, z, from, to, n) ==
    /\ Slice(t, T, z) /\ word \in Seq(Byte) /\ o \in Nat /\ StandsAt(word, T, o)
    /\ n \in 0..Len(word) /\ from \in Nat \ {0} /\ from + z = o + 1
    /\ to = from + n - 1 /\ to <= Len(t)

LEMMA PieceIs ==
    ASSUME NEW word, NEW T, NEW o, NEW t, NEW z, NEW from, NEW to, NEW n,
           Piece(word, T, o, t, z, from, to, n)
    PROVE  Span(t, from, to) = Span(word, 1, n)
<1>0. /\ Slice(t, T, z) /\ word \in Seq(Byte) /\ o \in Nat /\ StandsAt(word, T, o)
      /\ n \in 0..Len(word) /\ from \in Nat \ {0} /\ from + z = o + 1
      /\ to = from + n - 1 /\ to <= Len(t)
  BY DEF Piece
<1> DEFINE a == SubSeq(t, from, to)
           b == SubSeq(word, 1, n)
<1>1. t \in Seq(Byte) /\ Len(t) \in Nat /\ z \in Int /\ z >= -1
  BY <1>0, TextLength DEF Slice
<1>2. Len(word) \in Nat /\ n \in Nat /\ n <= Len(word) /\ to \in Int /\ to - from + 1 = n
  BY <1>0, TextLength
<1>3. \A i \in from..to : t[i] \in Byte
  <2> SUFFICES ASSUME NEW i \in from..to PROVE t[i] \in Byte
    OBVIOUS
  <2>1. i \in 1..Len(t)
    BY <1>0, <1>1, <1>2
  <2> QED
    BY <1>1, <2>1, TextLength
<1>4. /\ a \in Seq(Byte) /\ Len(a) = IF from <= to THEN to - from + 1 ELSE 0
      /\ \A k \in 1..(to - from + 1) : a[k] = t[from + k - 1]
  <2>1. from \in Int
    BY <1>0
  <2> QED
    BY <1>2, <1>3, <2>1, SubSeqProperties
<1>5. /\ b \in Seq(Byte) /\ Len(b) = IF 1 <= n THEN n - 1 + 1 ELSE 0
      /\ \A k \in 1..(n - 1 + 1) : b[k] = word[1 + k - 1]
  <2>1. \A i \in 1..n : word[i] \in Byte
    BY <1>0, <1>2, TextLength
  <2> QED
    BY <1>2, <2>1, SubSeqProperties
<1> HIDE DEF a, b
<1>6. Len(a) = n /\ Len(b) = n
  BY <1>0, <1>2, <1>4, <1>5
<1>7. ASSUME NEW k \in 1..n PROVE a[k] = b[k]
  <2> DEFINE i == from + k - 1
  <2>1. /\ i \in 1..Len(t) /\ i + z = o + k /\ i + z # 0 /\ k \in 1..(to - from + 1)
        /\ k \in 1..(n - 1 + 1) /\ 1 + k - 1 = k /\ k \in 1..Len(word)
    BY <1>0, <1>1, <1>2
  <2>2. t[i] = T[o + k]
    <3> HIDE DEF i
    <3> QED
      BY <1>0, <2>1 DEF Slice
  <2>3. T[o + k] = word[k]
    BY <1>0, <2>1 DEF StandsAt
  <2> QED
    BY <1>4, <1>5, <2>1, <2>2, <2>3
<1>8. a = b
  BY <1>4, <1>5, <1>6, <1>7, SeqEqual
<1> QED
  BY <1>8 DEF a, b, Span

LEMMA BeginningIs ==
    ASSUME NEW word \in Seq(Byte), NEW n \in 0..Len(word)
    PROVE  /\ isBeginning(SubSeq(word, 1, n), word)
           /\ SubSeq(word, 1, n) \in Seq(Byte) /\ Len(SubSeq(word, 1, n)) = n
           /\ \A k \in 1..n : SubSeq(word, 1, n)[k] = word[k]
           /\ n = Len(word) => SubSeq(word, 1, n) = word
<1> DEFINE b == SubSeq(word, 1, n)
<1>1. Len(word) \in Nat /\ n \in Nat /\ n <= Len(word)
  BY TextLength
<1>2. \A i \in 1..n : word[i] \in Byte
  BY <1>1, TextLength
<1>3. /\ b \in Seq(Byte) /\ Len(b) = IF 1 <= n THEN n - 1 + 1 ELSE 0
      /\ \A k \in 1..(n - 1 + 1) : b[k] = word[1 + k - 1]
  BY <1>1, <1>2, SubSeqProperties
<1>4. Len(b) = n
  BY <1>1, <1>3
<1>5. \A k \in 1..n : b[k] = word[k]
  <2> SUFFICES ASSUME NEW k \in 1..n PROVE b[k] = word[k]
    OBVIOUS
  <2>1. k \in 1..(n - 1 + 1) /\ 1 + k - 1 = k
    BY <1>1
  <2> QED
    BY <1>3, <2>1
<1>6. n = Len(word) => b = word
  BY SubSeqFull
<1> QED
  BY <1>1, <1>3, <1>4, <1>5, <1>6 DEF isBeginning

(* What is cut of a beginning is a beginning.                                 *)
LEMMA CutIs ==
    ASSUME NEW word \in Seq(Byte), NEW n \in 0..Len(word), NEW max \in Nat
    PROVE  \E k \in 0..Len(word) : cutTo(SubSeq(word, 1, n), max) = SubSeq(word, 1, k)
<1> DEFINE b == SubSeq(word, 1, n)
           k == Min({n, max})
           c == SubSeq(b, 1, k)
           w == SubSeq(word, 1, k)
<1>1. Len(word) \in Nat /\ n \in Nat /\ n <= Len(word)
  BY TextLength
<1>2. /\ b \in Seq(Byte) /\ Len(b) = n
      /\ \A i \in 1..n : b[i] = word[i]
  BY BeginningIs
<1>3. k \in 0..n /\ k \in 0..Len(word) /\ k \in Nat /\ k <= n
  BY <1>1, MinIs
<1>4. cutTo(b, max) = c
  BY <1>2 DEF cutTo
<1> HIDE DEF b, k
<1>5. c \in Seq(Byte) /\ Len(c) = k /\ \A i \in 1..k : c[i] = b[i]
  BY <1>2, <1>3, BeginningIs
<1>6. w \in Seq(Byte) /\ Len(w) = k /\ \A i \in 1..k : w[i] = word[i]
  BY <1>3, BeginningIs
<1> HIDE DEF c, w
<1>7. \A i \in 1..k : c[i] = w[i]
  BY <1>1, <1>2, <1>3, <1>5, <1>6
<1>8. c = w
  BY <1>5, <1>6, <1>7, SeqEqual
<1> QED
  BY <1>3, <1>4, <1>8 DEF b, w

(* The texts of a command are those of its line, as far as they came.         *)
LEMMA WordsAreHis ==
    ASSUME NEW said, NEW t, NEW z, Opened(said, t, z)
    PROVE  /\ nameIn(t) = said.author.displayName
           /\ channelIn(t) = said.channel
           /\ \E n \in 0..Len(said.cmd) :
                 /\ cmdIn(t) = SubSeq(said.cmd, 1, n)
                 /\ Len(t) + z = Len(textOf(said)) => n = Len(said.cmd)
           /\ \E n \in 0..Len(said.cmdMessage) :
                 /\ textIn(t) = SubSeq(said.cmdMessage, 1, n)
                 /\ Len(t) + z = Len(textOf(said)) => n = Len(said.cmdMessage)
<1> DEFINE T == textOf(said)
           l == toLabel(said.author)
           e == toNameEnd(said.author)
           B == toText(said)
           c == toChannelEnd(said)
           d == toCmdEnd(said)
           m == Len(t)
           name == said.author.displayName
           channel == said.channel
           cmd == said.cmd
           cmdMessage == said.cmdMessage
<1>1. /\ said \in Chat /\ Plain(said) /\ said.tagged
      /\ Slice(t, T, z) /\ t \in Seq(Byte) /\ m \in Nat
      /\ l \in Nat /\ e \in Nat /\ B \in Nat /\ c \in Nat /\ d \in Nat /\ Len(T) \in Nat
      /\ z \in Int /\ z >= -1 /\ z <= l /\ 1 <= l /\ l + 3 <= e /\ e + 12 <= B
      /\ B + 7 <= c /\ c + 3 <= d /\ d + 1 <= Len(T) /\ c + 3 <= m + z /\ m + z <= Len(T)
  BY OpenedIs
<1>2. /\ Len(name) \in Nat /\ e = l + 2 + Len(name) /\ Len(channel) \in Nat /\ c = B + 6 + Len(channel)
      /\ Len(cmd) \in Nat /\ d = c + 3 + Len(cmd) /\ Len(cmdMessage) \in Nat
      /\ Len(T) = d + 1 + Len(cmdMessage)
  BY <1>1, PlacesAre
<1>3. name \in Seq(Byte) /\ channel \in Seq(Byte) /\ cmd \in Seq(Byte) /\ cmdMessage \in Seq(Byte)
  <2>1. Seq(Part) \subseteq Seq(Byte)
    <3>1. Part \subseteq Byte
      BY DEF Byte
    <3> QED
      BY <3>1, SeqMonotonic
  <2> QED
    BY <1>1, <2>1, Literals DEF Chat, Viewer
<1>4. /\ StandsAt(name, T, l + 2) /\ StandsAt(channel, T, B + 6) /\ StandsAt(cmd, T, c + 3)
      /\ StandsAt(cmdMessage, T, d + 1)
  BY <1>1, ChatStandsThere DEF ChatStands, TagsStand
<1>5. /\ nameStart(t).at = l + 3 - z /\ nameStop(t).at = e + 1 - z
      /\ channelStart(t).at = B + 7 - z /\ channelStop(t).at = c + 1 - z /\ chatStart(t) = c + 3 - z
      /\ (d + 1 <= m + z => cmdStop(t) = d + 1 - z) /\ (d + 1 > m + z => cmdStop(t) = m + 1)
  BY NameIsFound, CommandIsFound
<1> HIDE DEF T, l, e, B, c, d, m, name, channel, cmd, cmdMessage
<1>9. nameIn(t) = name
  <2> DEFINE n == Len(name)
             from == l + 3 - z
             to == nameStop(t).at - 1
  <2>1. /\ n \in 0..Len(name) /\ from \in Nat \ {0} /\ from + z = (l + 2) + 1 /\ from + n - 1 <= m /\ l + 2 \in Nat
        /\ (e + 1 - z) - 1 = from + n - 1
    BY <1>1, <1>2, SMTT(30)
  <2>5. nameStart(t).at = from /\ to = from + n - 1 /\ to <= m
    BY <1>5, <2>1
  <2> HIDE DEF from, to
  <2>3. Span(t, from, to) = Span(name, 1, n)
    <3> DEFINE o == l + 2
    <3>1. o \in Nat /\ from + z = o + 1 /\ StandsAt(name, T, o)
      BY <1>4, <2>1
    <3> HIDE DEF o
    <3>2. Piece(name, T, o, t, z, from, to, n)
      BY <1>1, <1>3, <3>1, <2>1, <2>5 DEF Piece, m
    <3> QED
      BY <3>2, PieceIs
  <2>4. SubSeq(name, 1, n) = name
    BY <1>3, <2>1, BeginningIs
  <2> HIDE DEF n
  <2> QED
    BY <2>3, <2>4, <2>5 DEF to, Span, nameIn
<1>10. channelIn(t) = channel
  <2> DEFINE n == Len(channel)
             from == B + 7 - z
             to == channelStop(t).at - 1
  <2>1. /\ n \in 0..Len(channel) /\ from \in Nat \ {0} /\ from + z = (B + 6) + 1 /\ from + n - 1 <= m /\ B + 6 \in Nat
        /\ (c + 1 - z) - 1 = from + n - 1
    BY <1>1, <1>2, SMTT(30)
  <2>5. channelStart(t).at = from /\ to = from + n - 1 /\ to <= m
    BY <1>5, <2>1
  <2> HIDE DEF from, to
  <2>3. Span(t, from, to) = Span(channel, 1, n)
    <3> DEFINE o == B + 6
    <3>1. o \in Nat /\ from + z = o + 1 /\ StandsAt(channel, T, o)
      BY <1>4, <2>1
    <3> HIDE DEF o
    <3>2. Piece(channel, T, o, t, z, from, to, n)
      BY <1>1, <1>3, <3>1, <2>1, <2>5 DEF Piece, m
    <3> QED
      BY <3>2, PieceIs
  <2>4. SubSeq(channel, 1, n) = channel
    BY <1>3, <2>1, BeginningIs
  <2> HIDE DEF n
  <2> QED
    BY <2>3, <2>4, <2>5 DEF to, Span, channelIn
<1>11. \E n \in 0..Len(cmd) : cmdIn(t) = SubSeq(cmd, 1, n) /\ (m + z = Len(T) => n = Len(cmd))
  <2> DEFINE stop == cmdStop(t)
             n == (stop - 1) - (c + 3 - z)
             from == c + 4 - z
             to == stop - 1
  <2>0. (d + 1 <= m + z => stop = d + 1 - z) /\ (d + 1 > m + z => stop = m + 1)
    BY <1>5
  <2> HIDE DEF stop
  <2>1. stop \in Int /\ c + 4 - z <= stop /\ stop <= m + 1 /\ stop + z <= d + 1
    BY <1>1, <2>0
  <2>2. m + z = Len(T) => stop + z = d + 1
    BY <1>1, <2>0
  <2>9. /\ c \in Nat /\ d \in Nat /\ m \in Nat /\ z \in Int /\ Len(cmd) \in Nat /\ d = c + 3 + Len(cmd)
        /\ z + 10 <= c
    BY <1>1, <1>2
  <2>3. /\ n \in 0..Len(cmd) /\ from \in Nat \ {0} /\ from + z = (c + 3) + 1 /\ from + n - 1 <= m
        /\ c + 3 \in Nat /\ to = from + n - 1 /\ (c + 3 - z) + 1 = from
    BY <2>1, <2>9
  <2>4. m + z = Len(T) => n = Len(cmd)
    BY <2>1, <2>2, <2>9
  <2> HIDE DEF n, from, to
  <2>6. Span(t, from, to) = Span(cmd, 1, n)
    <3> DEFINE o == c + 3
    <3>1. o \in Nat /\ from + z = o + 1 /\ StandsAt(cmd, T, o)
      BY <1>4, <2>3
    <3> HIDE DEF o
    <3>2. Piece(cmd, T, o, t, z, from, to, n)
      BY <1>1, <1>3, <3>1, <2>3 DEF Piece, m
    <3> QED
      BY <3>2, PieceIs
  <2>7. cmdIn(t) = SubSeq(cmd, 1, n)
    BY <1>5, <2>3, <2>6 DEF stop, to, Span, cmdIn
  <2> QED
    BY <2>3, <2>4, <2>7
<1>12. \E n \in 0..Len(cmdMessage) :
          textIn(t) = SubSeq(cmdMessage, 1, n) /\ (m + z = Len(T) => n = Len(cmdMessage))
  <2>1. CASE d + 1 <= m + z
    <3> DEFINE n == m - (d + 1 - z)
               from == d + 2 - z
               to == m
    <3>1. /\ n \in 0..Len(cmdMessage) /\ from \in Nat \ {0} /\ from + z = (d + 1) + 1 /\ from + n - 1 <= m
          /\ d + 1 \in Nat /\ to = from + n - 1 /\ (d + 1 - z) + 1 = from
      BY <1>1, <1>2, <2>1, SMTT(30)
    <3>2. m + z = Len(T) => n = Len(cmdMessage)
      BY <1>1, <1>2
    <3> HIDE DEF n, from, to
    <3>4. Span(t, from, to) = Span(cmdMessage, 1, n)
      <4> DEFINE o == d + 1
      <4>1. o \in Nat /\ from + z = o + 1 /\ StandsAt(cmdMessage, T, o)
        BY <1>4, <3>1
      <4> HIDE DEF o
      <4>2. Piece(cmdMessage, T, o, t, z, from, to, n)
        BY <1>1, <1>3, <4>1, <3>1 DEF Piece, m
      <4> QED
        BY <4>2, PieceIs
    <3>5. textIn(t) = SubSeq(cmdMessage, 1, n)
      <4>1. cmdStop(t) + 1 = from
        BY <1>5, <2>1, <3>1
      <4> QED
        BY <3>4, <4>1 DEF m, to, Span, textIn
    <3> QED
      BY <3>1, <3>2, <3>5
  <2>2. CASE d + 1 > m + z
    <3>1. (m + 1) + 1 \in Int /\ m \in Int /\ m < (m + 1) + 1 /\ 0 \in 0..Len(cmdMessage)
          /\ 0 < 1 /\ ~(m + z = Len(T))
      BY <1>1, <1>2, <2>2
    <3>2. SubSeq(t, (m + 1) + 1, m) = <<>>
      BY <3>1, SubSeqEmpty
    <3>3. SubSeq(cmdMessage, 1, 0) = <<>>
      BY <3>1, SubSeqEmpty
    <3>4. textIn(t) = SubSeq(cmdMessage, 1, 0)
      BY <1>5, <2>2, <3>2, <3>3 DEF m, textIn
    <3> QED
      BY <3>1, <3>4
  <2> QED
    BY <1>1, <2>1, <2>2
<1> QED
  BY <1>9, <1>10, <1>11, <1>12 DEF T, m, name, channel, cmd, cmdMessage

-----------------------------------------------------------------------------
(* What append_u64 writes parse_u64 reads.                                    *)

valueOf(c) == CHOOSE d \in 0..9 : Digits[d + 1] = c

LEMMA DigitHasValue == \A i \in 0..9 : Digits[i + 1] \in Digit /\ valueOf(Digits[i + 1]) = i
<1>1. \A i, j \in 1..10 : Digits[i] = Digits[j] => i = j
  BY DEF Digits
<1>2. ASSUME NEW i \in 0..9 PROVE Digits[i + 1] \in Digit /\ valueOf(Digits[i + 1]) = i
  <2>1. i + 1 \in 1..10
    OBVIOUS
  <2>2. \A j \in 0..9 : Digits[j + 1] = Digits[i + 1] => j = i
    <3> SUFFICES ASSUME NEW j \in 0..9, Digits[j + 1] = Digits[i + 1] PROVE j = i
      OBVIOUS
    <3>1. j + 1 \in 1..10
      OBVIOUS
    <3>2. j + 1 = i + 1
      BY <1>1, <2>1, <3>1
    <3> QED
      BY <3>2
  <2> DEFINE c == Digits[i + 1]
  <2>3. c \in Digit
    BY <2>1 DEF Digit
  <2>4. Digits[i + 1] = c /\ \A j \in 0..9 : Digits[j + 1] = c => j = i
    BY <2>2
  <2> HIDE DEF c
  <2>5. valueOf(c) = i
    BY <2>4 DEF valueOf
  <2> QED
    BY <2>3, <2>5 DEF c
<1> QED
  BY <1>2

(* r[k] is what the first k digits of n amount to.                            *)
Reads(r, digits) ==
    /\ r[0] = 0
    /\ \A k \in 1..Len(digits) : r[k] = 10 * r[k - 1] + valueOf(digits[Len(digits) + 1 - k])

LEMMA DigitsAreRead ==
    ASSUME NEW u \in Nat, NEW r, Reads(r, digitsUpTo(u)[u])
    PROVE  r[Len(digitsUpTo(u)[u])] = u
<1> DEFINE d == digitsUpTo(u)
           Right(n) == Reads(r, d[n]) => r[Len(d[n])] = n
           G == {n \in 0..u : \A m \in 0..n : Right(m)}
<1>1. /\ \A n \in 0..u : d[n] \in Seq(Digit)
      /\ \A n \in 0..u : d[n] = <<Digits[(n % 10) + 1]>> \o (IF n < 10 THEN <<>> ELSE d[n \div 10])
  BY DigitsAre
<1> HIDE DEF d
<1>2. ASSUME NEW n \in 0..u, n < 10 PROVE Right(n)
  <2>1. n % 10 = n /\ n \in 0..9
    BY <1>2
  <2>2. d[n] = <<Digits[n + 1]>>
    <3>1. <<Digits[n + 1]>> \in Seq(Digit)
      BY <2>1, DigitHasValue
    <3>2. d[n] = <<Digits[n + 1]>> \o <<>>
      BY <1>1, <1>2, <2>1
    <3> QED
      BY <3>1, <3>2, ConcatEmptySeq
  <2>3. Len(d[n]) = 1 /\ d[n][1] = Digits[n + 1]
    BY <2>2
  <2> SUFFICES ASSUME Reads(r, d[n]) PROVE r[1] = n
    BY <2>3
  <2>4. 1 \in 1..1 /\ 1 + 1 - 1 = 1 /\ 1 - 1 = 0
    OBVIOUS
  <2>5. r[0] = 0 /\ r[1] = 10 * r[0] + valueOf(d[n][1])
    BY <2>3, <2>4 DEF Reads
  <2>6. valueOf(d[n][1]) = n
    BY <2>1, <2>3, DigitHasValue
  <2> QED
    BY <2>5, <2>6
<1>3. ASSUME NEW n \in 0..u, n >= 10, n \div 10 \in 0..u, Right(n \div 10) PROVE Right(n)
  <2> DEFINE q == n \div 10
             i == n % 10
             L == Len(d[q])
  <2>1. i \in 0..9 /\ q \in 0..u /\ n = 10 * q + i
    BY <1>3, SMTT(30)
  <2>2. d[q] \in Seq(Digit) /\ <<Digits[i + 1]>> \in Seq(Digit) /\ d[n] = <<Digits[i + 1]>> \o d[q]
    <3>1. d[q] \in Seq(Digit)
      BY <1>1, <2>1
    <3>2. <<Digits[i + 1]>> \in Seq(Digit)
      BY <2>1, DigitHasValue
    <3>3. d[n] = <<Digits[i + 1]>> \o (IF n < 10 THEN <<>> ELSE d[q])
      BY <1>1
    <3>4. ~(n < 10)
      BY <1>3
    <3> QED
      BY <3>1, <3>2, <3>3, <3>4
  <2>3. Right(q)
    BY <1>3
  <2> HIDE DEF q, i
  <2>4. /\ L \in Nat /\ Len(d[n]) = L + 1 /\ d[n][1] = Digits[i + 1]
        /\ \A k \in 2..(L + 1) : d[n][k] = d[q][k - 1]
    <3> DEFINE a == <<Digits[i + 1]>>
    <3>1. Len(a) = 1 /\ a[1] = Digits[i + 1] /\ a \in Seq(Digit) /\ d[n] = a \o d[q]
      BY <2>2
    <3> HIDE DEF a
    <3>2. /\ L \in Nat /\ Len(a \o d[q]) = 1 + L
          /\ \A k \in 1..(1 + L) : (a \o d[q])[k] = IF k <= 1 THEN a[k] ELSE d[q][k - 1]
      BY <2>2, <3>1, ConcatProperties, LenProperties
    <3> HIDE DEF L
    <3>3. \A k \in 1..(1 + L) : d[n][k] = IF k <= 1 THEN a[k] ELSE d[q][k - 1]
      BY <3>1, <3>2
    <3>4. Len(d[n]) = L + 1
      BY <3>1, <3>2
    <3>5. d[n][1] = Digits[i + 1]
      <4>1. 1 \in 1..(1 + L)
        BY <3>2
      <4>2. d[n][1] = a[1]
        BY <3>3, <4>1
      <4> QED
        BY <3>1, <4>2
    <3>6. \A k \in 2..(L + 1) : d[n][k] = d[q][k - 1]
      <4> SUFFICES ASSUME NEW k \in 2..(L + 1) PROVE d[n][k] = d[q][k - 1]
        OBVIOUS
      <4>1. k \in 1..(1 + L) /\ ~(k <= 1)
        BY <3>2
      <4> QED
        BY <3>3, <4>1
    <3> QED
      BY <3>2, <3>4, <3>5, <3>6
  <2> SUFFICES ASSUME Reads(r, d[n]) PROVE r[L + 1] = n
    BY <2>4
  <2>5. r[0] = 0 /\ \A k \in 1..(L + 1) : r[k] = 10 * r[k - 1] + valueOf(d[n][(L + 1) + 1 - k])
    BY <2>4 DEF Reads
  <2> HIDE DEF L
  <2>6. Reads(r, d[q])
    <3> SUFFICES ASSUME NEW k \in 1..L PROVE r[k] = 10 * r[k - 1] + valueOf(d[q][L + 1 - k])
      BY <2>5 DEF Reads, L
    <3>1. k \in 1..(L + 1) /\ (L + 1) + 1 - k \in 2..(L + 1) /\ ((L + 1) + 1 - k) - 1 = L + 1 - k
      BY <2>4
    <3>2. d[n][(L + 1) + 1 - k] = d[q][L + 1 - k]
      BY <2>4, <3>1
    <3> QED
      BY <2>5, <3>1, <3>2
  <2>7. r[L] = q
    BY <2>3, <2>6 DEF L
  <2>8. r[L + 1] = 10 * r[L] + valueOf(d[n][1])
    <3>1. L + 1 \in 1..(L + 1) /\ (L + 1) - 1 = L /\ (L + 1) + 1 - (L + 1) = 1
      BY <2>4
    <3> QED
      BY <2>5, <3>1
  <2>9. valueOf(d[n][1]) = i
    BY <2>1, <2>4, DigitHasValue
  <2> QED
    BY <2>1, <2>7, <2>8, <2>9
<1> HIDE DEF Right
<1>4. 0 \in G
  <2>1. \A m \in 0..0 : m = 0
    OBVIOUS
  <2> QED
    BY <1>2, <2>1
<1>5. ASSUME NEW n \in 1..u, n - 1 \in G PROVE n \in G
  <2>1. \A m \in 0..n : m \in 0..(n - 1) \/ m = n
    OBVIOUS
  <2>2. Right(n)
    <3>1. CASE n < 10
      BY <1>2, <3>1
    <3>2. CASE n >= 10
      <4>1. n \div 10 \in 0..(n - 1) /\ n \div 10 \in 0..u
        BY <3>2
      <4>2. Right(n \div 10)
        BY <1>5, <4>1
      <4> QED
        BY <1>3, <3>2, <4>1, <4>2
    <3> QED
      BY <3>1, <3>2
  <2> QED
    BY <1>5, <2>1, <2>2
<1>6. u \in G
  <2> HIDE DEF G
  <2>1. \A n \in 1..u : n - 1 \in G => n \in G
    BY <1>5
  <2>2. 0..u \subseteq G
    BY <1>4, <2>1, Induction
  <2> QED
    BY <2>2
<1>7. Right(u)
  BY <1>6
<1> QED
  BY <1>7 DEF Right, d

readUpTo(t, start, end) ==
    CHOOSE r : r = [i \in (start - 1)..end |->
                       IF i < start THEN 0
                       ELSE 10 * r[i - 1] + (CHOOSE d \in 0..9 : Digits[d + 1] = t[i])]

LEMMA ReadUpToIs ==
    ASSUME NEW t, NEW start \in Nat, NEW N \in Nat
    PROVE  LET r == readUpTo(t, start, start + N - 1) IN
           /\ r[start - 1] = 0
           /\ \A i \in start..(start + N - 1) : r[i] = 10 * r[i - 1] + valueOf(t[i])
<1> DEFINE a == start - 1
           body(f, i) == IF i < start THEN 0 ELSE 10 * f[i - 1] + valueOf(t[i])
           begun(f, k) == \A i \in a..(a + k) : f[i] = body(f, i)
           G == {k \in 0..N : \E f : begun(f, k)}
<1>1. 0 \in G
  <2> DEFINE f == [i \in a..(a + 0) |-> 0]
  <2>1. \A i \in a..(a + 0) : f[i] = 0 /\ i < start
    OBVIOUS
  <2>2. begun(f, 0)
    BY <2>1
  <2> HIDE DEF begun
  <2> QED
    BY <2>2
<1>2. ASSUME NEW k \in 1..N, k - 1 \in G PROVE k \in G
  <2>1. PICK f : begun(f, k - 1)
    BY <1>2
  <2> DEFINE g == [i \in a..(a + k) |-> IF i = a + k THEN body(f, i) ELSE f[i]]
  <2>2. ASSUME NEW i \in a..(a + k) PROVE g[i] = body(g, i)
    <3>1. i \in Int /\ a \in Int /\ k \in Nat /\ (i < start <=> i = a)
      OBVIOUS
    <3>2. g[i] = IF i = a + k THEN body(f, i) ELSE f[i]
      OBVIOUS
    <3>3. g[i] = body(f, i)
      <4>1. CASE i = a + k
        BY <3>2, <4>1
      <4>2. CASE i # a + k
        <5>1. i \in a..(a + (k - 1))
          BY <3>1, <4>2
        <5>2. f[i] = body(f, i)
          BY <2>1, <5>1
        <5> QED
          BY <3>2, <4>2, <5>2
      <4> QED
        BY <4>1, <4>2
    <3>4. CASE i = a
      BY <3>1, <3>3, <3>4
    <3>5. CASE i # a
      <4>1. i - 1 \in a..(a + k) /\ i - 1 # a + k
        BY <3>1, <3>5
      <4>2. g[i - 1] = f[i - 1]
        BY <4>1
      <4>3. ~(i < start)
        BY <3>1, <3>5
      <4> HIDE DEF g
      <4> QED
        BY <3>3, <4>2, <4>3
    <3> QED
      BY <3>4, <3>5
  <2> HIDE DEF g, body
  <2>3. begun(g, k)
    BY <2>2
  <2> HIDE DEF begun
  <2> QED
    BY <2>3
<1>3. PICK u : begun(u, N)
  <2> HIDE DEF G, begun
  <2>1. \A k \in 1..N : k - 1 \in G => k \in G
    BY <1>2
  <2>2. 0..N \subseteq G
    BY <1>1, <2>1, Induction
  <2>3. N \in G
    BY <2>2
  <2> QED
    BY <2>3 DEF G
<1> DEFINE b == start + N - 1
           F == [i \in a..b |-> u[i]]
           r == CHOOSE x : x = [i \in a..b |-> body(x, i)]
<1>4. b = a + N /\ a \in Int /\ b \in Int
  OBVIOUS
<1>5. F = [i \in a..b |-> body(F, i)]
  <2>1. ASSUME NEW i \in a..b PROVE u[i] = body(F, i)
    <3>1. u[i] = body(u, i)
      BY <1>3, <1>4
    <3>2. CASE i < start
      BY <3>1, <3>2
    <3>3. CASE ~(i < start)
      <4>1. i - 1 \in a..b
        BY <3>3
      <4>2. F[i - 1] = u[i - 1]
        BY <4>1
      <4> HIDE DEF F
      <4> QED
        BY <3>1, <3>3, <4>2
    <3> QED
      BY <3>2, <3>3
  <2> HIDE DEF body
  <2> QED
    BY <2>1
<1>6. r = [i \in a..b |-> body(r, i)]
  <2> HIDE DEF F, body
  <2> QED
    BY <1>5
<1>7. readUpTo(t, start, start + N - 1) = r
  BY DEF readUpTo, valueOf
<1> HIDE DEF r
<1>8. ASSUME NEW i \in a..b PROVE r[i] = body(r, i)
  <2> HIDE DEF body
  <2> QED
    BY <1>6
<1>9. r[a] = 0
  <2>1. a \in a..b /\ a < start
    OBVIOUS
  <2> QED
    BY <1>8, <2>1
<1>10. ASSUME NEW i \in start..b PROVE r[i] = 10 * r[i - 1] + valueOf(t[i])
  <2>1. i \in a..b /\ ~(i < start)
    OBVIOUS
  <2> QED
    BY <1>8, <2>1
<1> QED
  BY <1>7, <1>9, <1>10

LEMMA NumberEnds ==
    ASSUME NEW text \in Seq(Byte), NEW start \in Nat \ {0}
    PROVE  /\ IsFirst(first(text, start, LAMBDA i : ~isNumber(text[i])), text, start, Kind(text, Byte \ Digit))
           /\ parse_u64(text, start) =
                 LET end == first(text, start, LAMBDA i : ~isNumber(text[i])) - 1
                 IN  readUpTo(text, start, end)[end]
<1>1. Len(text) \in Nat /\ \A i \in 1..Len(text) : text[i] \in Byte
  BY TextLength
<1>2. \A c : isNumber(c) <=> c \in Digit
  <2>1. DOMAIN Digits = 1..10
    BY DEF Digits
  <2> QED
    BY <2>1 DEF isNumber, Digit
<1>3. {i \in start..Len(text) : ~isNumber(text[i])}
         = {i \in start..Len(text) : i \in Kind(text, Byte \ Digit)}
  BY <1>1, <1>2 DEF Kind
<1>4. IsFirst(first(text, start, LAMBDA i : ~isNumber(text[i])), text, start, Kind(text, Byte \ Digit))
  BY <1>3, FirstIs DEF first
<1>5. parse_u64(text, start) =
         LET end == first(text, start, LAMBDA i : ~isNumber(text[i])) - 1
         IN  readUpTo(text, start, end)[end]
  BY DEF parse_u64, readUpTo
<1> QED
  BY <1>4, <1>5

(* The number that digits from position start on and a space behind them      *)
(* stand for.                                                                 *)
LEMMA NumberIsRead ==
    ASSUME NEW u \in Nat, NEW T, NEW o \in Nat, NEW t, NEW z, NEW start \in Nat \ {0},
           Slice(t, T, z), StandsAt(append_u64(u), T, o), start + z = o + 1,
           T[o + Len(append_u64(u)) + 1] = Space, o + Len(append_u64(u)) + 1 <= Len(t) + z
    PROVE  parse_u64(t, start) = u
<1> DEFINE digits == append_u64(u)
           N == Len(digits)
           d == digitsUpTo(u)[u]
<1>1. d \in Seq(Digit) /\ digits = [k \in 1..Len(d) |-> d[Len(d) + 1 - k]] /\ digits \in Seq(Digit)
  <2>1. /\ digitsUpTo(u) \in [0..u -> Seq(Digit)]
        /\ digits = [k \in 1..Len(d) |-> d[Len(d) + 1 - k]]
    BY DigitsAre
  <2>2. u \in 0..u
    OBVIOUS
  <2>3. d \in Seq(Digit)
    BY <2>1, <2>2
  <2>4. digits \in Seq(Digit)
    BY NumberIs
  <2> QED
    BY <2>1, <2>3, <2>4
<1>2. Len(d) \in Nat /\ N = Len(d) /\ N \in Nat
  <2>1. Len(d) \in Nat /\ N \in Nat /\ DOMAIN digits = 1..N
    BY <1>1, LenProperties
  <2>2. DOMAIN digits = 1..Len(d)
    BY <1>1
  <2> HIDE DEF N, d, digits
  <2>3. 1..N = 1..Len(d)
    BY <2>1, <2>2
  <2> QED
    BY <2>1, <2>3
<1>3. t \in Seq(Byte) /\ Len(t) \in Nat /\ z \in Int /\ z >= -1
  BY TextLength DEF Slice
<1> DEFINE p == o + N + 1
           f == first(t, start, LAMBDA i : ~isNumber(t[i]))
           others == Byte \ Digit
<1>4. ASSUME NEW k \in 1..N
      PROVE  /\ T[o + k] = digits[k] /\ digits[k] \in Digit /\ digits[k] = d[N + 1 - k]
             /\ t[start + k - 1] = digits[k]
  <2>1. T[o + k] = digits[k]
    BY DEF StandsAt
  <2>2. digits[k] \in Digit
    BY <1>1, ElementOfSeq
  <2>3. digits[k] = d[N + 1 - k]
    <3> HIDE DEF d, N
    <3>1. [j \in 1..Len(d) |-> d[Len(d) + 1 - j]][k] = d[Len(d) + 1 - k]
      BY <1>2
    <3> QED
      BY <1>1, <1>2, <3>1
  <2>4. start + k - 1 \in 1..Len(t) /\ (start + k - 1) + z = o + k /\ o + k # 0
    <3> HIDE DEF N
    <3>1. o + N + 1 <= Len(t) + z
      BY DEF N
    <3> QED
      BY <1>2, <1>3, <3>1
  <2>5. t[start + k - 1] = T[o + k]
    <3> DEFINE i == start + k - 1
    <3>1. i \in 1..Len(t) /\ i + z = o + k /\ i + z # 0
      BY <2>4
    <3> HIDE DEF i
    <3>2. t[i] = T[i + z]
      BY <3>1 DEF Slice
    <3> QED
      BY <3>1, <3>2 DEF i
  <2> QED
    BY <2>1, <2>2, <2>3, <2>5
<1>5. KindAt(t, T, z, start, others, p)
  <2>1. p \in Nat \ {0} /\ start + z = o + 1 /\ start + z >= 1 /\ start + z <= p
    BY <1>2
  <2>2. T[p] \in others
    <3>1. Space \in Byte /\ Space \notin Digit
      BY WordsAre, KindsApart
    <3> QED
      BY <3>1
  <2>3. ASSUME NEW q \in Nat \ {0}, start + z <= q, q < p PROVE T[q] \notin others
    <3> DEFINE k == q - o
    <3>1. k \in 1..N /\ o + k = q
      <4> HIDE DEF N
      <4> QED
        BY <1>2, <2>3
    <3>2. T[o + k] \in Digit
      <4> HIDE DEF k
      <4> QED
        BY <1>4, <3>1
    <3> QED
      BY <3>1, <3>2
  <2>4. p <= Len(t) + z
    OBVIOUS
  <2> HIDE DEF p, others
  <2> QED
    BY <2>1, <2>2, <2>3, <2>4 DEF KindAt
<1>6. f = p - z
  <2>1. IsFirst(f, t, start, Kind(t, others))
    BY <1>3, NumberEnds
  <2> HIDE DEF f, p, others
  <2> QED
    BY <1>5, <2>1, KindFound
<1>7. parse_u64(t, start) = readUpTo(t, start, f - 1)[f - 1]
  BY <1>3, NumberEnds
<1> HIDE DEF f
<1>8. f - 1 = start + N - 1
  <2> HIDE DEF N
  <2> QED
    BY <1>2, <1>3, <1>6
<1> DEFINE ret == readUpTo(t, start, start + N - 1)
           r == [k \in 0..N |-> ret[start - 1 + k]]
<1>9. ret[start - 1] = 0 /\ \A i \in start..(start + N - 1) : ret[i] = 10 * ret[i - 1] + valueOf(t[i])
  <2> HIDE DEF N
  <2> QED
    BY <1>2, ReadUpToIs
<1> HIDE DEF ret
<1>10. Reads(r, d)
  <2>1. r[0] = 0
    <3>1. 0 \in 0..N /\ start - 1 + 0 = start - 1
      BY <1>2
    <3> QED
      BY <1>9, <3>1
  <2>2. ASSUME NEW k \in 1..Len(d) PROVE r[k] = 10 * r[k - 1] + valueOf(d[Len(d) + 1 - k])
    <3> HIDE DEF d
    <3>1. /\ k \in 1..N /\ k \in 0..N /\ k - 1 \in 0..N /\ start + k - 1 \in start..(start + N - 1)
          /\ start - 1 + k = start + k - 1 /\ start - 1 + (k - 1) = (start + k - 1) - 1
      <4> HIDE DEF N
      <4> QED
        BY <1>2, <2>2
    <3>2. r[k] = ret[start + k - 1] /\ r[k - 1] = ret[(start + k - 1) - 1]
      BY <3>1
    <3> HIDE DEF r
    <3>3. ret[start + k - 1] = 10 * ret[(start + k - 1) - 1] + valueOf(t[start + k - 1])
      BY <1>9, <3>1
    <3>4. t[start + k - 1] = d[Len(d) + 1 - k]
      BY <1>2, <1>4, <3>1
    <3> QED
      BY <3>2, <3>3, <3>4
  <2> HIDE DEF r, d
  <2> QED
    BY <2>1, <2>2 DEF Reads
<1>11. r[N] = u
  <2>1. r[Len(d)] = u
    <3> HIDE DEF r
    <3> QED
      BY <1>10, DigitsAreRead
  <2> HIDE DEF r, d, N
  <2> QED
    BY <1>2, <2>1
<1>12. r[N] = ret[start + N - 1]
  <2>1. N \in 0..N /\ start - 1 + N = start + N - 1
    BY <1>2
  <2> QED
    BY <2>1
<1> HIDE DEF r, N
<1> QED
  BY <1>7, <1>8, <1>11, <1>12 DEF ret

LEMMA IdIsHis ==
    ASSUME NEW said, NEW t, NEW z, Opened(said, t, z)
    PROVE  commandIn(t).user.id = said.author.id
<1> DEFINE T == textOf(said)
           e == toNameEnd(said.author)
           B == toText(said)
           u == said.author.id
           N == Len(append_u64(u))
           m == Len(t)
<1>1. /\ said \in Chat /\ Plain(said) /\ said.tagged /\ Slice(t, T, z) /\ m \in Nat /\ e \in Nat /\ B \in Nat
      /\ z \in Int /\ z + 3 <= e /\ e + 12 <= B /\ B + 10 <= m + z
  <2>1. /\ said \in Chat /\ Plain(said) /\ said.tagged /\ Slice(t, T, z) /\ m \in Nat
        /\ toLabel(said.author) \in Nat /\ e \in Nat /\ B \in Nat /\ toChannelEnd(said) \in Nat
        /\ z \in Int /\ z <= toLabel(said.author) /\ toLabel(said.author) + 3 <= e /\ e + 12 <= B
        /\ B + 7 <= toChannelEnd(said) /\ toChannelEnd(said) + 3 <= m + z
    BY OpenedIs
  <2> HIDE DEF m, e, B, T
  <2> QED
    BY <2>1
<1>2. N \in Nat /\ B = e + 12 + N /\ u \in Nat
  BY <1>1, PlacesAre DEF Viewer
<1>3. StandsAt(append_u64(u), T, e + 11) /\ T[B] = Space /\ T[e + 10] = "user-id"
  BY <1>1, ChatStandsThere DEF ChatStands, TagsStand, toText
<1> DEFINE start == e + 12 - z
           o == e + 11
<1>4. seek_next_string(t, 1, UserId).cursor = start
  <2>1. UserId \in Seq(Byte) /\ Len(UserId) = 2 /\ UserId[1] = T[e + 10] /\ UserId[2] = "="
    BY <1>3, WordsAre
  <2>2. seek_next_string(t, 1, UserId).cursor = (e + 10) + 2 - z
    BY <2>1, TagIsFound
  <2> HIDE DEF e
  <2>3. (e + 10) + 2 - z = start
    BY <1>1
  <2> QED
    BY <2>2, <2>3
<1>5. commandIn(t).user.id = parse_u64(t, start)
  BY <1>4 DEF commandIn, userId
<1>6. /\ start \in Nat \ {0} /\ o \in Nat /\ start + z = o + 1 /\ o + N + 1 = B /\ B <= m + z
  <2> HIDE DEF e, B, N, m
  <2> QED
    BY <1>1, <1>2
<1>7. StandsAt(append_u64(u), T, o) /\ T[o + Len(append_u64(u)) + 1] = Space /\ o + Len(append_u64(u)) + 1 <= Len(t) + z
  <2> HIDE DEF e, B, u, o
  <2> QED
    BY <1>3, <1>6 DEF o
<1> HIDE DEF T, start, o
<1>8. parse_u64(t, start) = u
  BY <1>1, <1>2, <1>6, <1>7, NumberIsRead
<1> QED
  BY <1>5, <1>8

(* The handler is known by the first byte of a word.                          *)
LEMMA HandlerIs ==
    ASSUME NEW said \in Chat, Plain(said), NEW n \in 0..Len(said.cmd)
    PROVE  LET cmd == SubSeq(said.cmd, 1, n) IN
           handlerOf(cmd) = IF cmd = <<>> THEN {1} ELSE handlerOf(said.cmd)
<1> DEFINE all == said.cmd
           cmd == SubSeq(all, 1, n)
<1>1. all \in Seq(Byte)
  <2>1. Part \subseteq Byte
    BY DEF Byte
  <2>2. Seq(Part) \subseteq Seq(Byte)
    BY <2>1, SeqMonotonic
  <2> QED
    BY <2>2, Literals DEF Chat
<1>2. DOMAIN HighpCommandList = 1..10 /\ \A i \in 1..10 : Len(HighpCommandList[i]) = 2
  BY DEF HighpCommandList
<1>3. /\ cmd \in Seq(Byte) /\ Len(cmd) = n /\ Len(all) \in Nat /\ n \in Nat /\ n <= Len(all)
      /\ \A k \in 1..n : cmd[k] = all[k]
  BY <1>1, BeginningIs, TextLength
<1>4. \A i \in 1..10 : all # <<>> /\ all[1] = HighpCommandList[i][1] => match(HighpCommandList[i], all)
  BY <1>2 DEF Plain
<1> HIDE DEF all, cmd
<1>5. ASSUME NEW i \in 1..10, NEW word \in Seq(Byte)
      PROVE  match(HighpCommandList[i], word) <=>
                \A k \in {1, 2} : k <= Len(word) => HighpCommandList[i][k] = word[k]
  <2>1. Len(word) \in Nat /\ Len(HighpCommandList[i]) = 2
    BY <1>2, TextLength
  <2>2. /\ Min({Len(HighpCommandList[i]), Len(word)}) \in {2, Len(word)}
        /\ Min({Len(HighpCommandList[i]), Len(word)}) <= 2
        /\ Min({Len(HighpCommandList[i]), Len(word)}) <= Len(word)
    BY <2>1, MinIs
  <2>3. \A k : k \in 1..Min({Len(HighpCommandList[i]), Len(word)}) <=> k \in {1, 2} /\ k <= Len(word)
    BY <2>1, <2>2
  <2> QED
    BY <2>3 DEF match
<1>6. CASE n = 0
  <2>1. cmd = <<>>
    <3>1. cmd \in Seq(Byte) /\ Len(cmd) = 0
      BY <1>3, <1>6
    <3> QED
      BY <3>1, EmptySeq
  <2>2. ASSUME NEW i \in 1..10 PROVE match(HighpCommandList[i], cmd)
    <3>1. cmd \in Seq(Byte) /\ \A k \in {1, 2} : ~(k <= Len(cmd))
      BY <1>3, <1>6
    <3> QED
      BY <1>5, <3>1
  <2>3. {i \in 1..10 : match(HighpCommandList[i], cmd)} = 1..10
    BY <2>2
  <2>4. handlerOf(cmd) = {i \in 1..10 : \A j \in 1..10 : i <= j}
    BY <1>2, <2>3 DEF handlerOf
  <2>5. {i \in 1..10 : \A j \in 1..10 : i <= j} = {1}
    OBVIOUS
  <2> QED
    BY <2>1, <2>4, <2>5 DEF all, cmd
<1>7. CASE n # 0
  <2>1. cmd # <<>> /\ all # <<>> /\ 1 \in 1..n /\ cmd[1] = all[1] /\ 1 <= Len(cmd)
    BY <1>1, <1>3, <1>7, EmptySeq
  <2>2. \A i \in 1..10 : match(HighpCommandList[i], cmd) <=> match(HighpCommandList[i], all)
    <3> SUFFICES ASSUME NEW i \in 1..10
                 PROVE  match(HighpCommandList[i], cmd) <=> match(HighpCommandList[i], all)
      OBVIOUS
    <3>1. ASSUME match(HighpCommandList[i], cmd) PROVE match(HighpCommandList[i], all)
      <4>1. HighpCommandList[i][1] = cmd[1]
        BY <1>3, <1>5, <2>1, <3>1
      <4> QED
        BY <1>4, <2>1, <4>1
    <3>2. ASSUME match(HighpCommandList[i], all) PROVE match(HighpCommandList[i], cmd)
      <4>1. \A k \in {1, 2} : k <= Len(all) => HighpCommandList[i][k] = all[k]
        BY <1>1, <1>5, <3>2
      <4>2. \A k \in {1, 2} : k <= Len(cmd) => k <= Len(all) /\ k \in 1..n
        BY <1>3
      <4>3. \A k \in {1, 2} : k <= Len(cmd) => HighpCommandList[i][k] = cmd[k]
        BY <1>3, <4>1, <4>2
      <4> QED
        BY <1>3, <1>5, <4>3
    <3> QED
      BY <3>1, <3>2
  <2>3. {i \in 1..10 : match(HighpCommandList[i], cmd)} = {i \in 1..10 : match(HighpCommandList[i], all)}
    BY <2>2
  <2>4. handlerOf(cmd) = handlerOf(all)
    BY <1>2, <2>3 DEF handlerOf
  <2> QED
    BY <2>1, <2>4 DEF all, cmd
<1> QED
  BY <1>6, <1>7

(* What a command says of its line.                                           *)
Authored(said, msg) ==
    /\ msg.user.id = said.author.id
    /\ msg.user.displayName = nameOf(said.author)
    /\ msg.user.roles \subseteq said.author.roles
    /\ msg.channel = channelOf(said)
    /\ isBeginning(msg.cmd, said.cmd) /\ isBeginning(msg.cmdMessage, said.cmdMessage)
    /\ handlerOf(msg.cmd) = IF msg.cmd = <<>> THEN {1} ELSE handlerOf(said.cmd)

LEMMA CommandIsHis ==
    ASSUME NEW said, NEW t, NEW z, Cut(said, t, z), IsCommand(t)
    PROVE  Authored(said, commandIn(t))
<1>1. Opened(said, t, z) /\ said \in Chat /\ Plain(said)
  BY CommandStands DEF Cut
<1>2. commandIn(t).user.id = said.author.id
  BY <1>1, IdIsHis
<1>3. commandIn(t).user.displayName = nameOf(said.author) /\ commandIn(t).channel = channelOf(said)
  BY <1>1, WordsAreHis DEF commandIn, nameOf, channelOf
<1>4. commandIn(t).user.roles \subseteq said.author.roles
  BY <1>1, RolesAreHis DEF commandIn
<1>5. said.cmd \in Seq(Byte) /\ said.cmdMessage \in Seq(Byte)
  <2>1. Part \subseteq Byte
    BY DEF Byte
  <2>2. Seq(Part) \subseteq Seq(Byte)
    BY <2>1, SeqMonotonic
  <2> QED
    BY <1>1, <2>2, Literals DEF Chat
<1>6. PICK n \in 0..Len(said.cmd) : commandIn(t).cmd = SubSeq(said.cmd, 1, n)
  <2> DEFINE max == TWITCH_CMD_BUFFER - 1
  <2>1. max \in Nat
    BY LineDispatchAssumption
  <2>2. commandIn(t).cmd = cutTo(cmdIn(t), max)
    BY DEF commandIn
  <2>3. PICK came \in 0..Len(said.cmd) : cmdIn(t) = SubSeq(said.cmd, 1, came)
    BY <1>1, WordsAreHis
  <2> HIDE DEF max
  <2>4. \E n \in 0..Len(said.cmd) : cutTo(SubSeq(said.cmd, 1, came), max) = SubSeq(said.cmd, 1, n)
    BY <1>5, <2>1, CutIs
  <2> QED
    BY <2>2, <2>3, <2>4
<1>7. PICK k \in 0..Len(said.cmdMessage) : commandIn(t).cmdMessage = SubSeq(said.cmdMessage, 1, k)
  <2> DEFINE max == TWITCH_MESSAGE_BUFFER - 1
  <2>1. max \in Nat
    BY LineDispatchAssumption
  <2>2. commandIn(t).cmdMessage = cutTo(textIn(t), max)
    BY DEF commandIn
  <2>3. PICK came \in 0..Len(said.cmdMessage) : textIn(t) = SubSeq(said.cmdMessage, 1, came)
    BY <1>1, WordsAreHis
  <2> HIDE DEF max
  <2>4. \E k \in 0..Len(said.cmdMessage) :
           cutTo(SubSeq(said.cmdMessage, 1, came), max) = SubSeq(said.cmdMessage, 1, k)
    BY <1>5, <2>1, CutIs
  <2> QED
    BY <2>2, <2>3, <2>4
<1>8. isBeginning(commandIn(t).cmd, said.cmd) /\ isBeginning(commandIn(t).cmdMessage, said.cmdMessage)
  BY <1>5, <1>6, <1>7, BeginningIs
<1>9. handlerOf(commandIn(t).cmd) = IF commandIn(t).cmd = <<>> THEN {1} ELSE handlerOf(said.cmd)
  BY <1>1, <1>6, HandlerIs
<1> QED
  BY <1>2, <1>3, <1>4, <1>8, <1>9 DEF Authored

-----------------------------------------------------------------------------
(* What a message is a piece of.                                              *)

LEMMA Covered ==
    ASSUME lines \in Conversations, NEW p \in 1..Len(server_sends)
    PROVE  \E n \in 1..Len(lines) : offset(n - 1) < p /\ p <= offset(n)
<1> DEFINE N == Len(lines)
           reached == {n \in 0..N : p <= offset(n)}
<1>1. /\ N \in Nat /\ offset(0) = 0 /\ \A n \in 0..N : offset(n) \in Nat
      /\ Len(server_sends) = offset(N)
  BY OffsetIs
<1>2. N \in reached /\ reached \in SUBSET Nat
  BY <1>1
<1>3. PICK n \in reached : \A m \in reached : n <= m
  BY <1>2, LeastExists
<1>4. n \in 0..N /\ p <= offset(n) /\ n # 0
  BY <1>1, <1>3
<1>5. n \in 1..N /\ n - 1 \in 0..N /\ ~(n <= n - 1)
  BY <1>1, <1>4
<1>6. offset(n - 1) < p
  <2>1. n - 1 \notin reached
    BY <1>3, <1>5
  <2>2. offset(n - 1) \in Nat
    BY <1>1, <1>5
  <2> QED
    BY <1>5, <2>1, <2>2
<1> QED
  BY <1>4, <1>5, <1>6

(* Where a line ends.                                                         *)
LEMMA ByteOfLine ==
    ASSUME lines \in Conversations, NEW n \in 1..Len(lines), NEW p \in Nat,
           offset(n - 1) < p, p <= offset(n)
    PROVE  /\ server_sends[p].line = n
           /\ server_sends[p].part = "CR" <=> p = offset(n) - 1
           /\ server_sends[p].part = "LF" <=> p = offset(n)
<1> DEFINE b == offset(n - 1)
           T == textOf(lines[n])
           L == Len(T)
<1>1. /\ L \in Nat /\ b \in Nat /\ offset(n) = b + L + 2
      /\ \A k \in 1..L : server_sends[b + k] = [line |-> n, part |-> T[k]] /\ T[k] \notin {"CR", "LF"}
      /\ server_sends[b + L + 1] = [line |-> n, part |-> "CR"]
      /\ server_sends[b + L + 2] = [line |-> n, part |-> "LF"]
  BY LineStands
<1>2. b < p /\ p <= b + L + 2
  BY <1>1
<1> HIDE DEF b, T, L
<1>3. CASE p <= b + L
  <2>1. p - b \in 1..L /\ b + (p - b) = p /\ p # offset(n) /\ p # offset(n) - 1
    BY <1>1, <1>2, <1>3
  <2>2. server_sends[b + (p - b)] = [line |-> n, part |-> T[p - b]] /\ T[p - b] \notin {"CR", "LF"}
    BY <1>1, <2>1
  <2> QED
    BY <2>1, <2>2
<1>4. CASE p = b + L + 1
  <2>1. p # offset(n) /\ p = offset(n) - 1
    BY <1>1, <1>4
  <2> QED
    BY <1>1, <1>4, <2>1
<1>5. CASE p = b + L + 2
  <2>1. p = offset(n) /\ p # offset(n) - 1
    BY <1>1, <1>5
  <2> QED
    BY <1>1, <1>5, <2>1
<1>6. p <= b + L \/ p = b + L + 1 \/ p = b + L + 2
  BY <1>1, <1>2
<1> QED
  BY <1>3, <1>4, <1>5, <1>6

(* Which line a byte is of.                                                   *)
LEMMA LineOfByte ==
    ASSUME lines \in Conversations, NEW p \in 1..Len(server_sends)
    PROVE  LET n == server_sends[p].line IN
           /\ n \in 1..Len(lines) /\ offset(n - 1) < p /\ p <= offset(n)
           /\ \A k \in 1..Len(lines) : (p <= offset(k - 1) => n < k) /\ (p > offset(k) => n > k)
<1>1. PICK n \in 1..Len(lines) : offset(n - 1) < p /\ p <= offset(n)
  BY Covered
<1>2. Len(lines) \in Nat /\ p \in Nat /\ \A k \in 0..Len(lines) : offset(k) \in Nat
  <2>1. Len(server_sends) \in Nat
    BY OffsetIs
  <2> QED
    BY <2>1, OffsetIs
<1>3. server_sends[p].line = n
  BY <1>1, <1>2, ByteOfLine
<1>4. ASSUME NEW k \in 1..Len(lines) PROVE (p <= offset(k - 1) => n < k) /\ (p > offset(k) => n > k)
  <2>0. k \in 0..Len(lines) /\ k - 1 \in 0..Len(lines) /\ n \in 0..Len(lines) /\ n - 1 \in 0..Len(lines)
    BY <1>2
  <2>1. ASSUME p <= offset(k - 1), ~(n < k) PROVE FALSE
    <3>1. k - 1 \in 0..(n - 1)
      BY <1>2, <2>1
    <3>2. offset(k - 1) <= offset(n - 1)
      BY <2>0, <3>1, OffsetsGrow
    <3> QED
      BY <1>1, <1>2, <2>0, <2>1, <3>2
  <2>2. ASSUME p > offset(k), ~(n > k) PROVE FALSE
    <3>1. n \in 0..k
      BY <1>2, <2>2
    <3>2. offset(n) <= offset(k)
      BY <2>0, <3>1, OffsetsGrow
    <3> QED
      BY <1>1, <1>2, <2>0, <2>2, <3>2
  <2> QED
    BY <2>1, <2>2
<1> QED
  BY <1>1, <1>3, <1>4

(* What of a line is read from a on up to e.                                  *)
LEMMA PieceOfLine ==
    ASSUME lines \in Conversations, NEW n \in 1..Len(lines),
           NEW a \in Nat \ {0}, NEW e \in Nat, a <= e + 1, offset(n - 1) <= a,
           e <= offset(n - 1) + Len(textOf(lines[n])),
           NEW t \in Seq(Byte), Len(t) = e + 1 - a,
           \A k \in 1..Len(t) : t[k] = server_sends[(a - 1) + k].part
    PROVE  Slice(t, textOf(lines[n]), (a - 1) - offset(n - 1))
<1> DEFINE b == offset(n - 1)
           T == textOf(lines[n])
           z == (a - 1) - b
           L == Len(T)
<1>1. /\ L \in Nat /\ b \in Nat
      /\ \A k \in 1..L : server_sends[b + k] = [line |-> n, part |-> T[k]]
      /\ n > 1 => server_sends[b] = [line |-> n - 1, part |-> "LF"]
  BY LineStands
<1>2. n = 1 => b = 0
  BY OffsetIs
<1>3. b <= a /\ e <= b + L /\ Len(t) = e + 1 - a
  OBVIOUS
<1> HIDE DEF b, T, L
<1>4. z \in Int /\ z >= -1 /\ Len(t) + z <= L
  BY <1>1, <1>3
<1>5. ASSUME NEW k \in 1..Len(t) PROVE t[k] = IF k + z = 0 THEN "LF" ELSE T[k + z]
  <2>1. t[k] = server_sends[(a - 1) + k].part
    OBVIOUS
  <2>2. CASE k + z = 0
    <3>1. (a - 1) + k = b /\ b # 0
      BY <1>1, <1>3, <2>2, SMTT(30)
    <3>2. n > 1
      BY <1>2, <3>1
    <3> QED
      BY <1>1, <2>1, <2>2, <3>1, <3>2
  <2>3. CASE k + z # 0
    <3>1. k + z \in 1..L /\ (a - 1) + k = b + (k + z)
      BY <1>1, <1>3, <1>4, <2>3
    <3>2. server_sends[b + (k + z)] = [line |-> n, part |-> T[k + z]]
      BY <1>1, <3>1
    <3> HIDE DEF z
    <3>3. server_sends[(a - 1) + k] = [line |-> n, part |-> T[k + z]]
      BY <3>1, <3>2
    <3> QED
      BY <2>1, <2>3, <3>3
  <2> QED
    BY <2>2, <2>3
<1> QED
  BY <1>1, <1>4, <1>5 DEF Slice, L, T, b

LEMMA BreakAt ==
    ASSUME NEW chunk \in Seq(Sent), NEW s \in Nat, broken(chunk, s)
    PROVE  LET e == lineEnd(chunk, s) IN
           /\ e \in lineBreaks(chunk) /\ e \in Nat /\ s <= e /\ e + 1 <= Len(chunk) /\ chunk[e].part = "CR"
           /\ \A i \in lineBreaks(chunk) : i >= s => e <= i
<1> DEFINE ends == {i \in lineBreaks(chunk) : i >= s}
           isEnd(i) == i >= s /\ \A j \in lineBreaks(chunk) : j >= s => i <= j
<1>0. Len(chunk) \in Nat
  BY LenProperties
<1>1. \A i \in lineBreaks(chunk) : i \in Nat /\ i + 1 <= Len(chunk) /\ chunk[i].part = "CR"
  BY <1>0 DEF lineBreaks
<1>2. ends \in SUBSET Nat /\ ends # {}
  BY <1>1 DEF broken
<1>3. PICK i \in ends : \A j \in ends : i <= j
  BY <1>2, LeastExists
<1>4. i \in lineBreaks(chunk) /\ isEnd(i)
  BY <1>3
<1>5. lineEnd(chunk, s) = CHOOSE j \in lineBreaks(chunk) : isEnd(j)
  BY DEF lineEnd
<1>6. lineEnd(chunk, s) \in lineBreaks(chunk) /\ isEnd(lineEnd(chunk, s))
  <2> HIDE DEF isEnd
  <2> QED
    BY <1>4, <1>5
<1> QED
  BY <1>1, <1>6

(* A byte that is the last of a chunk as well as the first of a message is    *)
(* read with what is left of it, which is too short for a PRIVMSG.            *)
LEMMA ShortIsNone ==
    ASSUME NEW t, Len(t) \in Nat, Len(t) <= 2
    PROVE  ~contains(t, PRIVMSG)
<1> DEFINE hits == {i \in 1..Len(t) : /\ i + Len(PRIVMSG) - 1 <= Len(t)
                                      /\ SubSeq(t, i, i + Len(PRIVMSG) - 1) = PRIVMSG}
<1>1. Len(PRIVMSG) = 3
  BY WordsAre
<1>2. hits = {}
  BY <1>1
<1>3. find(t, 1, PRIVMSG) = Min({behind(t)} \cup hits)
  BY DEF find, first
<1>4. Min({behind(t)}) = behind(t)
  BY DEF Min, behind
<1> QED
  <2>1. {behind(t)} \cup hits = {behind(t)}
    BY <1>2
  <2> QED
    BY <1>3, <1>4, <2>1 DEF contains

LEMMA PingIsNone ==
    ASSUME NEW t, NEW z, Slice(t, PING, z)
    PROVE  ~contains(t, PRIVMSG)
<1> DEFINE at == find(t, 1, PRIVMSG)
<1>1. t \in Seq(Byte) /\ Len(t) \in Nat
  BY TextLength DEF Slice
<1>2. IsFirst(at, t, 1, Where(t, PRIVMSG)) /\ Len(PRIVMSG) = 3 /\ PRIVMSG[2] = "RIVM"
  BY <1>1, FindIs, WordsAre
<1>3. ASSUME at # behind(t) PROVE FALSE
  <2>1. at \in Where(t, PRIVMSG) /\ at \in Nat
    <3>1. behind(t) \in Nat
      BY <1>1, TextLength
    <3> HIDE DEF at
    <3> QED
      BY <1>2, <1>3, <3>1 DEF IsFirst
  <2> DEFINE next == at + 1
  <2>2. next \in 1..Len(t) /\ t[next] = "RIVM"
    <3> HIDE DEF at
    <3>1. /\ at + 3 - 1 <= Len(t) /\ \A k \in 1..3 : t[at + k - 1] = PRIVMSG[k]
      BY <1>2, <2>1 DEF Where
    <3>2. at + 2 - 1 = at + 1 /\ at + 1 \in 1..Len(t)
      BY <1>1, <2>1, <3>1
    <3> QED
      BY <1>2, <3>1, <3>2
  <2> HIDE DEF next
  <2>3. next + z \in 1..Len(PING) /\ PING[next + z] = "RIVM"
    BY <2>2, SliceByte
  <2>4. Len(PING) = 3 /\ PING[1] = "P" /\ PING[2] = "I" /\ PING[3] = "NG"
    BY DEF PING
  <2>5. next + z \in {1, 2, 3}
    BY <2>3, <2>4
  <2> QED
    BY <2>3, <2>4, <2>5
<1> QED
  BY <1>3 DEF contains

LEMMA ByteAndStale ==
    ASSUME NEW x, NEW stale \in {<<>>, <<"stale">>}
    PROVE  Len(parts(<<x>>) \o stale) \in Nat /\ Len(parts(<<x>>) \o stale) <= 2
<1> DEFINE S == {x.part, "stale"}
           c == <<x>>
           one == [k \in 1..1 |-> c[k].part]
<1>1. Len(c) = 1 /\ c[1] = x
  OBVIOUS
<1>2. stale \in Seq(S) /\ Len(stale) \in {0, 1}
  <2>1. "stale" \in S
    OBVIOUS
  <2> HIDE DEF S
  <2>2. <<>> \in Seq(S) /\ <<"stale">> \in Seq(S)
    BY <2>1
  <2> QED
    BY <2>2
<1>3. c[1].part \in S
  BY <1>1
<1> HIDE DEF S, c
<1>4. one \in [1..1 -> S]
  <2>1. \A k \in 1..1 : k = 1
    OBVIOUS
  <2> QED
    BY <1>3, <2>1
<1>5. parts(c) = one
  BY <1>1 DEF parts
<1> HIDE DEF one
<1>6. one \in Seq(S) /\ Len(one) = 1
  BY <1>4, SeqOf
<1>7. Len(one \o stale) = Len(one) + Len(stale)
  BY <1>2, <1>6, ConcatProperties
<1> QED
  BY <1>2, <1>5, <1>6, <1>7 DEF c

(* Wherever the chunk ends, a message in which there is a command is a piece  *)
(* of the one line it is taken for, or of its text and the line feed before.  *)
LEMMA MessageIs ==
    ASSUME OnItsWay, NEW m \in 1..Len(wire), NEW s \in msgStarts(SubSeq(wire, 1, m)),
           NEW stale \in {<<>>, <<"stale">>},
           contains(textAt(SubSeq(wire, 1, m), s, stale), PRIVMSG)
    PROVE  LET n == lineOf(SubSeq(wire, 1, m), s) IN
           /\ n \in 1..Len(lines)
           /\ \E z \in Int : Slice(textAt(SubSeq(wire, 1, m), s, stale), textOf(lines[n]), z)
<1> DEFINE chunk == SubSeq(wire, 1, m)
           t == textAt(chunk, s, stale)
           whole == broken(chunk, s)
           e == IF whole THEN lineEnd(chunk, s) ELSE m
           p == taken + e
           end == IF whole THEN e - 1 ELSE m - 2
           d == taken + s
           f == taken + end
<1>1. chunk \in Seq(Sent) /\ Len(chunk) = m /\ \A i \in 1..m : chunk[i] = server_sends[taken + i]
  BY ChunkIs
<1>2. /\ lines \in Conversations /\ taken \in Nat /\ Len(wire) \in Nat /\ Len(server_sends) \in Nat
      /\ taken + m <= Len(server_sends)
  <2>1. Len(wire) \in Nat /\ Len(server_sends) \in Nat
    BY OffsetIs, LenProperties DEF OnItsWay
  <2> QED
    BY <2>1 DEF OnItsWay, taken
<1>3. s \in 1..m
  <2>1. \A i \in lineBreaks(chunk) : i \in 1..(m - 1)
    BY <1>1 DEF lineBreaks
  <2>2. s \in {1} \cup {i + 2 : i \in lineBreaks(chunk)} /\ s <= m
    BY <1>1 DEF msgStarts
  <2> QED
    BY <2>1, <2>2
<1>4. whole => /\ e \in lineBreaks(chunk) /\ e \in Nat /\ s <= e /\ e + 1 <= m /\ chunk[e].part = "CR"
               /\ \A i \in lineBreaks(chunk) : i >= s => e <= i
  <2> HIDE DEF chunk
  <2> QED
    BY <1>1, <1>3, BreakAt
<1>5. e \in 1..m /\ s <= e /\ lineOf(chunk, s) = server_sends[p].line /\ p \in 1..Len(server_sends)
  <2>1. e \in 1..m /\ s <= e
    BY <1>3, <1>4
  <2>2. lineOf(chunk, s) = chunk[e].line
    BY <1>1 DEF lineOf
  <2> HIDE DEF e, chunk
  <2> QED
    BY <1>1, <1>2, <2>1, <2>2
<1>6. PICK n \in 1..Len(lines) : offset(n - 1) < p /\ p <= offset(n)
  <2> HIDE DEF p
  <2> QED
    BY <1>2, <1>5, Covered
<1> DEFINE b == offset(n - 1)
           T == textOf(lines[n])
           L == Len(T)
<1>7. /\ L \in Nat /\ b \in Nat /\ offset(n) = b + L + 2
      /\ \A k \in 1..L : server_sends[b + k] = [line |-> n, part |-> T[k]] /\ T[k] \notin {"CR", "LF"}
      /\ server_sends[b + L + 1] = [line |-> n, part |-> "CR"]
      /\ server_sends[b + L + 2] = [line |-> n, part |-> "LF"]
      /\ n > 1 => /\ b >= 2
                  /\ server_sends[b - 1] = [line |-> n - 1, part |-> "CR"]
                  /\ server_sends[b] = [line |-> n - 1, part |-> "LF"]
  BY <1>2, LineStands
<1>8. n = 1 => b = 0
  BY <1>2, OffsetIs
<1>9. b < p /\ p <= b + L + 2 /\ p \in Nat
  BY <1>2, <1>5, <1>6, <1>7
<1> HIDE DEF b, T, L
<1>10. server_sends[p].line = n /\ (server_sends[p].part = "CR" => p = b + L + 1)
  <2> HIDE DEF p
  <2>1. server_sends[p].line = n /\ (server_sends[p].part = "CR" => p = offset(n) - 1)
    BY <1>2, <1>6, <1>9, ByteOfLine
  <2> QED
    BY <1>7, <2>1
<1>11. b <= d
  <2> SUFFICES ASSUME d < b PROVE FALSE
    BY <1>2, <1>3, <1>7
  <2> DEFINE i == (b - 1) - taken
  <2>1. n > 1 /\ b >= 2
    BY <1>2, <1>3, <1>7, <1>8
  <2>2. /\ i \in 1..(m - 1) /\ s <= i /\ i + 1 \in 1..m /\ i \in 1..m /\ i < e
        /\ taken + i = b - 1 /\ taken + (i + 1) = b
    <3> HIDE DEF e
    <3> QED
      BY <1>2, <1>3, <1>5, <1>7, <1>9, <2>1
  <2> HIDE DEF i
  <2>3. chunk[i].part = "CR" /\ chunk[i + 1].part = "LF"
    <3>1. chunk[i] = server_sends[taken + i] /\ chunk[i + 1] = server_sends[taken + (i + 1)]
      BY <1>1, <2>2
    <3>2. server_sends[b - 1].part = "CR" /\ server_sends[b].part = "LF"
      BY <1>7, <2>1
    <3> QED
      BY <2>2, <3>1, <3>2
  <2>4. i \in lineBreaks(chunk)
    BY <1>1, <2>2, <2>3 DEF lineBreaks
  <2>5. whole
    BY <2>2, <2>4 DEF broken
  <2>6. e <= i
    BY <1>4, <2>2, <2>4, <2>5
  <2> HIDE DEF e
  <2> QED
    BY <1>5, <2>2, <2>6
<1>12. whole \/ s < m
  <2> SUFFICES ASSUME ~whole, ~(s < m) PROVE FALSE
    OBVIOUS
  <2>1. s = m
    BY <1>3
  <2>2. t = parts(<<chunk[s]>>) \o stale
    BY <1>1, <2>1 DEF textAt
  <2>3. Len(t) \in Nat /\ Len(t) <= 2
    BY <2>2, ByteAndStale
  <2> QED
    BY <2>3, ShortIsNone
<1>13. t = parts(SubSeq(chunk, s, end)) /\ end \in Nat /\ s <= end + 1 /\ end <= m
  <2>1. CASE whole
    <3>1. end = lineEnd(chunk, s) - 1 /\ e = lineEnd(chunk, s)
      BY <2>1
    <3>2. t = parts(SubSeq(chunk, s, end))
      BY <2>1, <3>1 DEF textAt
    <3> QED
      BY <1>3, <1>4, <1>5, <2>1, <3>1, <3>2
  <2>2. CASE ~whole
    <3>1. t = parts(SubSeq(chunk, s, end))
      BY <1>1, <1>12, <2>2 DEF textAt
    <3>2. end = m - 2 /\ s < m
      BY <1>12, <2>2
    <3> QED
      BY <1>3, <3>1, <3>2
  <2> QED
    BY <2>1, <2>2
<1>14. f <= b + L /\ f \in Nat /\ d \in Nat \ {0} /\ d <= f + 1 /\ f + 1 - d = end - s + 1
  <2>1. CASE whole
    <3>1. server_sends[p].part = "CR" /\ end = e - 1
      <4>1. chunk[e] = server_sends[taken + e]
        BY <1>1, <1>5
      <4> QED
        BY <1>4, <2>1, <4>1
    <3>2. taken + e = b + L + 1
      BY <1>10, <3>1
    <3> HIDE DEF e, end
    <3> QED
      BY <1>2, <1>3, <1>5, <1>7, <1>13, <3>1, <3>2
  <2>2. CASE ~whole
    <3>1. end = m - 2 /\ e = m
      BY <2>2
    <3> HIDE DEF e, end
    <3> QED
      BY <1>2, <1>3, <1>7, <1>9, <1>13, <3>1
  <2> QED
    BY <2>1, <2>2
<1>15. /\ t \in Seq(Byte) /\ Len(t) = f + 1 - d
       /\ \A k \in 1..Len(t) : t[k] = server_sends[(d - 1) + k].part
  <2>1. s \in 1..Len(chunk) /\ end <= Len(chunk) /\ s - 1 <= end
    BY <1>1, <1>3, <1>13
  <2> HIDE DEF end, chunk, t
  <2>2. /\ parts(SubSeq(chunk, s, end)) \in Seq(Byte) /\ Len(parts(SubSeq(chunk, s, end))) = end - s + 1
        /\ \A k \in 1..(end - s + 1) : parts(SubSeq(chunk, s, end))[k] = chunk[s + k - 1].part
    BY <1>1, <1>13, <2>1, PartsAre
  <2>3. t \in Seq(Byte) /\ Len(t) = end - s + 1 /\ \A k \in 1..(end - s + 1) : t[k] = chunk[s + k - 1].part
    BY <1>13, <2>2
  <2>4. ASSUME NEW k \in 1..(end - s + 1) PROVE t[k] = server_sends[(d - 1) + k].part
    <3>1. s + k - 1 \in 1..m /\ taken + (s + k - 1) = (d - 1) + k
      BY <1>2, <1>3, <1>13
    <3>2. chunk[s + k - 1] = server_sends[taken + (s + k - 1)]
      BY <1>1, <3>1
    <3> QED
      BY <2>3, <3>1, <3>2
  <2> QED
    BY <1>14, <2>3, <2>4
<1>16. Slice(t, textOf(lines[n]), (d - 1) - offset(n - 1))
  <2> HIDE DEF t, d, f
  <2> QED
    BY <1>2, <1>11, <1>14, <1>15, PieceOfLine DEF b, L, T
<1>17. (d - 1) - offset(n - 1) \in Int
  <2> HIDE DEF d
  <2> QED
    BY <1>7, <1>14 DEF b
<1> QED
  BY <1>5, <1>10, <1>16, <1>17

LEMMA CommandOf ==
    ASSUME PlainChats, OnItsWay, NEW m \in 1..Len(wire), NEW s \in msgStarts(SubSeq(wire, 1, m)),
           NEW stale \in {<<>>, <<"stale">>},
           read(textAt(SubSeq(wire, 1, m), s, stale)).kind = "command"
    PROVE  LET n == lineOf(SubSeq(wire, 1, m), s) IN
           /\ lines[n].kind = "chat"
           /\ Authored(lines[n], read(textAt(SubSeq(wire, 1, m), s, stale)))
<1> DEFINE chunk == SubSeq(wire, 1, m)
           t == textAt(chunk, s, stale)
           n == lineOf(chunk, s)
           said == lines[n]
<1>1. contains(t, PRIVMSG) /\ read(t) = chatIn(t)
  BY DEF read
<1>2. n \in 1..Len(lines) /\ \E z \in Int : Slice(t, textOf(said), z)
  BY <1>1, MessageIs
<1>3. PICK z \in Int : Slice(t, textOf(said), z)
  BY <1>2
<1>4. lines \in Conversations /\ lines \in Seq(Said)
  BY LineDispatchAssumption DEF OnItsWay
<1>5. IsCommand(t) /\ read(t) = commandIn(t)
  <2>1. chatIn(t).kind = "command"
    BY <1>1
  <2> HIDE DEF t
  <2> QED
    BY <1>1, <2>1, ChatIs
<1> HIDE DEF t, n
<1>6. said \in Said
  BY <1>2, <1>4, ElementOfSeq
<1>7. said.kind = "chat" /\ said \in Chat
  <2>1. said.kind # "PING"
    <3> SUFFICES ASSUME said.kind = "PING" PROVE FALSE
      OBVIOUS
    <3>1. textOf(said) = PING
      BY <1>6, TextIs
    <3> QED
      BY <1>1, <1>3, <3>1, PingIsNone
  <2> QED
    BY <1>6, <2>1 DEF Said, Chat
<1>8. Plain(said)
  BY <1>2, <1>4, <1>7 DEF PlainChats
<1>9. Cut(said, t, z)
  BY <1>3, <1>7, <1>8 DEF Cut
<1>10. Authored(said, commandIn(t))
  BY <1>5, <1>9, CommandIsHis
<1> QED
  BY <1>5, <1>7, <1>10 DEF t, n

Authorship ==
    /\ OnItsWay
    /\ \A h \in handled : h.msg.kind = "command" =>
          lines[h.line].kind = "chat" /\ Authored(lines[h.line], h.msg)

(* Whatever the conversation, however long its lines and their words, and     *)
(* wherever the chunks end, a command that twitch_dispatch_callbacks hands on *)
(* is that of the viewer of one line, with his id, his name and no role he    *)
(* has not, and a beginning of what he typed.  What a viewer types may look   *)
(* like a tag, which the tags' search over the whole of the line would take   *)
(* for one: PlainChats leaves that out, as do the conversations of the run.   *)
THEOREM AlwaysCommandsAreAuthored ==
    ASSUME PlainChats
    PROVE  Spec => []CommandsAreAuthored
<1>1. Init => Authorship
  <2> SUFFICES ASSUME Init PROVE Authorship
    OBVIOUS
  <2>1. handled = {}
    BY DEF Init
  <2> QED
    BY <2>1, InitOnItsWay DEF Authorship
<1>2. Authorship /\ [Next]_vars => Authorship'
  <2> SUFFICES ASSUME Authorship, [Next]_vars PROVE Authorship'
    OBVIOUS
  <2>1. CASE UNCHANGED vars
    <3>1. UNCHANGED <<lines, wire, handled>>
      BY <2>1 DEF vars
    <3>2. server_sends' = server_sends /\ taken' = taken
      BY <3>1 DEF server_sends, bytesOf, taken
    <3>3. OnItsWay'
      BY <3>1, <3>2 DEF Authorship, OnItsWay
    <3> QED
      BY <3>1, <3>3 DEF Authorship
  <2>2. ASSUME NEW m \in 1..Len(wire), NEW stale \in {<<>>, <<"stale">>}, twitch_dispatch_callbacks(m, stale)
        PROVE  Authorship'
    <3> DEFINE chunk == SubSeq(wire, 1, m)
    <3>1. OnItsWay' /\ lines' = lines
      BY <2>2, StepOnItsWay DEF Authorship
    <3>2. ASSUME NEW h \in handled', h.msg.kind = "command"
          PROVE  lines[h.line].kind = "chat" /\ Authored(lines[h.line], h.msg)
      <4>1. PICK s \in receivedMsgs(chunk) :
               h = [at |-> s, line |-> lineOf(chunk, s), msg |-> read(textAt(chunk, s, stale))]
        BY <2>2 DEF twitch_dispatch_callbacks
      <4>2. s \in msgStarts(chunk)
        BY DEF receivedMsgs
      <4>3. h.line = lineOf(chunk, s) /\ h.msg = read(textAt(chunk, s, stale))
        BY <4>1
      <4>4. /\ lines[lineOf(chunk, s)].kind = "chat"
            /\ Authored(lines[lineOf(chunk, s)], read(textAt(chunk, s, stale)))
        <5>1. read(textAt(chunk, s, stale)).kind = "command"
          BY <3>2, <4>3
        <5> QED
          BY <4>2, <5>1, CommandOf DEF Authorship
      <4> QED
        BY <4>3, <4>4
    <3> QED
      BY <3>1, <3>2 DEF Authorship
  <2> QED
    BY <2>1, <2>2 DEF Next
<1>3. Authorship => CommandsAreAuthored
  BY DEF Authorship, CommandsAreAuthored, Authored
<1> QED
  BY <1>1, <1>2, <1>3, PTL DEF Spec

-----------------------------------------------------------------------------
(* Lines that come whole.                                                     *)

(* All of a command of a plain line, with or without the line feed before.    *)
Whole(said, t, z) ==
    /\ Cut(said, t, z) /\ said.tagged /\ said.cmd # <<>>
    /\ z \in {-1, 0} /\ Len(t) + z = Len(textOf(said))

LEMMA WholeIsOpened ==
    ASSUME NEW said, NEW t, NEW z, Whole(said, t, z)
    PROVE  Opened(said, t, z)
<1> DEFINE T == textOf(said)
           l == toLabel(said.author)
           e == toNameEnd(said.author)
           B == toText(said)
           c == toChannelEnd(said)
           d == toCmdEnd(said)
           m == Len(t)
<1>1. /\ said \in Chat /\ Plain(said) /\ Slice(t, T, z) /\ said.tagged
      /\ z \in {-1, 0} /\ m + z = Len(T) /\ Cut(said, t, z)
  BY DEF Whole, Cut
<1>2. /\ l \in Nat /\ e \in Nat /\ B \in Nat /\ c \in Nat /\ d \in Nat /\ Len(T) \in Nat
      /\ 1 <= l /\ l + 3 <= e /\ e + 12 <= B /\ B + 7 <= c /\ c + 3 <= d /\ d + 1 <= Len(T)
  BY <1>1, PlacesInOrder
<1>3. T[l + 1] = "display-name" /\ T[l + 2] = "="
  BY <1>1, ChatStandsThere DEF ChatStands, TagsStand
<1>4. \A i \in 1..(Len(T) - 1) : T[i] = "display-name" /\ T[i + 1] = "=" => i = l + 1
  BY <1>1, LabelsAre
<1>5. /\ DisplayName \in Seq(Byte) /\ Len(DisplayName) = 2
      /\ DisplayName[1] = "display-name" /\ DisplayName[2] = "="
  BY WordsAre
<1> DEFINE p == l + 1
           start == 1
<1> HIDE DEF T, l, e, B, c, d, m
<1>6. /\ p \in Nat \ {0} /\ start \in Nat \ {0} /\ start + z <= p /\ p + 2 - 1 <= m + z
      /\ p + 1 - 1 = l + 1 /\ p + 2 - 1 = l + 2
  BY <1>1, <1>2
<1>7. OccursAt(DisplayName, T, p)
  <2>1. \A k \in 1..2 : k = 1 \/ k = 2
    OBVIOUS
  <2> QED
    BY <1>3, <1>5, <1>6, <2>1 DEF OccursAt
<1>8. \A q \in Nat \ {0} : start + z <= q /\ q < p => ~OccursAt(DisplayName, T, q)
  <2> SUFFICES ASSUME NEW q \in Nat \ {0}, q < p, OccursAt(DisplayName, T, q) PROVE FALSE
    OBVIOUS
  <2>1. q + 1 - 1 = q /\ q + 2 - 1 = q + 1 /\ 1 \in 1..2 /\ 2 \in 1..2 /\ q \in 1..(Len(T) - 1) /\ q # l + 1
    BY <1>2
  <2>2. T[q] = "display-name" /\ T[q + 1] = "="
    BY <1>5, <2>1 DEF OccursAt
  <2> QED
    BY <1>4, <2>1, <2>2
<1> HIDE DEF p, start
<1>9. WordAt(t, T, z, start, DisplayName, p)
  <2>1. Len(DisplayName) >= 1 /\ DisplayName[1] # "LF"
    BY <1>5
  <2> QED
    BY <1>1, <1>5, <1>6, <1>7, <1>8, <2>1 DEF WordAt, m
<1>10. seek_next_string(t, start, DisplayName).cursor = p - z + Len(DisplayName)
  BY <1>9, WordFound
<1>11. label(t).cursor = l + 3 - z
  <2>1. label(t).cursor = p - z + 2
    BY <1>5, <1>10 DEF label, start
  <2>2. p - z + 2 = l + 3 - z
    BY <1>1, <1>2 DEF p
  <2> QED
    BY <2>1, <2>2
<1>12. z <= l /\ c + 3 <= m + z
  BY <1>1, <1>2
<1> QED
  BY <1>1, <1>11, <1>12 DEF Opened, l, c, m

LEMMA WholeIsCommand ==
    ASSUME NEW said, NEW t, NEW z, Whole(said, t, z)
    PROVE  IsCommand(t) /\ contains(t, PRIVMSG) /\ ~match(PING, t)
<1> DEFINE T == textOf(said)
           B == toText(said)
           c == toChannelEnd(said)
           d == toCmdEnd(said)
           m == Len(t)
<1>1. Opened(said, t, z) /\ said \in Chat /\ Plain(said) /\ Slice(t, T, z) /\ said.tagged /\ said.cmd # <<>>
      /\ z \in {-1, 0} /\ m + z = Len(T)
  BY WholeIsOpened DEF Whole, Cut
<1>2. /\ B \in Nat /\ c \in Nat /\ d \in Nat /\ Len(T) \in Nat
      /\ 15 <= B /\ B + 7 <= c /\ c + 3 <= d /\ d + 1 <= Len(T) /\ m \in Nat /\ t \in Seq(Byte) /\ behind(t) = m + 1
  <2>1. /\ toLabel(said.author) \in Nat /\ toNameEnd(said.author) \in Nat
        /\ B \in Nat /\ c \in Nat /\ d \in Nat /\ Len(T) \in Nat
        /\ 1 <= toLabel(said.author) /\ toLabel(said.author) + 3 <= toNameEnd(said.author)
        /\ toNameEnd(said.author) + 12 <= B
        /\ B + 7 <= c /\ c + 3 <= d /\ d + 1 <= Len(T) /\ m \in Nat /\ t \in Seq(Byte) /\ behind(t) = m + 1
    BY <1>1, OpenedIs
  <2> HIDE DEF B, c, d, T, m
  <2> QED
    BY <2>1
<1>3. /\ T[1] = "@" /\ T[B + 2] = "P" /\ T[B + 3] = "RIVM" /\ T[B + 4] = "SG" /\ T[c + 3] = "!"
      /\ StandsAt(said.cmd, T, c + 3)
  BY <1>1, ChatStandsThere DEF ChatStands, TagsStand
<1>4. ASSUME NEW i \in 1..Len(T) PROVE i - z \in 1..m /\ t[i - z] = T[i]
  <2> DEFINE j == i - z
  <2>1. j \in 1..m /\ j + z = i /\ i # 0
    BY <1>1, <1>2
  <2> HIDE DEF j
  <2>2. t[j] = IF j + z = 0 THEN "LF" ELSE T[j + z]
    BY <1>1, <2>1 DEF Slice
  <2> QED
    BY <2>1, <2>2 DEF j
<1>5. /\ B + 2 \in 1..Len(T) /\ B + 3 \in 1..Len(T) /\ B + 4 \in 1..Len(T)
      /\ c + 3 \in 1..Len(T) /\ c + 4 \in 1..Len(T) /\ 1 \in 1..Len(T)
  BY <1>2
<1>6. IsCommand(t)
  <2>1. chatStart(t) = c + 3 - z
    BY <1>1, CommandIsFound
  <2>2. T[c + 4] \notin Whitespace
    <3>1. said.cmd \in Seq(Byte)
      <4>1. Part \subseteq Byte
        BY DEF Byte
      <4>2. Seq(Part) \subseteq Seq(Byte)
        BY <4>1, SeqMonotonic
      <4> QED
        BY <1>1, <4>2, Literals DEF Chat
    <3>2. 1 \in 1..Len(said.cmd)
      <4>1. Len(said.cmd) \in Nat \ {0}
        BY <1>1, <3>1, EmptySeq
      <4> QED
        BY <4>1
    <3>3. said.cmd[1] \notin Whitespace
      BY <1>1, <3>2 DEF Plain
    <3>4. T[(c + 3) + 1] = said.cmd[1]
      BY <1>3, <3>2 DEF StandsAt
    <3>5. (c + 3) + 1 = c + 4
      BY <1>2
    <3> QED
      BY <3>3, <3>4, <3>5
  <2> HIDE DEF T, c, m
  <2>3. c + 3 - z \in 1..m /\ t[c + 3 - z] = "!"
    <3> DEFINE i == c + 3
    <3>1. i \in 1..Len(T) /\ T[i] = "!"
      BY <1>3, <1>5
    <3> HIDE DEF i
    <3>2. i - z \in 1..m /\ t[i - z] = "!"
      BY <1>4, <3>1
    <3>3. i - z = c + 3 - z
      BY <1>1, <1>2 DEF i
    <3> QED
      BY <3>2, <3>3
  <2>4. (c + 3 - z) + 1 \in 1..m /\ t[(c + 3 - z) + 1] \notin Whitespace
    <3> DEFINE i == c + 4
    <3>1. i \in 1..Len(T) /\ T[i] \notin Whitespace
      BY <1>5, <2>2
    <3> HIDE DEF i
    <3>2. i - z \in 1..m /\ t[i - z] \notin Whitespace
      BY <1>4, <3>1
    <3>3. i - z = (c + 3 - z) + 1
      BY <1>1, <1>2 DEF i
    <3> QED
      BY <3>2, <3>3
  <2> QED
    BY <2>1, <2>3, <2>4 DEF IsCommand, byteAt, m
<1>7. contains(t, PRIVMSG)
  <2> DEFINE at == find(t, 1, PRIVMSG)
             i == B + 2 - z
  <2>1. /\ PRIVMSG \in Seq(Byte) /\ Len(PRIVMSG) = 3
        /\ PRIVMSG[1] = "P" /\ PRIVMSG[2] = "RIVM" /\ PRIVMSG[3] = "SG"
    BY WordsAre
  <2>2. IsFirst(at, t, 1, Where(t, PRIVMSG))
    <3>1. t \in Seq(Byte)
      BY <1>2
    <3> QED
      BY <2>1, <3>1, FindIs
  <2>3. /\ (B + 2) - z \in 1..m /\ t[(B + 2) - z] = "P"
        /\ (B + 3) - z \in 1..m /\ t[(B + 3) - z] = "RIVM"
        /\ (B + 4) - z \in 1..m /\ t[(B + 4) - z] = "SG"
    BY <1>3, <1>4, <1>5
  <2> HIDE DEF B, m, T
  <2>4. i = (B + 2) - z /\ i + 1 - 1 = i /\ i + 2 - 1 = (B + 3) - z /\ i + 3 - 1 = (B + 4) - z
    BY <1>1, <1>2
  <2> HIDE DEF i
  <2>5. i \in 1..m /\ i + 3 - 1 <= m
    BY <1>2, <2>3, <2>4
  <2>6. \A k \in 1..3 : t[i + k - 1] = PRIVMSG[k]
    <3>1. \A k \in 1..3 : k = 1 \/ k = 2 \/ k = 3
      OBVIOUS
    <3> QED
      BY <2>1, <2>3, <2>4, <3>1
  <2>7. i \in Where(t, PRIVMSG)
    BY <2>1, <2>5, <2>6 DEF Where, m
  <2>8. at # behind(t)
    <3> SUFFICES ASSUME at = behind(t) PROVE FALSE
      OBVIOUS
    <3> HIDE DEF at
    <3>1. i \in 1..Len(t) /\ i < at
      BY <1>2, <2>5 DEF m
    <3> QED
      BY <2>2, <2>7, <3>1 DEF IsFirst
  <2> QED
    BY <2>8 DEF contains
<1>8. ~match(PING, t)
  <2>1. t[1] # "P" /\ 1 <= m
    <3>1. CASE z = 0
      <4>1. 1 - z \in 1..m /\ t[1 - z] = "@" /\ 1 - z = 1
        BY <1>3, <1>4, <1>5, <3>1
      <4> QED
        BY <1>2, <4>1
    <3>2. CASE z = -1
      <4>1. 1 \in 1..m /\ 1 + z = 0
        BY <1>1, <1>2, <3>2
      <4>2. t[1] = "LF"
        BY <1>1, <4>1 DEF Slice
      <4> QED
        BY <4>1, <4>2
    <3> QED
      BY <1>1, <3>1, <3>2
  <2>2. Len(PING) = 3 /\ PING[1] = "P"
    BY DEF PING
  <2>3. Min({Len(PING), Len(t)}) \in {3, m}
    BY <1>2, <2>2, MinIs
  <2>4. 1 \in 1..Min({Len(PING), Len(t)})
    BY <1>2, <2>1, <2>3
  <2> QED
    BY <2>1, <2>2, <2>4 DEF match
<1> QED
  BY <1>6, <1>7, <1>8

LEMMA WholeIsRead ==
    ASSUME NEW said, NEW t, NEW z, Whole(said, t, z)
    PROVE  read(t) = whatArrives(said)
<1>1. Opened(said, t, z) /\ said \in Chat /\ z <= 0 /\ Len(t) + z = Len(textOf(said))
  BY WholeIsOpened DEF Whole, Cut
<1>2. read(t) = commandIn(t)
  <2>1. IsCommand(t) /\ contains(t, PRIVMSG) /\ ~match(PING, t)
    BY WholeIsCommand
  <2> QED
    BY <2>1, ChatIs DEF read
<1>3. /\ commandIn(t).user.id = said.author.id
      /\ commandIn(t).user.displayName = nameOf(said.author)
      /\ commandIn(t).user.roles = said.author.roles
      /\ commandIn(t).channel = channelOf(said)
  <2>1. rolesIn(t) = said.author.roles
    BY <1>1, RolesAreHis
  <2>2. nameIn(t) = said.author.displayName /\ channelIn(t) = said.channel
    BY <1>1, WordsAreHis
  <2> QED
    BY <1>1, <2>1, <2>2, IdIsHis DEF commandIn, nameOf, channelOf
<1>4. said.cmd \in Seq(Byte) /\ said.cmdMessage \in Seq(Byte)
  <2>1. Part \subseteq Byte
    BY DEF Byte
  <2>2. Seq(Part) \subseteq Seq(Byte)
    BY <2>1, SeqMonotonic
  <2> QED
    BY <1>1, <2>2, Literals DEF Chat
<1>5. cmdIn(t) = said.cmd /\ textIn(t) = said.cmdMessage
  <2>1. \A word \in Seq(Byte) : \A n \in 0..Len(word) : n = Len(word) => SubSeq(word, 1, n) = word
    BY BeginningIs
  <2>2. \E n \in 0..Len(said.cmd) : cmdIn(t) = SubSeq(said.cmd, 1, n) /\ n = Len(said.cmd)
    BY <1>1, WordsAreHis
  <2>3. \E n \in 0..Len(said.cmdMessage) :
           textIn(t) = SubSeq(said.cmdMessage, 1, n) /\ n = Len(said.cmdMessage)
    BY <1>1, WordsAreHis
  <2> QED
    BY <1>4, <2>1, <2>2, <2>3
<1>6. said.author = [id |-> said.author.id, displayName |-> said.author.displayName, roles |-> said.author.roles]
  <2>1. said.author \in [id : Nat, displayName : Bytes, roles : SUBSET {"broadcaster", "moderator", "subscriber"}]
    BY <1>1 DEF Chat, Viewer
  <2> HIDE DEF Bytes
  <2> QED
    BY <2>1
<1>7. [said.author EXCEPT !.displayName = nameOf(said.author)]
         = [id |-> said.author.id, displayName |-> nameOf(said.author), roles |-> said.author.roles]
  BY <1>6
<1>8. whatArrives(said) =
         [kind |-> "command",
          user |-> [id |-> said.author.id, displayName |-> nameOf(said.author), roles |-> said.author.roles],
          channel |-> channelOf(said), cmd |-> cutTo(said.cmd, TWITCH_CMD_BUFFER - 1),
          cmdMessage |-> cutTo(said.cmdMessage, TWITCH_MESSAGE_BUFFER - 1),
          messageLength |-> Len(said.cmdMessage)]
  BY <1>7 DEF whatArrives
<1>9. commandIn(t) =
         [kind |-> "command",
          user |-> [id |-> commandIn(t).user.id, displayName |-> commandIn(t).user.displayName,
                    roles |-> commandIn(t).user.roles],
          channel |-> commandIn(t).channel, cmd |-> cutTo(cmdIn(t), TWITCH_CMD_BUFFER - 1),
          cmdMessage |-> cutTo(textIn(t), TWITCH_MESSAGE_BUFFER - 1),
          messageLength |-> Len(textIn(t))]
  BY DEF commandIn
<1> QED
  BY <1>2, <1>3, <1>5, <1>8, <1>9, Zenon

(* A message ends in front of where the next one starts.                      *)
LEMMA StartsApart ==
    ASSUME NEW chunk \in Seq(Sent), NEW x \in msgStarts(chunk), NEW y \in msgStarts(chunk), x < y
    PROVE  broken(chunk, x) /\ lineEnd(chunk, x) + 2 <= y
<1>1. \A i \in lineBreaks(chunk) : i \in Nat /\ i >= 1 /\ chunk[i].part = "CR" /\ chunk[i + 1].part = "LF"
  <2>1. Len(chunk) \in Nat
    BY LenProperties
  <2> QED
    BY <2>1 DEF lineBreaks
<1>2. /\ x = 1 \/ \E i \in lineBreaks(chunk) : x = i + 2
      /\ y = 1 \/ \E i \in lineBreaks(chunk) : y = i + 2
  BY DEF msgStarts
<1>3. x \in Nat /\ y \in Nat /\ x >= 1
  BY <1>1, <1>2
<1>4. PICK j \in lineBreaks(chunk) : y = j + 2
  BY <1>2, <1>3
<1>5. x # j + 1
  <2> SUFFICES ASSUME x = j + 1 PROVE FALSE
    OBVIOUS
  <2>1. PICK i \in lineBreaks(chunk) : x = i + 2
    BY <1>1, <1>2, <1>4
  <2>2. j = i + 1
    BY <1>1, <2>1
  <2>3. chunk[j].part = "CR" /\ chunk[j].part = "LF"
    BY <1>1, <2>2
  <2> QED
    BY <2>3
<1>6. j >= x /\ j \in Nat
  BY <1>1, <1>3, <1>4, <1>5
<1>7. broken(chunk, x)
  BY <1>6 DEF broken
<1>8. lineEnd(chunk, x) \in Nat /\ lineEnd(chunk, x) <= j
  BY <1>3, <1>6, <1>7, BreakAt
<1> QED
  BY <1>4, <1>6, <1>7, <1>8

(* If as many bytes of a line come as it has, it comes whole.                 *)
LEMMA AllOfIt ==
    ASSUME OnItsWay, NEW m \in 1..Len(wire), NEW n \in 1..Len(lines),
           Cardinality({c \in 1..m : SubSeq(wire, 1, m)[c].line = n}) = Len(bytesOf(n))
    PROVE  taken <= offset(n - 1) /\ offset(n) <= taken + m
<1> DEFINE chunk == SubSeq(wire, 1, m)
           own == {c \in 1..m : chunk[c].line = n}
           b == offset(n - 1)
           L == Len(textOf(lines[n]))
           from == b + 1 - taken
           to == b + L + 2 - taken
<1>1. \A i \in 1..m : chunk[i] = server_sends[taken + i]
  BY ChunkIs
<1>2. /\ lines \in Conversations /\ taken \in Nat /\ m \in Nat /\ Len(server_sends) \in Nat
      /\ taken + m <= Len(server_sends)
  <2>1. Len(wire) \in Nat /\ Len(server_sends) \in Nat
    BY OffsetIs, LenProperties DEF OnItsWay
  <2> QED
    BY <2>1 DEF OnItsWay, taken
<1>3. L \in Nat /\ b \in Nat /\ offset(n) = b + L + 2
  BY <1>2, LineStands
<1>4. Cardinality(own) = L + 2
  BY <1>2, BytesAre
<1>5. \A c \in own : c \in 1..m /\ from <= c /\ c <= to
  <2> SUFFICES ASSUME NEW c \in own PROVE c \in 1..m /\ from <= c /\ c <= to
    OBVIOUS
  <2> DEFINE p == taken + c
  <2>1. c \in 1..m /\ server_sends[p].line = n
    BY <1>1
  <2>2. p \in 1..Len(server_sends)
    BY <1>2, <2>1
  <2> HIDE DEF p
  <2>3. b < p /\ p <= offset(n)
    BY <1>2, <2>1, <2>2, LineOfByte
  <2> HIDE DEF b, L
  <2> QED
    BY <1>2, <1>3, <2>1, <2>3 DEF p
<1>6. from \in Int /\ to \in Int /\ to = from + L + 1
  <2> HIDE DEF b, L
  <2> QED
    BY <1>2, <1>3
<1>7. ASSUME NEW u \in Int, NEW v \in Int, own \subseteq u..v PROVE L + 2 <= v - u + 1
  <2>1. IsFiniteSet(u..v) /\ Cardinality(u..v) = IF u > v THEN 0 ELSE v - u + 1
    BY FS_Interval
  <2>2. Cardinality(own) <= Cardinality(u..v)
    BY <1>7, <2>1, FS_Subset
  <2> HIDE DEF L, own
  <2> QED
    BY <1>3, <1>4, <2>1, <2>2
<1> HIDE DEF own, from, to, b, L
<1>8. from >= 1
  <2> DEFINE one == 1
  <2>0. one \in Int /\ own \subseteq one..to
    BY <1>2, <1>5, <1>6
  <2> HIDE DEF one
  <2>1. L + 2 <= to - one + 1
    BY <1>6, <1>7, <2>0
  <2>2. L + 2 <= to - 1 + 1
    BY <2>1 DEF one
  <2> QED
    BY <1>3, <1>6, <2>2
<1>9. to <= m
  <2>1. own \subseteq from..m
    BY <1>2, <1>5, <1>6
  <2>2. L + 2 <= m - from + 1
    BY <1>2, <1>6, <1>7, <2>1
  <2> QED
    BY <1>2, <1>3, <1>6, <2>2
<1>10. taken <= b /\ offset(n) <= taken + m
  <2>1. b + 1 - taken >= 1 /\ b + L + 2 - taken <= m
    BY <1>8, <1>9 DEF from, to
  <2> QED
    BY <1>2, <1>3, <2>1
<1> QED
  BY <1>10 DEF b

(* Where the message with the whole line starts.                              *)
startOf(n) == IF offset(n - 1) - taken = 1 THEN 1 ELSE offset(n - 1) + 1 - taken

LEMMA LineComesWhole ==
    ASSUME OnItsWay, NEW m \in 1..Len(wire), NEW n \in 1..Len(lines), NEW stale,
           taken <= offset(n - 1), offset(n) <= taken + m
    PROVE  LET chunk == SubSeq(wire, 1, m)
               s == startOf(n)
               t == textAt(chunk, s, stale) IN
           /\ s \in msgStarts(chunk) /\ s \in Nat /\ taken + s <= offset(n - 1) + 1
           /\ broken(chunk, s) /\ taken + lineEnd(chunk, s) + 1 = offset(n)
           /\ lineOf(chunk, s) = n
           /\ \E z \in {-1, 0} : Slice(t, textOf(lines[n]), z) /\ Len(t) + z = Len(textOf(lines[n]))
<1> DEFINE chunk == SubSeq(wire, 1, m)
           s == startOf(n)
           t == textAt(chunk, s, stale)
           b == offset(n - 1)
           T == textOf(lines[n])
           L == Len(T)
           E == b + L + 1 - taken
           end == E - 1
           d == taken + s
           f == b + L
<1>1. chunk \in Seq(Sent) /\ Len(chunk) = m /\ \A i \in 1..m : chunk[i] = server_sends[taken + i]
  BY ChunkIs
<1>2. lines \in Conversations /\ taken \in Nat /\ m \in Nat
  <2>1. Len(wire) \in Nat
    BY LenProperties DEF OnItsWay
  <2> QED
    BY <2>1 DEF OnItsWay
<1>3. /\ L \in Nat /\ b \in Nat /\ offset(n) = b + L + 2
      /\ \A k \in 1..L : server_sends[b + k] = [line |-> n, part |-> T[k]] /\ T[k] \notin {"CR", "LF"}
      /\ server_sends[b + L + 1] = [line |-> n, part |-> "CR"]
      /\ server_sends[b + L + 2] = [line |-> n, part |-> "LF"]
      /\ n > 1 => /\ b >= 2
                  /\ server_sends[b - 1] = [line |-> n - 1, part |-> "CR"]
                  /\ server_sends[b] = [line |-> n - 1, part |-> "LF"]
  BY <1>2, LineStands
<1>4. n = 1 => b = 0
  BY <1>2, OffsetIs
<1>5. taken <= b /\ b + L + 2 <= taken + m
  BY <1>3
<1>6. s = IF b - taken = 1 THEN 1 ELSE b + 1 - taken
  BY DEF startOf
<1> HIDE DEF chunk, s, b, T, L
<1>7. /\ s \in Nat /\ 1 <= s /\ d <= b + 1 /\ b <= d /\ s <= E /\ E \in 1..(m - 1) /\ E + 1 \in 1..m
      /\ taken + E = b + L + 1 /\ taken + (E + 1) = b + L + 2 /\ E \in 1..m /\ s \in 1..m
  BY <1>2, <1>3, <1>5, <1>6
<1> HIDE DEF E
<1>8. E \in lineBreaks(chunk)
  <2>1. chunk[E] = server_sends[taken + E] /\ chunk[E + 1] = server_sends[taken + (E + 1)]
    BY <1>1, <1>7
  <2>2. chunk[E].part = "CR" /\ chunk[E + 1].part = "LF"
    BY <1>3, <1>7, <2>1
  <2> QED
    BY <1>1, <1>7, <2>2 DEF lineBreaks
<1>9. ASSUME NEW i \in lineBreaks(chunk), s <= i, i < E PROVE FALSE
  <2>1. i \in 1..m /\ chunk[i].part = "CR" /\ i \in Nat
    BY <1>1, <1>2 DEF lineBreaks
  <2>2. server_sends[taken + i].part = "CR"
    BY <1>1, <2>1
  <2> DEFINE k == (taken + i) - b
  <2>3. taken + i = b \/ (k \in 1..L /\ b + k = taken + i)
    BY <1>2, <1>3, <1>7, <1>9, <2>1
  <2> HIDE DEF k
  <2>4. CASE taken + i = b
    <3>1. n > 1
      BY <1>2, <1>4, <2>1, <2>4
    <3> QED
      BY <1>3, <2>2, <2>4, <3>1
  <2>5. CASE k \in 1..L /\ b + k = taken + i
    <3>1. server_sends[b + k] = [line |-> n, part |-> T[k]] /\ T[k] \notin {"CR", "LF"}
      BY <1>3, <2>5
    <3> QED
      BY <2>2, <2>5, <3>1
  <2> QED
    BY <2>3, <2>4, <2>5
<1>10. broken(chunk, s)
  BY <1>7, <1>8 DEF broken
<1>11. lineEnd(chunk, s) = E
  <2>1. /\ lineEnd(chunk, s) \in lineBreaks(chunk) /\ lineEnd(chunk, s) \in Nat /\ s <= lineEnd(chunk, s)
        /\ \A i \in lineBreaks(chunk) : i >= s => lineEnd(chunk, s) <= i
    BY <1>1, <1>7, <1>10, BreakAt
  <2>2. lineEnd(chunk, s) <= E
    BY <1>7, <1>8, <2>1
  <2>3. ~(lineEnd(chunk, s) < E)
    BY <1>9, <2>1
  <2> QED
    BY <1>7, <2>1, <2>2, <2>3
<1>12. lineOf(chunk, s) = n
  <2>1. chunk[E] = server_sends[taken + E]
    BY <1>1, <1>7
  <2> QED
    BY <1>3, <1>7, <1>10, <1>11, <2>1 DEF lineOf
<1>13. s \in msgStarts(chunk)
  <2>1. CASE s = 1
    BY <1>1, <1>7, <2>1 DEF msgStarts
  <2>2. CASE s # 1
    <3> DEFINE i == s - 2
    <3>1. /\ i \in 1..(m - 1) /\ i + 1 \in 1..m /\ i \in 1..m /\ s = i + 2 /\ b # 0
          /\ taken + i = b - 1 /\ taken + (i + 1) = b
      BY <1>2, <1>3, <1>5, <1>6, <1>7, <2>2
    <3> HIDE DEF i
    <3>2. n > 1
      BY <1>4, <3>1
    <3>3. chunk[i] = server_sends[taken + i] /\ chunk[i + 1] = server_sends[taken + (i + 1)]
      BY <1>1, <3>1
    <3>4. server_sends[b - 1].part = "CR" /\ server_sends[b].part = "LF"
      BY <1>3, <3>2
    <3>5. i \in lineBreaks(chunk)
      BY <1>1, <3>1, <3>3, <3>4 DEF lineBreaks
    <3> QED
      BY <1>1, <1>7, <3>1, <3>5 DEF msgStarts
  <2> QED
    BY <2>1, <2>2
<1>14. t = parts(SubSeq(chunk, s, end))
  BY <1>10, <1>11 DEF textAt
<1>15. /\ end \in Nat /\ s - 1 <= end /\ end <= m /\ f + 1 - d = end - s + 1
       /\ d \in Nat \ {0} /\ f \in Nat /\ d <= f + 1 /\ f = b + L
  BY <1>2, <1>3, <1>7
<1>16. t \in Seq(Byte) /\ Len(t) = f + 1 - d /\ \A k \in 1..Len(t) : t[k] = server_sends[(d - 1) + k].part
  <2>1. s \in 1..Len(chunk) /\ end <= Len(chunk)
    BY <1>1, <1>7, <1>15
  <2> HIDE DEF end, t, f, d
  <2>2. /\ parts(SubSeq(chunk, s, end)) \in Seq(Byte) /\ Len(parts(SubSeq(chunk, s, end))) = end - s + 1
        /\ \A k \in 1..(end - s + 1) : parts(SubSeq(chunk, s, end))[k] = chunk[s + k - 1].part
    BY <1>1, <1>15, <2>1, PartsAre
  <2>3. t \in Seq(Byte) /\ Len(t) = end - s + 1 /\ \A k \in 1..(end - s + 1) : t[k] = chunk[s + k - 1].part
    BY <1>14, <2>2
  <2>4. ASSUME NEW k \in 1..(end - s + 1) PROVE t[k] = server_sends[(d - 1) + k].part
    <3>1. s + k - 1 \in 1..m /\ taken + (s + k - 1) = (d - 1) + k
      BY <1>2, <1>7, <1>15 DEF d
    <3>2. chunk[s + k - 1] = server_sends[taken + (s + k - 1)]
      BY <1>1, <3>1
    <3> QED
      BY <2>3, <3>1, <3>2
  <2> QED
    BY <1>15, <2>3, <2>4
<1> DEFINE z == (d - 1) - b
<1>17. z \in {-1, 0} /\ Len(t) + z = L
  <2> HIDE DEF t
  <2>1. Len(t) = f + 1 - d
    BY <1>16
  <2> HIDE DEF f
  <2>2. d = b \/ d = b + 1
    BY <1>2, <1>3, <1>7
  <2> HIDE DEF d
  <2> QED
    BY <1>3, <1>15, <2>1, <2>2
<1>18. Slice(t, textOf(lines[n]), z)
  <2> HIDE DEF t, d, f
  <2>1. offset(n - 1) <= d /\ f <= offset(n - 1) + Len(textOf(lines[n])) /\ d <= f + 1
    BY <1>3, <1>7, <1>15 DEF b, L, T
  <2>2. Slice(t, textOf(lines[n]), (d - 1) - offset(n - 1))
    BY <1>2, <1>15, <1>16, <2>1, PieceOfLine
  <2> QED
    BY <2>2 DEF b
<1>19. taken + E + 1 = b + L + 2
  BY <1>2, <1>7
<1> HIDE DEF z, t
<1> QED
  BY <1>3, <1>7, <1>10, <1>11, <1>12, <1>13, <1>17, <1>18, <1>19 DEF chunk, s, b, L, T, t

LEMMA TakenOnce ==
    ASSUME OnItsWay, NEW m \in 1..Len(wire), NEW n \in 1..Len(lines),
           taken <= offset(n - 1), offset(n) <= taken + m,
           NEW x \in msgStarts(SubSeq(wire, 1, m)), lineOf(SubSeq(wire, 1, m), x) = n
    PROVE  x = startOf(n)
<1> DEFINE chunk == SubSeq(wire, 1, m)
           s == startOf(n)
           e == IF broken(chunk, x) THEN lineEnd(chunk, x) ELSE m
           p == taken + e
<1>1. chunk \in Seq(Sent) /\ Len(chunk) = m /\ \A i \in 1..m : chunk[i] = server_sends[taken + i]
  BY ChunkIs
<1>2. /\ lines \in Conversations /\ taken \in Nat /\ m \in Nat /\ Len(server_sends) \in Nat
      /\ taken + m <= Len(server_sends)
  <2>1. Len(wire) \in Nat /\ Len(server_sends) \in Nat
    BY OffsetIs, LenProperties DEF OnItsWay
  <2> QED
    BY <2>1 DEF OnItsWay, taken
<1>3. /\ s \in msgStarts(chunk) /\ s \in Nat /\ taken + s <= offset(n - 1) + 1
      /\ broken(chunk, s) /\ taken + lineEnd(chunk, s) + 1 = offset(n)
  BY LineComesWhole
<1>4. offset(n - 1) \in Nat /\ offset(n) \in Nat
  <2>1. n - 1 \in 0..Len(lines) /\ n \in 0..Len(lines)
    BY <1>2, OffsetIs
  <2> QED
    BY <1>2, <2>1, OffsetIs
<1> HIDE DEF chunk, s
<1>5. x \in 1..m
  <2>1. \A i \in lineBreaks(chunk) : i \in 1..(m - 1)
    BY <1>1 DEF lineBreaks
  <2>2. x \in {1} \cup {i + 2 : i \in lineBreaks(chunk)} /\ x <= m
    BY <1>1 DEF msgStarts, chunk
  <2> QED
    BY <1>2, <2>1, <2>2
<1>6. broken(chunk, x) => lineEnd(chunk, x) \in Nat /\ x <= lineEnd(chunk, x) /\ lineEnd(chunk, x) + 1 <= m
  BY <1>1, <1>5, BreakAt
<1>7. e \in 1..m /\ x <= e /\ p \in 1..Len(server_sends)
  BY <1>2, <1>5, <1>6
<1>8. server_sends[p].line = n
  <2>1. lineOf(chunk, x) = chunk[e].line
    BY <1>1 DEF lineOf
  <2>2. chunk[e] = server_sends[p]
    BY <1>1, <1>7
  <2> QED
    BY <2>1, <2>2 DEF chunk
<1>9. offset(n - 1) < p /\ p <= offset(n)
  <2> HIDE DEF p
  <2> QED
    BY <1>2, <1>7, <1>8, LineOfByte
<1>10. ~(x < s)
  <2> SUFFICES ASSUME x < s PROVE FALSE
    OBVIOUS
  <2>1. broken(chunk, x) /\ lineEnd(chunk, x) + 2 <= s
    BY <1>1, <1>3, StartsApart DEF chunk
  <2>2. e + 2 <= s
    BY <2>1
  <2> HIDE DEF e
  <2> QED
    BY <1>2, <1>3, <1>4, <1>7, <1>9, <2>2
<1>11. ~(s < x)
  <2> SUFFICES ASSUME s < x PROVE FALSE
    OBVIOUS
  <2> DEFINE le == lineEnd(chunk, s)
  <2>1. le + 2 <= x
    BY <1>1, <1>3, StartsApart DEF chunk
  <2>2. le \in Nat
    BY <1>1, <1>3, BreakAt
  <2>3. taken + le + 1 = offset(n)
    BY <1>3
  <2>4. x \in Nat /\ e \in Nat /\ x <= e
    BY <1>2, <1>5, <1>7
  <2>5. taken \in Nat /\ offset(n) \in Nat /\ taken + e <= offset(n)
    BY <1>2, <1>4, <1>9
  <2> HIDE DEF e, p, le
  <2> QED
    BY <2>1, <2>2, <2>3, <2>4, <2>5, SMTT(30)
<1>12. x = s
  BY <1>3, <1>5, <1>10, <1>11
<1> QED
  BY <1>12 DEF s

LEMMA NotTooMany ==
    ASSUME OnItsWay, NEW m \in 1..Len(wire), NEW n \in 1..Len(lines),
           taken <= offset(n - 1), offset(n) <= taken + m,
           Cardinality({c \in 1..m : /\ SubSeq(wire, 1, m)[c].line < n
                                     /\ SubSeq(wire, 1, m)[c].part = "LF"}) < maxReceivedMsgs
    PROVE  startOf(n) \in receivedMsgs(SubSeq(wire, 1, m))
<1> DEFINE chunk == SubSeq(wire, 1, m)
           s == startOf(n)
           before == {x \in msgStarts(chunk) : x < s}
           ends == {c \in 1..m : chunk[c].line < n /\ chunk[c].part = "LF"}
           endOf == [x \in before |-> lineEnd(chunk, x) + 1]
<1>1. chunk \in Seq(Sent) /\ Len(chunk) = m /\ \A i \in 1..m : chunk[i] = server_sends[taken + i]
  BY ChunkIs
<1>2. /\ lines \in Conversations /\ taken \in Nat /\ m \in Nat /\ Len(server_sends) \in Nat
      /\ taken + m <= Len(server_sends)
  <2>1. Len(wire) \in Nat /\ Len(server_sends) \in Nat
    BY OffsetIs, LenProperties DEF OnItsWay
  <2> QED
    BY <2>1 DEF OnItsWay, taken
<1>3. s \in msgStarts(chunk) /\ s \in Nat /\ taken + s <= offset(n - 1) + 1
  BY LineComesWhole
<1>4. offset(n - 1) \in Nat
  <2>1. n - 1 \in 0..Len(lines)
    BY <1>2, OffsetIs
  <2> QED
    BY <1>2, <2>1, OffsetIs
<1>5. Cardinality(ends) < maxReceivedMsgs /\ maxReceivedMsgs \in Nat
  BY LineDispatchAssumption
<1>6. IsFiniteSet(ends) /\ Cardinality(ends) \in Nat
  <2>1. IsFiniteSet(1..m) /\ ends \in SUBSET (1..m)
    BY <1>2, FS_Interval
  <2> HIDE DEF ends
  <2> QED
    BY <2>1, FS_Subset, FS_CardinalityType
<1> HIDE DEF chunk, s
<1>7. \A x \in msgStarts(chunk) : x \in Nat
  <2>1. \A i \in lineBreaks(chunk) : i \in Nat
    BY <1>1, <1>2 DEF lineBreaks
  <2> QED
    BY <2>1 DEF msgStarts
<1>8. ASSUME NEW x \in before
      PROVE  /\ lineEnd(chunk, x) \in Nat /\ x <= lineEnd(chunk, x) /\ lineEnd(chunk, x) + 2 <= s
             /\ lineEnd(chunk, x) + 1 \in ends
  <2>1. x \in msgStarts(chunk) /\ x \in Nat /\ x < s
    BY <1>7
  <2>2. broken(chunk, x) /\ lineEnd(chunk, x) + 2 <= s
    BY <1>1, <1>3, <2>1, StartsApart
  <2>3. /\ lineEnd(chunk, x) \in lineBreaks(chunk) /\ lineEnd(chunk, x) \in Nat /\ x <= lineEnd(chunk, x)
        /\ lineEnd(chunk, x) + 1 <= Len(chunk)
    BY <1>1, <2>1, <2>2, BreakAt
  <2> DEFINE c == lineEnd(chunk, x) + 1
             p == taken + c
  <2>4. chunk[c].part = "LF"
    BY <2>3 DEF lineBreaks
  <2>5. c \in 1..m /\ p \in 1..Len(server_sends) /\ p <= offset(n - 1)
    <3> DEFINE e == lineEnd(chunk, x)
               o == offset(n - 1)
               all == Len(server_sends)
    <3>1. e \in Nat /\ e + 1 <= m /\ e + 2 <= s /\ s \in Nat
      BY <1>1, <1>3, <2>2, <2>3
    <3>2. o \in Nat /\ taken + s <= o + 1
      BY <1>3, <1>4
    <3>3. all \in Nat /\ taken \in Nat /\ m \in Nat /\ taken + m <= all
      BY <1>2
    <3> HIDE DEF e, o, all
    <3>4. e + 1 \in 1..m /\ taken + (e + 1) \in 1..all /\ taken + (e + 1) <= o
      BY <3>1, <3>2, <3>3
    <3> QED
      BY <3>4 DEF e, o, all
  <2>6. chunk[c] = server_sends[p]
    BY <1>1, <2>5
  <2> HIDE DEF p
  <2>7. server_sends[p].line < n
    BY <1>2, <2>5, LineOfByte
  <2>8. c \in ends
    BY <2>4, <2>5, <2>6, <2>7
  <2> QED
    BY <2>2, <2>3, <2>8
<1>9. ASSUME NEW x \in before, NEW y \in before, x < y PROVE lineEnd(chunk, x) # lineEnd(chunk, y)
  <2>1. lineEnd(chunk, x) + 2 <= y
    BY <1>1, <1>9, StartsApart
  <2>2. lineEnd(chunk, x) \in Nat /\ lineEnd(chunk, y) \in Nat /\ y <= lineEnd(chunk, y) /\ y \in Nat
    BY <1>7, <1>8
  <2> QED
    BY <2>1, <2>2
<1>10. \A x, y \in before : lineEnd(chunk, x) = lineEnd(chunk, y) => x = y
  <2> SUFFICES ASSUME NEW x \in before, NEW y \in before, lineEnd(chunk, x) = lineEnd(chunk, y) PROVE x = y
    OBVIOUS
  <2>1. x \in Nat /\ y \in Nat
    BY <1>7
  <2>2. ~(x < y) /\ ~(y < x)
    BY <1>9
  <2> QED
    BY <2>1, <2>2
<1>11. endOf \in [before -> ends]
  <2> HIDE DEF before, ends
  <2> QED
    BY <1>8
<1>12. \A x, y \in before : endOf[x] = endOf[y] => x = y
  <2>1. \A x \in before : endOf[x] = lineEnd(chunk, x) + 1 /\ lineEnd(chunk, x) \in Nat
    BY <1>8
  <2> HIDE DEF before, endOf
  <2> QED
    BY <1>10, <2>1
<1> HIDE DEF before, ends, endOf
<1>13. endOf \in Injection(before, ends)
  BY <1>11, <1>12 DEF Injection, IsInjective
<1>14. IsFiniteSet(before) /\ Cardinality(before) <= Cardinality(ends) /\ Cardinality(before) \in Nat
  <2>1. IsFiniteSet(before) /\ Cardinality(before) <= Cardinality(ends)
    BY <1>6, <1>13, FS_Injection
  <2> QED
    BY <2>1, FS_CardinalityType
<1>15. Cardinality(before) < maxReceivedMsgs
  BY <1>5, <1>6, <1>14
<1>16. Cardinality({x \in msgStarts(chunk) : x < s}) < maxReceivedMsgs
  BY <1>15 DEF before
<1> QED
  BY <1>3, <1>16 DEF receivedMsgs, chunk, s

(* A step that takes all of a line.                                           *)
LEMMA WholeLineArrives ==
    ASSUME PlainChats, NamedCommands, OnItsWay,
           NEW m \in 1..Len(wire), NEW stale, twitch_dispatch_callbacks(m, stale),
           NEW n \in 1..Len(lines), lines[n].kind = "chat", lines[n].tagged,
           Cardinality({c \in 1..m : SubSeq(wire, 1, m)[c].line = n}) = Len(bytesOf(n)),
           Cardinality({c \in 1..m : /\ SubSeq(wire, 1, m)[c].line < n
                                     /\ SubSeq(wire, 1, m)[c].part = "LF"}) < maxReceivedMsgs
    PROVE  /\ Cardinality({h \in handled' : h.line = n}) = 1
           /\ \E h \in handled' : h.line = n /\ h.msg = whatArrives(lines[n])
<1> DEFINE chunk == SubSeq(wire, 1, m)
           s == startOf(n)
           t == textAt(chunk, s, stale)
           said == lines[n]
           it == [at |-> s, line |-> lineOf(chunk, s), msg |-> read(t)]
<1>1. taken <= offset(n - 1) /\ offset(n) <= taken + m
  BY AllOfIt
<1>2. s \in receivedMsgs(chunk)
  BY <1>1, NotTooMany
<1>3. /\ lineOf(chunk, s) = n
      /\ \E z \in {-1, 0} : Slice(t, textOf(said), z) /\ Len(t) + z = Len(textOf(said))
  BY <1>1, LineComesWhole
<1>4. PICK z \in {-1, 0} : Slice(t, textOf(said), z) /\ Len(t) + z = Len(textOf(said))
  BY <1>3
<1>5. handled' = {[at |-> x, line |-> lineOf(chunk, x), msg |-> read(textAt(chunk, x, stale))] :
                     x \in receivedMsgs(chunk)}
  BY DEF twitch_dispatch_callbacks
<1>6. said \in Chat
  <2>1. lines \in Seq(Said)
    BY LineDispatchAssumption DEF OnItsWay
  <2>2. said \in Said
    BY <2>1, ElementOfSeq
  <2> QED
    BY <2>2 DEF Said, Chat
<1>7. Plain(said) /\ said.cmd # <<>>
  BY DEF PlainChats, NamedCommands, OnItsWay
<1>8. ASSUME NEW x \in receivedMsgs(chunk), lineOf(chunk, x) = n PROVE x = s
  <2>1. x \in msgStarts(chunk)
    BY DEF receivedMsgs
  <2> QED
    BY <1>1, <1>8, <2>1, TakenOnce
<1> HIDE DEF chunk, s, t, said
<1>9. Whole(said, t, z)
  BY <1>4, <1>6, <1>7 DEF Whole, Cut, said
<1>10. read(t) = whatArrives(said)
  BY <1>9, WholeIsRead
<1>11. it \in handled' /\ it.line = n /\ it.msg = whatArrives(said)
  BY <1>2, <1>3, <1>5, <1>10 DEF t
<1>12. \A h \in handled' : h.line = n => h = it
  <2> SUFFICES ASSUME NEW h \in handled', h.line = n PROVE h = it
    OBVIOUS
  <2>1. PICK x \in receivedMsgs(chunk) :
           h = [at |-> x, line |-> lineOf(chunk, x), msg |-> read(textAt(chunk, x, stale))]
    BY <1>5
  <2>2. x = s
    BY <1>8, <2>1
  <2> QED
    BY <2>1, <2>2 DEF t
<1> HIDE DEF it
<1>13. {h \in handled' : h.line = n} = {it}
  BY <1>11, <1>12
<1>14. Cardinality({it}) = 1
  BY FS_Singleton
<1> QED
  BY <1>11, <1>13, <1>14 DEF said

(* Of a plain conversation in which every command has a word, every line with *)
(* its tags that comes whole within one chunk, and is not one too many there, *)
(* is handed on by twitch_dispatch_callbacks, once and with everything: the   *)
(* number append_u64 wrote is the number parse_u64 reads, no role is lost,    *)
(* and neither is any byte of the command or of what stands behind it.        *)
THEOREM AlwaysWholeLinesArrive ==
    ASSUME PlainChats, NamedCommands
    PROVE  Spec => WholeLinesArrive
<1>1. Init => OnItsWay
  BY InitOnItsWay
<1>2. OnItsWay /\ [Next]_vars => OnItsWay'
  <2> SUFFICES ASSUME OnItsWay, [Next]_vars PROVE OnItsWay'
    OBVIOUS
  <2>1. CASE UNCHANGED vars
    <3>1. UNCHANGED <<lines, wire>>
      BY <2>1 DEF vars
    <3>2. server_sends' = server_sends /\ taken' = taken
      BY <3>1 DEF server_sends, bytesOf, taken
    <3> QED
      BY <3>1, <3>2 DEF OnItsWay
  <2>2. ASSUME NEW m \in 1..Len(wire), NEW stale \in {<<>>, <<"stale">>}, twitch_dispatch_callbacks(m, stale)
        PROVE  OnItsWay'
    BY <2>2, StepOnItsWay
  <2> QED
    BY <2>1, <2>2 DEF Next
<1> DEFINE arrives(n) ==
              /\ lines[n].kind = "chat" /\ lines[n].tagged
              /\ Cardinality({c \in 1..Len(chunkTaken) : chunkTaken[c].line = n}) = Len(bytesOf(n))
              /\ Cardinality({c \in 1..Len(chunkTaken) : chunkTaken[c].line < n /\ chunkTaken[c].part = "LF"})
                    < maxReceivedMsgs
              => /\ Cardinality({h \in handled' : h.line = n}) = 1
                 /\ \E h \in handled' : h.line = n /\ h.msg = whatArrives(lines[n])
<1>3. OnItsWay /\ [Next]_vars => [\A n \in 1..Len(lines) : arrives(n)]_vars
  <2> SUFFICES ASSUME OnItsWay, NEW m \in 1..Len(wire), NEW stale \in {<<>>, <<"stale">>},
                      twitch_dispatch_callbacks(m, stale), NEW n \in 1..Len(lines)
               PROVE  arrives(n)
    BY DEF Next
  <2>1. Len(wire) \in Nat /\ wire \in Seq(Sent)
    BY LenProperties DEF OnItsWay
  <2>2. taken' = taken + m /\ server_sends' = server_sends /\ OnItsWay'
    BY StepOnItsWay
  <2>3. Len(wire') = Len(wire) - m /\ Len(wire') \in Nat
    <3>1. Len(server_sends) \in Nat /\ Len(wire') \in Nat
      BY <2>2, OffsetIs, LenProperties DEF OnItsWay
    <3>2. Len(server_sends) - Len(wire') = Len(server_sends) - Len(wire) + m
      BY <2>2 DEF taken
    <3> QED
      BY <2>1, <3>1, <3>2
  <2>4. Len(wire) - Len(wire') = m
    BY <2>1, <2>3
  <2>5. chunkTaken = SubSeq(wire, 1, m) /\ Len(chunkTaken) = m
    BY <2>4, ChunkIs DEF chunkTaken
  <2>6. SUFFICES
          ASSUME lines[n].kind = "chat", lines[n].tagged,
                 Cardinality({c \in 1..Len(chunkTaken) : chunkTaken[c].line = n}) = Len(bytesOf(n)),
                 Cardinality({c \in 1..Len(chunkTaken) : chunkTaken[c].line < n /\ chunkTaken[c].part = "LF"})
                    < maxReceivedMsgs
          PROVE  /\ Cardinality({h \in handled' : h.line = n}) = 1
                 /\ \E h \in handled' : h.line = n /\ h.msg = whatArrives(lines[n])
    OBVIOUS
  <2>7. /\ Cardinality({c \in 1..m : SubSeq(wire, 1, m)[c].line = n}) = Len(bytesOf(n))
        /\ Cardinality({c \in 1..m : /\ SubSeq(wire, 1, m)[c].line < n
                                     /\ SubSeq(wire, 1, m)[c].part = "LF"}) < maxReceivedMsgs
    BY <2>5, <2>6
  <2> QED
    BY <2>6, <2>7, WholeLineArrives
<1> QED
  BY <1>1, <1>2, <1>3, PTL DEF Spec, WholeLinesArrive
=============================================================================
