-------------------------- MODULE ReplyBufferProofs --------------------------
(* Proofs about ReplyBuffer: for names of any length that their buffers hold, *)
(* what the bot says keeps to its buffers.                                    *)
EXTENDS ReplyBuffer, TLAPS, FiniteSetTheorems, SequenceTheorems, WellFoundedInduction

-----------------------------------------------------------------------------
(* How many bytes a number takes.                                             *)

Digit(n) == Digits[(n % 10) + 1]
Ten(n) == n \div 10
Number(n) ==
    IF n < 10 THEN <<Digit(n)>> \o <<>>
    ELSE IF Ten(n) < 10 THEN <<Digit(n)>> \o (<<Digit(Ten(n))>> \o <<>>)
    ELSE IF Ten(Ten(n)) < 10
    THEN <<Digit(n)>> \o (<<Digit(Ten(n))>> \o (<<Digit(Ten(Ten(n)))>> \o <<>>))
    ELSE <<Digit(n)>> \o (<<Digit(Ten(n))>>
                      \o (<<Digit(Ten(Ten(n)))>> \o (<<Digit(Ten(Ten(Ten(n))))>> \o <<>>)))

LEMMA TenIs ==
    ASSUME NEW n \in Nat
    PROVE  Ten(n) \in Nat /\ 10 * Ten(n) <= n /\ n < 10 * Ten(n) + 10
<1>1. \A L \in Nat \ {0} : n \div L \in Nat /\ n % L \in 0..(L - 1) /\ n = L * (n \div L) + (n % L)
  OBVIOUS
<1> DEFINE q == n \div 10
           r == n % 10
<1>2. q \in Nat /\ r \in 0..9 /\ n = 10 * q + r
  BY <1>1
<1>3. Ten(n) = q
  BY DEF Ten
<1> HIDE DEF q, r
<1> QED
  BY <1>2, <1>3

LEMMA NumberUnfolds ==
    ASSUME NEW n \in Nat, n <= 9999
    PROVE  Number(n) = <<Digit(n)>> \o (IF n < 10 THEN <<>> ELSE Number(Ten(n)))
<1>1. Ten(n) \in Nat /\ Ten(n) <= 9999
  BY TenIs
<1>2. Ten(n) < 10 \/ Ten(Ten(n)) < 10 \/ Ten(Ten(Ten(n))) < 10
  <2>1. Ten(n) \in Nat /\ 10 * Ten(n) <= n
    BY TenIs
  <2>2. Ten(Ten(n)) \in Nat /\ 10 * Ten(Ten(n)) <= Ten(n)
    BY <2>1, TenIs
  <2>3. Ten(Ten(Ten(n))) \in Nat /\ 10 * Ten(Ten(Ten(n))) <= Ten(Ten(n))
    BY <2>2, TenIs
  <2> QED
    BY <2>1, <2>2, <2>3
<1>3. CASE n < 10
  BY <1>3 DEF Number
<1>4. CASE ~(n < 10) /\ Ten(n) < 10
  BY <1>4 DEF Number
<1>5. CASE ~(n < 10) /\ ~(Ten(n) < 10) /\ Ten(Ten(n)) < 10
  BY <1>5 DEF Number
<1>6. CASE ~(n < 10) /\ ~(Ten(n) < 10) /\ ~(Ten(Ten(n)) < 10)
  BY <1>2, <1>6 DEF Number
<1> QED
  BY <1>3, <1>4, <1>5, <1>6

Spelt(t, k) == t \in Seq({Digit(n) : n \in Nat}) /\ Len(t) \in 1..k
More(n, t) == <<Digit(n)>> \o t

LEMMA SpeltOne ==
    ASSUME NEW n \in Nat
    PROVE  Spelt(More(n, <<>>), 1)
<1> DEFINE S == {Digit(k) : k \in Nat}
<1>1. <<Digit(n)>> \in Seq(S) /\ Len(<<Digit(n)>>) = 1
  OBVIOUS
<1>2. More(n, <<>>) = <<Digit(n)>>
  <2> HIDE DEF S
  <2> QED
    BY <1>1, ConcatEmptySeq DEF More
<1>3. More(n, <<>>) \in Seq(S) /\ Len(More(n, <<>>)) = 1
  BY <1>1, <1>2, Zenon
<1> QED
  BY <1>3 DEF Spelt

LEMMA SpeltMore ==
    ASSUME NEW n \in Nat, NEW k \in Nat, NEW t, Spelt(t, k)
    PROVE  Spelt(More(n, t), k + 1) /\ Spelt(t, k + 1)
<1> DEFINE S == {Digit(i) : i \in Nat}
<1>1. <<Digit(n)>> \in Seq(S) /\ Len(<<Digit(n)>>) = 1
  OBVIOUS
<1>2. t \in Seq(S) /\ Len(t) \in 1..k
  BY DEF Spelt
<1>3. More(n, t) \in Seq(S) /\ Len(More(n, t)) = 1 + Len(t)
  <2> HIDE DEF S
  <2> QED
    BY <1>1, <1>2, ConcatProperties DEF More
<1> QED
  BY <1>2, <1>3 DEF Spelt

LEMMA SpeltUpToFour ==
    ASSUME NEW n \in Nat, NEW t
    PROVE  /\ Spelt(t, 1) => Spelt(More(n, t), 2) /\ Spelt(t, 2)
           /\ Spelt(t, 2) => Spelt(More(n, t), 3) /\ Spelt(t, 3)
           /\ Spelt(t, 3) => Spelt(More(n, t), 4) /\ Spelt(t, 4)
<1>1. \A k \in Nat : Spelt(t, k) => Spelt(More(n, t), k + 1) /\ Spelt(t, k + 1)
  BY SpeltMore
<1>2. 1 + 1 = 2 /\ 2 + 1 = 3 /\ 3 + 1 = 4
  OBVIOUS
<1> QED
  BY <1>1, <1>2

(* The numbers the bot writes are less than ten thousand.                     *)
LEMMA NumberLength ==
    ASSUME NEW u \in Nat, u <= 9999
    PROVE  /\ Len(append_s64(u)) \in 1..4
           /\ u < 100 => Len(append_s64(u)) \in 1..2
<1> DEFINE body(f, n) == <<Digits[(n % 10) + 1]>> \o (IF n < 10 THEN <<>> ELSE f[n \div 10])
           number == [n \in 0..u |-> Number(n)]
           digits == CHOOSE f : f = [n \in 0..u |-> body(f, n)]
<1>1. number = [n \in 0..u |-> body(number, n)]
  <2> SUFFICES ASSUME NEW n \in 0..u PROVE Number(n) = body(number, n)
    OBVIOUS
  <2>1. n \in Nat /\ n <= 9999
    OBVIOUS
  <2>2. Ten(n) \in 0..u
    BY <2>1, TenIs
  <2>3. number[n \div 10] = Number(Ten(n))
    BY <2>2 DEF Ten
  <2>4. Number(n) = <<Digit(n)>> \o (IF n < 10 THEN <<>> ELSE Number(Ten(n)))
    BY <2>1, NumberUnfolds
  <2> HIDE DEF number
  <2> QED
    BY <2>3, <2>4 DEF Digit
<1>2. digits = [n \in 0..u |-> body(digits, n)]
  <2> HIDE DEF number, body
  <2> QED
    BY <1>1
<1>3. \A n \in 0..u : /\ n < 10 => digits[n] = More(n, <<>>)
                      /\ n >= 10 => digits[n] = More(n, digits[Ten(n)])
  <2> HIDE DEF digits
  <2> SUFFICES ASSUME NEW n \in 0..u
               PROVE  /\ n < 10 => digits[n] = More(n, <<>>)
                      /\ n >= 10 => digits[n] = More(n, digits[Ten(n)])
    OBVIOUS
  <2>1. digits[n] = body(digits, n)
    <3> HIDE DEF body
    <3> QED
      BY <1>2
  <2>2. n \in Nat
    OBVIOUS
  <2>3. CASE n < 10
    <3>1. body(digits, n) = More(n, <<>>)
      BY <2>3 DEF More, Digit
    <3> QED
      BY <2>1, <2>2, <2>3, <3>1
  <2>4. CASE n >= 10
    <3>1. body(digits, n) = More(n, digits[Ten(n)])
      BY <2>2, <2>4 DEF More, Digit, Ten
    <3> QED
      BY <2>1, <2>2, <2>4, <3>1
  <2> QED
    BY <2>2, <2>3, <2>4
<1>4. append_s64(u) = [k \in 1..Len(digits[u]) |-> digits[u][Len(digits[u]) + 1 - k]]
  <2>1. ~(u < 0)
    OBVIOUS
  <2> QED
    BY <2>1 DEF append_s64, append_u64
<1> HIDE DEF digits
<1> DEFINE d == digits[u]
<1>5. \A n \in 0..u : n < 10 => Spelt(digits[n], 1)
  BY <1>3, SpeltOne
<1>6. \A n \in 0..u : n < 100 => Spelt(digits[n], 2)
  <2> SUFFICES ASSUME NEW n \in 0..u, n < 100 PROVE Spelt(digits[n], 2)
    OBVIOUS
  <2>1. n \in Nat /\ Ten(n) \in 0..u /\ Ten(n) < 10
    BY TenIs
  <2>2. CASE n >= 10
    BY <1>3, SpeltUpToFour, <1>5, <2>1, <2>2
  <2> QED
    BY SpeltUpToFour, <1>5, <2>1, <2>2
<1>7. \A n \in 0..u : n < 1000 => Spelt(digits[n], 3)
  <2> SUFFICES ASSUME NEW n \in 0..u, n < 1000 PROVE Spelt(digits[n], 3)
    OBVIOUS
  <2>1. n \in Nat /\ Ten(n) \in 0..u /\ Ten(n) < 100
    BY TenIs
  <2>2. CASE n >= 10
    BY <1>3, SpeltUpToFour, <1>6, <2>1, <2>2
  <2> QED
    BY SpeltUpToFour, <1>6, <2>1, <2>2
<1>8. Spelt(d, 4) /\ (u < 100 => Spelt(d, 2))
  <2>1. Ten(u) \in 0..u /\ Ten(u) < 1000 /\ u \in 0..u
    BY TenIs
  <2>2. CASE u >= 10
    BY <1>3, SpeltUpToFour, <1>6, <1>7, <2>1, <2>2
  <2> QED
    BY SpeltUpToFour, <1>6, <1>7, <2>1, <2>2
<1>9. Len(append_s64(u)) = Len(d)
  <2>1. append_s64(u) = [k \in 1..Len(d) |-> d[Len(d) + 1 - k]] /\ Len(d) \in Nat
    BY <1>4, <1>8 DEF Spelt
  <2> HIDE DEF d
  <2> QED
    BY <2>1
<1> QED
  BY <1>8, <1>9 DEF Spelt

-----------------------------------------------------------------------------
(* What becomes of a String when pieces are appended to it.                   *)

LEMMA LeastExists ==
    ASSUME NEW T \in SUBSET Nat, T # {}
    PROVE  \E n \in T : \A m \in T : n <= m
<1> DEFINE below == {0..n : n \in T}
<1>1. below \subseteq FiniteSubsetsOf(Nat) /\ below # {}
  <2>1. ASSUME NEW n \in T PROVE 0..n \in SUBSET Nat /\ IsFiniteSet(0..n)
    BY FS_Interval
  <2> QED
    BY <2>1 DEF FiniteSubsetsOf
<1>2. \E x \in below : \A y \in below : ~(<<y, x>> \in StrictSubsetOrdering(Nat))
  <2>1. IsWellFoundedOn(StrictSubsetOrdering(Nat), FiniteSubsetsOf(Nat))
    BY FS_StrictSubsetOrderingWellFounded
  <2> HIDE DEF below
  <2> QED
    BY <1>1, <2>1, WFMin
<1>3. PICK n \in T : \A m \in T : <<0..m, 0..n>> \notin StrictSubsetOrdering(Nat)
  BY <1>2
<1>4. ASSUME NEW m \in T, m < n PROVE FALSE
  <2>1. 0..m \subseteq 0..n /\ n \in 0..n /\ n \notin 0..m /\ 0..n \subseteq Nat
    BY <1>4
  <2> QED
    BY <1>3, <2>1 DEF StrictSubsetOrdering
<1> QED
  BY <1>4

(* What holds at 0 and is passed on from each number to the next holds of all *)
(* of them.                                                                   *)
LEMMA Induction ==
    ASSUME NEW N \in Nat, NEW G, 0 \in G,
           \A n \in 1..N : n - 1 \in G => n \in G
    PROVE  0..N \subseteq G
<1> DEFINE T == {n \in 0..N : n \notin G}
<1>1. CASE T = {}
  BY <1>1
<1>2. CASE T # {}
  <2> HIDE DEF T
  <2>0. T \in SUBSET Nat
    BY DEF T
  <2>1. PICK n \in T : \A m \in T : n <= m
    BY <1>2, <2>0, LeastExists
  <2> USE DEF T
  <2>2. n \in 1..N /\ n - 1 \in 0..N /\ n - 1 \notin T
    BY <2>1
  <2> QED
    BY <2>1, <2>2
<1> QED
  BY <1>1, <1>2

LEMMA Appended ==
    ASSUME NEW len \in Nat, NEW n \in Nat
    PROVE  /\ append(len, n) \in Nat
           /\ append(len, n) <= len + n
           /\ len < BufferSize => append(len, n) < BufferSize
  BY ReplyBufferAssumption DEF append, fits

LEMMA LengthsAre ==
    ASSUME NEW len \in Nat, NEW pieces \in Seq(Nat)
    PROVE  /\ lengthsAfter(len, pieces)[0] = len
           /\ \A k \in 1..Len(pieces) :
                 lengthsAfter(len, pieces)[k] = append(lengthsAfter(len, pieces)[k - 1], pieces[k])
<1> DEFINE N == Len(pieces)
           body(f, k) == IF k = 0 THEN len ELSE append(f[k - 1], pieces[k])
           after == CHOOSE f : f = [k \in 0..N |-> body(f, k)]
           begun(f, n) == f \in [0..n -> Nat] /\ \A k \in 0..n : f[k] = body(f, k)
           G == {n \in 0..N : \E f : begun(f, n)}
<1>1. N \in Nat /\ \A k \in 1..N : pieces[k] \in Nat
  OBVIOUS
<1>2. 0 \in G
  <2> DEFINE f == [k \in 0..0 |-> len]
  <2>1. begun(f, 0)
    OBVIOUS
  <2> HIDE DEF begun
  <2> QED
    BY <1>1, <2>1
<1>3. ASSUME NEW n \in 1..N, n - 1 \in G
      PROVE  n \in G
  <2>1. PICK f : begun(f, n - 1)
    BY <1>3
  <2> DEFINE g == [k \in 0..n |-> IF k = n THEN append(f[n - 1], pieces[n]) ELSE f[k]]
  <2>2. n \in Nat /\ n - 1 \in 0..(n - 1) /\ f[n - 1] \in Nat
    BY <1>1, <2>1
  <2>3. append(f[n - 1], pieces[n]) \in Nat
    BY <1>1, <2>2, Appended
  <2>4. g \in [0..n -> Nat]
    BY <2>1, <2>2, <2>3
  <2>5. ASSUME NEW k \in 0..n PROVE g[k] = body(g, k)
    <3>1. CASE k = n
      BY <2>2, <3>1
    <3>2. CASE k # n
      <4>1. k \in 0..(n - 1) /\ (k # 0 => k - 1 \in 0..(n - 1) /\ k - 1 # n)
        BY <2>2, <3>2
      <4> QED
        BY <2>1, <2>2, <3>2, <4>1
    <3> QED
      BY <3>1, <3>2
  <2>6. begun(g, n)
    BY <2>4, <2>5
  <2> HIDE DEF begun
  <2> QED
    BY <1>1, <2>6
<1>4. PICK f : begun(f, N)
  <2> HIDE DEF G
  <2>0. \A n \in 1..N : n - 1 \in G => n \in G
    BY <1>3
  <2>1. 0..N \subseteq G
    BY <1>1, <1>2, <2>0, Induction
  <2>2. N \in G
    BY <1>1, <2>1
  <2> USE DEF G
  <2> HIDE DEF begun
  <2> QED
    BY <2>2
<1>5. f = [k \in 0..N |-> body(f, k)]
  BY <1>4
<1>6. after = [k \in 0..N |-> body(after, k)]
  <2> HIDE DEF body
  <2> QED
    BY <1>5
<1>7. lengthsAfter(len, pieces) = after
  BY DEF lengthsAfter
<1> HIDE DEF after
<1>8. \A k \in 0..N : after[k] = body(after, k)
  <2> HIDE DEF body
  <2> QED
    BY <1>6
<1> QED
  BY <1>1, <1>7, <1>8

(* A String never outgrows its buffer.                                        *)
LEMMA StringHasRoom ==
    ASSUME NEW len \in Nat, NEW pieces \in Seq(Nat)
    PROVE  \A k \in 0..Len(pieces) :
              /\ lengthsAfter(len, pieces)[k] \in Nat
              /\ len < BufferSize => lengthsAfter(len, pieces)[k] < BufferSize
<1> DEFINE N == Len(pieces)
           after == lengthsAfter(len, pieces)
           G == {k \in 0..N : after[k] \in Nat /\ (len < BufferSize => after[k] < BufferSize)}
<1>1. N \in Nat /\ \A k \in 1..N : pieces[k] \in Nat
  OBVIOUS
<1>2. after[0] = len /\ \A k \in 1..N : after[k] = append(after[k - 1], pieces[k])
  BY LengthsAre
<1> HIDE DEF after
<1>3. 0 \in G
  BY <1>1, <1>2
<1>4. \A k \in 1..N : k - 1 \in G => k \in G
  <2> SUFFICES ASSUME NEW k \in 1..N, k - 1 \in G PROVE k \in G
    OBVIOUS
  <2>1. after[k - 1] \in Nat /\ (len < BufferSize => after[k - 1] < BufferSize)
    OBVIOUS
  <2>2. after[k] \in Nat /\ (len < BufferSize => after[k] < BufferSize)
    BY <1>1, <1>2, <2>1, Appended
  <2> QED
    BY <1>1, <2>2
<1>5. 0..N \subseteq G
  <2> HIDE DEF G
  <2> QED
    BY <1>1, <1>3, <1>4, Induction
<1> QED
  BY <1>5 DEF after

(* The sums of pieces bound the lengths, and pieces whose sums the buffer can *)
(* hold all get into it.                                                      *)
LEMMA WithinSums ==
    ASSUME NEW len \in Nat, NEW pieces \in Seq(Nat), NEW sums \in Seq(Nat),
           Len(sums) = Len(pieces), Len(pieces) > 0,
           len + pieces[1] <= sums[1],
           \A k \in 2..Len(pieces) : sums[k - 1] + pieces[k] <= sums[k]
    PROVE  /\ appendAll(len, pieces) \in Nat
           /\ appendAll(len, pieces) <= sums[Len(pieces)]
           /\ (\A k \in 1..Len(sums) : sums[k] < BufferSize) => allFit(len, pieces)
<1> DEFINE N == Len(pieces)
           after == lengthsAfter(len, pieces)
           G == {k \in 0..N : IF k = 0 THEN after[k] = len ELSE after[k] <= sums[k]}
<1>1. /\ N \in Nat /\ \A k \in 1..N : pieces[k] \in Nat /\ sums[k] \in Nat
      /\ BufferSize \in Nat
  <2>1. N \in Nat /\ \A k \in 1..N : pieces[k] \in Nat
    OBVIOUS
  <2>2. \A k \in 1..Len(sums) : sums[k] \in Nat
    OBVIOUS
  <2> QED
    BY <2>1, <2>2, ReplyBufferAssumption
<1>2. after[0] = len /\ \A k \in 1..N : after[k] = append(after[k - 1], pieces[k])
  BY LengthsAre
<1>3. \A k \in 0..N : after[k] \in Nat
  BY StringHasRoom
<1> HIDE DEF after
<1>4. 0 \in G
  BY <1>1, <1>2
<1>5. \A k \in 1..N : k - 1 \in G => k \in G
  <2> SUFFICES ASSUME NEW k \in 1..N, k - 1 \in G PROVE k \in G
    OBVIOUS
  <2>1. k - 1 \in 0..N /\ after[k - 1] \in Nat /\ pieces[k] \in Nat /\ after[k] \in Nat
    BY <1>1, <1>3
  <2>2. after[k] <= after[k - 1] + pieces[k]
    BY <1>2, <2>1, Appended
  <2>3. CASE k = 1
    BY <1>1, <2>1, <2>2, <2>3
  <2>4. CASE k # 1
    <3>1. k \in 2..N /\ k - 1 # 0 /\ k - 1 \in 1..N
      BY <1>1, <2>4
    <3>2. after[k - 1] <= sums[k - 1] /\ sums[k - 1] + pieces[k] <= sums[k]
      BY <3>1
    <3>3. sums[k - 1] \in Nat /\ sums[k] \in Nat
      BY <1>1, <3>1
    <3>4. after[k] <= sums[k]
      <4>1. \A a, b, c, d, e \in Nat : a <= b + c /\ b <= d /\ d + c <= e => a <= e
        OBVIOUS
      <4> QED
        BY <2>1, <2>2, <3>2, <3>3, <4>1
    <3>5. k \in 0..N /\ k # 0
      BY <1>1
    <3> HIDE DEF N
    <3> QED
      BY <3>4, <3>5
  <2> QED
    BY <2>3, <2>4
<1>6. 0..N \subseteq G
  <2> HIDE DEF G
  <2> QED
    BY <1>1, <1>4, <1>5, Induction
<1>7. \A k \in 1..N : after[k] <= sums[k]
  BY <1>1, <1>6
<1>8. appendAll(len, pieces) = after[N]
  BY DEF appendAll, after
<1>9. ASSUME \A k \in 1..Len(sums) : sums[k] < BufferSize
      PROVE  allFit(len, pieces)
  <2> SUFFICES ASSUME NEW k \in 1..N PROVE fits(after[k - 1], pieces[k])
    BY DEF allFit, after
  <2>1. k - 1 \in 0..N /\ after[k - 1] \in Nat /\ pieces[k] \in Nat /\ sums[k] < BufferSize
    BY <1>1, <1>3, <1>9
  <2>2. after[k - 1] + pieces[k] <= sums[k]
    <3>1. CASE k = 1
      BY <1>2, <3>1
    <3>2. CASE k # 1
      <4>1. k \in 2..N /\ k - 1 \in 1..N
        BY <1>1, <3>2
      <4>2. after[k - 1] <= sums[k - 1] /\ sums[k - 1] + pieces[k] <= sums[k]
        BY <1>7, <4>1
      <4>3. sums[k - 1] \in Nat /\ sums[k] \in Nat
        BY <1>1, <4>1
      <4>4. \A a, b, c, d \in Nat : a <= b /\ b + c <= d => a + c <= d
        OBVIOUS
      <4> QED
        BY <2>1, <4>2, <4>3, <4>4
    <3> QED
      BY <3>1, <3>2
  <2>3. \A a, b, c, d \in Nat : a + b <= c /\ c < d => a + b < d
    OBVIOUS
  <2>4. sums[k] \in Nat /\ BufferSize \in Nat
    BY <1>1
  <2> QED
    BY <2>1, <2>2, <2>3, <2>4 DEF fits
<1> QED
  BY <1>1, <1>3, <1>7, <1>8, <1>9

-----------------------------------------------------------------------------
(* The replies whose length does not depend on what a viewer writes.          *)

Longest == 192   \* the longest of the fixed texts

(* Names are in buffers of 32 bytes, of which one is the NULL, and the line   *)
(* holds the longest text together with what makes it a message.              *)
LinesHold ==
    /\ \A n \in NameLengths \cup LeaderLengths : n <= 31
    /\ ChannelLength + Longest + 13 < BufferSize
    /\ ojMaxQueueLength <= 9999

Short(pieces) ==
    /\ pieces \in Seq(Nat)
    /\ allFit(0, pieces)
    /\ appendAll(0, pieces) \in 0..Longest

LEMMA LongestFits ==
    ASSUME LinesHold
    PROVE  BufferSize \in Nat /\ ChannelLength \in Nat /\ Longest < BufferSize
  BY ReplyBufferAssumption DEF LinesHold, Longest

SumsFit(pieces, sums, n) ==
    /\ n \in Nat \ {0}
    /\ pieces \in Seq(Nat) /\ Len(pieces) = n
    /\ sums \in Seq(Nat) /\ Len(sums) = n
    /\ 0 + pieces[1] <= sums[1] /\ sums[n] <= Longest
    /\ \A k \in 2..n : sums[k - 1] + pieces[k] <= sums[k]
    /\ \A k \in 1..n : sums[k] < BufferSize

LEMMA ShortIs ==
    ASSUME NEW n, NEW pieces, NEW sums, SumsFit(pieces, sums, n)
    PROVE  Short(pieces)
<1> USE DEF SumsFit
<1>1. sums[n] \in Nat
  <2>1. n \in 1..Len(sums)
    OBVIOUS
  <2> QED
    BY <2>1, ElementOfSeq
<1>2. /\ appendAll(0, pieces) \in Nat
      /\ appendAll(0, pieces) <= sums[Len(pieces)]
      /\ (\A k \in 1..Len(sums) : sums[k] < BufferSize) => allFit(0, pieces)
  <2>1. Len(sums) = Len(pieces) /\ Len(pieces) > 0
    OBVIOUS
  <2>2. \A k \in 2..Len(pieces) : sums[k - 1] + pieces[k] <= sums[k]
    OBVIOUS
  <2>3. 0 + pieces[1] <= sums[1] /\ 0 \in Nat
    OBVIOUS
  <2> QED
    BY <2>1, <2>2, <2>3, WithinSums
<1>3. allFit(0, pieces)
  BY <1>2
<1>4. sums[Len(pieces)] = sums[n]
  OBVIOUS
<1>5. appendAll(0, pieces) \in 0..Longest
  <2>1. \A a, b \in Nat : a <= b /\ b <= Longest => a \in 0..Longest
    BY DEF Longest
  <2>2. sums[n] <= Longest
    OBVIOUS
  <2> HIDE DEF SumsFit
  <2> QED
    BY <1>1, <1>2, <1>4, <2>1, <2>2
<1>6. pieces \in Seq(Nat)
  OBVIOUS
<1> HIDE DEF SumsFit
<1> QED
  BY <1>3, <1>5, <1>6 DEF Short

LEMMA Short1 ==
    ASSUME LinesHold, NEW a \in Nat,
           a <= Longest
    PROVE  Short(<<a>>)
<1> DEFINE pieces == <<a>>
           sums == <<a>>
<1>1. BufferSize \in Nat /\ Longest < BufferSize
  BY LongestFits
<1>2. pieces \in Seq(Nat) /\ sums \in Seq(Nat) /\ Len(pieces) = 1 /\ Len(sums) = 1
  OBVIOUS
<1>3. 0 + pieces[1] <= sums[1] /\ sums[1] <= Longest
  BY DEF Longest
<1>4. \A k \in 2..1 : sums[k - 1] + pieces[k] <= sums[k]
  OBVIOUS
<1>5. \A k \in 1..1 : sums[k] < BufferSize
  BY <1>1 DEF Longest
<1> HIDE DEF pieces, sums
<1>6. Short(pieces)
  <2>1. SumsFit(pieces, sums, Len(pieces))
    BY <1>2, <1>3, <1>4, <1>5 DEF SumsFit
  <2> QED
    BY <2>1, ShortIs
<1> QED
  BY <1>6 DEF pieces

LEMMA Short3 ==
    ASSUME LinesHold, NEW a \in Nat, NEW b \in Nat, NEW c \in Nat,
           a + b + c <= Longest
    PROVE  Short(<<a, b, c>>)
<1> DEFINE pieces == <<a, b, c>>
           sums == <<a, a + b, a + b + c>>
<1>1. BufferSize \in Nat /\ Longest < BufferSize
  BY LongestFits
<1>2. pieces \in Seq(Nat) /\ sums \in Seq(Nat) /\ Len(pieces) = 3 /\ Len(sums) = 3
  OBVIOUS
<1>3. 0 + pieces[1] <= sums[1] /\ sums[3] <= Longest
  BY DEF Longest
<1>4. \A k \in 2..3 : sums[k - 1] + pieces[k] <= sums[k]
  OBVIOUS
<1>5. \A k \in 1..3 : sums[k] < BufferSize
  BY <1>1 DEF Longest
<1> HIDE DEF pieces, sums
<1>6. Short(pieces)
  <2>1. SumsFit(pieces, sums, Len(pieces))
    BY <1>2, <1>3, <1>4, <1>5 DEF SumsFit
  <2> QED
    BY <2>1, ShortIs
<1> QED
  BY <1>6 DEF pieces

LEMMA Short4 ==
    ASSUME LinesHold, NEW a \in Nat, NEW b \in Nat, NEW c \in Nat, NEW d \in Nat,
           a + b + c + d <= Longest
    PROVE  Short(<<a, b, c, d>>)
<1> DEFINE pieces == <<a, b, c, d>>
           sums == <<a, a + b, a + b + c, a + b + c + d>>
<1>1. BufferSize \in Nat /\ Longest < BufferSize
  BY LongestFits
<1>2. pieces \in Seq(Nat) /\ sums \in Seq(Nat) /\ Len(pieces) = 4 /\ Len(sums) = 4
  OBVIOUS
<1>3. 0 + pieces[1] <= sums[1] /\ sums[4] <= Longest
  BY DEF Longest
<1>4. \A k \in 2..4 : sums[k - 1] + pieces[k] <= sums[k]
  OBVIOUS
<1>5. \A k \in 1..4 : sums[k] < BufferSize
  BY <1>1 DEF Longest
<1> HIDE DEF pieces, sums
<1>6. Short(pieces)
  <2>1. SumsFit(pieces, sums, Len(pieces))
    BY <1>2, <1>3, <1>4, <1>5 DEF SumsFit
  <2> QED
    BY <2>1, ShortIs
<1> QED
  BY <1>6 DEF pieces

LEMMA Short5 ==
    ASSUME LinesHold, NEW a \in Nat, NEW b \in Nat, NEW c \in Nat, NEW d \in Nat, NEW e \in Nat,
           a + b + c + d + e <= Longest
    PROVE  Short(<<a, b, c, d, e>>)
<1> DEFINE pieces == <<a, b, c, d, e>>
           sums == <<a, a + b, a + b + c, a + b + c + d, a + b + c + d + e>>
<1>1. BufferSize \in Nat /\ Longest < BufferSize
  BY LongestFits
<1>2. pieces \in Seq(Nat) /\ sums \in Seq(Nat) /\ Len(pieces) = 5 /\ Len(sums) = 5
  OBVIOUS
<1>3. 0 + pieces[1] <= sums[1] /\ sums[5] <= Longest
  BY DEF Longest
<1>4. \A k \in 2..5 : sums[k - 1] + pieces[k] <= sums[k]
  OBVIOUS
<1>5. \A k \in 1..5 : sums[k] < BufferSize
  BY <1>1 DEF Longest
<1> HIDE DEF pieces, sums
<1>6. Short(pieces)
  <2>1. SumsFit(pieces, sums, Len(pieces))
    BY <1>2, <1>3, <1>4, <1>5 DEF SumsFit
  <2> QED
    BY <2>1, ShortIs
<1> QED
  BY <1>6 DEF pieces

LEMMA Short7 ==
    ASSUME LinesHold, NEW a \in Nat, NEW b \in Nat, NEW c \in Nat, NEW d \in Nat, NEW e \in Nat, NEW f \in Nat, NEW g \in Nat,
           a + b + c + d + e + f + g <= Longest
    PROVE  Short(<<a, b, c, d, e, f, g>>)
<1> DEFINE pieces == <<a, b, c, d, e, f, g>>
           sums == <<a, a + b, a + b + c, a + b + c + d, a + b + c + d + e, a + b + c + d + e + f, a + b + c + d + e + f + g>>
<1>1. BufferSize \in Nat /\ Longest < BufferSize
  BY LongestFits
<1>2. pieces \in Seq(Nat) /\ sums \in Seq(Nat) /\ Len(pieces) = 7 /\ Len(sums) = 7
  OBVIOUS
<1>3. 0 + pieces[1] <= sums[1] /\ sums[7] <= Longest
  BY DEF Longest
<1>4. \A k \in 2..7 : sums[k - 1] + pieces[k] <= sums[k]
  OBVIOUS
<1>5. \A k \in 1..7 : sums[k] < BufferSize
  BY <1>1 DEF Longest
<1> HIDE DEF pieces, sums
<1>6. Short(pieces)
  <2>1. SumsFit(pieces, sums, Len(pieces))
    BY <1>2, <1>3, <1>4, <1>5 DEF SumsFit
  <2> QED
    BY <2>1, ShortIs
<1> QED
  BY <1>6 DEF pieces

LEMMA Short9 ==
    ASSUME LinesHold, NEW a \in Nat, NEW b \in Nat, NEW c \in Nat, NEW d \in Nat, NEW e \in Nat, NEW f \in Nat, NEW g \in Nat, NEW h \in Nat, NEW i \in Nat,
           a + b + c + d + e + f + g + h + i <= Longest
    PROVE  Short(<<a, b, c, d, e, f, g, h, i>>)
<1> DEFINE pieces == <<a, b, c, d, e, f, g, h, i>>
           sums == <<a, a + b, a + b + c, a + b + c + d, a + b + c + d + e, a + b + c + d + e + f, a + b + c + d + e + f + g, a + b + c + d + e + f + g + h, a + b + c + d + e + f + g + h + i>>
<1>1. BufferSize \in Nat /\ Longest < BufferSize
  BY LongestFits
<1>2. pieces \in Seq(Nat) /\ sums \in Seq(Nat) /\ Len(pieces) = 9 /\ Len(sums) = 9
  OBVIOUS
<1>3. 0 + pieces[1] <= sums[1] /\ sums[9] <= Longest
  BY DEF Longest
<1>4. \A k \in 2..9 : sums[k - 1] + pieces[k] <= sums[k]
  OBVIOUS
<1>5. \A k \in 1..9 : sums[k] < BufferSize
  BY <1>1 DEF Longest
<1> HIDE DEF pieces, sums
<1>6. Short(pieces)
  <2>1. SumsFit(pieces, sums, Len(pieces))
    BY <1>2, <1>3, <1>4, <1>5 DEF SumsFit
  <2> QED
    BY <2>1, ShortIs
<1> QED
  BY <1>6 DEF pieces

Led(rolled, l) == rolled \o <<16, l>>

LEMMA LedIs ==
    ASSUME NEW a \in Nat, NEW b \in Nat, NEW c \in Nat, NEW d \in Nat, NEW e \in Nat,
           NEW g \in Nat
    PROVE  Led(<<a, b, c, d, e>>, g) = <<a, b, c, d, e, 16, g>>
<1> DEFINE front == <<a, b, c, d, e>>
           last == <<16, g>>
           all == <<a, b, c, d, e, 16, g>>
<1>1. /\ front \in Seq(Nat) /\ Len(front) = 5 /\ last \in Seq(Nat) /\ Len(last) = 2
      /\ all \in Seq(Nat) /\ Len(all) = 7
  OBVIOUS
<1>2. /\ \A i \in 1..5 : all[i] = front[i]
      /\ \A i \in 6..7 : all[i] = last[i - 5]
  OBVIOUS
<1> HIDE DEF front, last, all
<1> DEFINE both == front \o last
<1>3. /\ both \in Seq(Nat)
      /\ Len(both) = Len(front) + Len(last)
      /\ \A i \in 1..Len(front) + Len(last) :
            both[i] = IF i <= Len(front) THEN front[i] ELSE last[i - Len(front)]
  BY <1>1, ConcatProperties
<1> HIDE DEF both
<1>4. both \in Seq(Nat) /\ Len(both) = 7 /\ \A i \in 1..7 : both[i] = all[i]
  <2>1. both \in Seq(Nat) /\ Len(both) = 7
    BY <1>1, <1>3
  <2>2. \A i \in 1..7 : both[i] = IF i <= 5 THEN front[i] ELSE last[i - 5]
    BY <1>1, <1>3
  <2>3. ASSUME NEW i \in 1..7 PROVE both[i] = all[i]
    <3>1. CASE i <= 5
      BY <1>2, <2>2, <3>1
    <3>2. CASE i > 5
      BY <1>2, <2>2, <3>2
    <3> QED
      BY <3>1, <3>2
  <2> QED
    BY <2>1, <2>3
<1>5. both = all
  BY <1>1, <1>4, SeqEqual
<1> QED
  BY <1>5 DEF both, front, last, all, Led

(* What an answer is put together from, but for the one to !remove.           *)
LEMMA RepliesAreShort ==
    ASSUME LinesHold, NEW kind \in ReplyKinds \ {"removed"}, NEW pieces \in Pieces(kind)
    PROVE  Short(pieces)
<1>1. /\ \A n \in NameLengths : n \in Nat /\ n <= 31
      /\ \A l \in LeaderLengths : l \in Nat /\ l <= 31
  BY ReplyBufferAssumption DEF LinesHold
<1>2. \A digits \in PositionDigits : digits \in Nat /\ digits <= 4
  <2> SUFFICES ASSUME NEW position \in 0..ojMaxQueueLength
               PROVE  Len(append_s64(position)) \in Nat /\ Len(append_s64(position)) <= 4
    BY DEF PositionDigits
  <2>1. position \in Nat /\ position <= 9999
    BY ReplyBufferAssumption DEF LinesHold
  <2>2. Len(append_s64(position)) \in 1..4
    BY <2>1, NumberLength
  <2>3. \A k \in 1..4 : k \in Nat /\ k <= 4
    OBVIOUS
  <2> QED
    BY <2>2, <2>3, Zenon
<1>3. \A digits \in ShareDigits : digits \in Nat /\ digits <= 4
  <2> SUFFICES ASSUME NEW digits \in ShareDigits PROVE digits \in Nat /\ digits <= 4
    OBVIOUS
  <2> DEFINE Winners == 1..1024
             length_of(w) == Len(append_s64(1000 \div w))
  <2>1. ShareDigits = {length_of(w) : w \in Winners}
    BY DEF ShareDigits
  <2>2. ASSUME NEW w \in Winners PROVE length_of(w) \in 1..4
    <3>1. 1000 \div w \in Nat /\ 1000 \div w <= 9999
      OBVIOUS
    <3> QED
      BY <3>1, NumberLength
  <2> HIDE DEF Winners, length_of
  <2>3. digits \in 1..4
    BY <2>1, <2>2
  <2> QED
    BY <2>3
<1> USE DEF Longest
<1>4. CASE kind = "fixed"
  <2>1. pieces \in Fixed
    BY <1>4 DEF Pieces
  <2> QED
    BY <2>1, Short1 DEF Fixed
<1>5. ASSUME NEW n \in NameLengths, pieces \in Named(n)
      PROVE  Short(pieces)
  <2>1. CASE \E m \in {23, 108, 66, 49} : pieces = <<5, n, m>>
    BY <1>1, <2>1, Short3
  <2>2. CASE \E digits \in PositionDigits : pieces = <<5, n, 21, digits, 14>>
    BY <1>1, <1>2, <2>2, Short5
  <2> QED
    BY <1>5, <2>1, <2>2 DEF Named
<1>6. CASE kind = "named"
  BY <1>5, <1>6 DEF Pieces
<1>7. ASSUME NEW n \in NameLengths, pieces \in Rolled(n)
      PROVE  Short(pieces)
  BY <1>1, <1>7, Short5 DEF Rolled
<1>8. CASE kind = "rolled"
  BY <1>7, <1>8 DEF Pieces
<1>9. CASE kind = "rolled_led"
  <2>1. PICK rolled \in UNION {Rolled(n) : n \in NameLengths}, l \in LeaderLengths :
            pieces = Led(rolled, l)
    <3>1. Pieces(kind) = {Led(rolled, l) :
                             rolled \in UNION {Rolled(n) : n \in NameLengths}, l \in LeaderLengths}
      BY <1>9 DEF Pieces, Led
    <3> QED
      BY <3>1
  <2>2. PICK n \in NameLengths : rolled \in Rolled(n)
    BY <2>1
  <2>3. n \in Nat /\ n <= 31 /\ l \in Nat /\ l <= 31
    BY <1>1
  <2>4. 5 \in Nat /\ 25 \in Nat /\ 17 \in Nat /\ 16 \in Nat /\ 1 \in Nat /\ 2 \in Nat
    OBVIOUS
  <2>5. CASE rolled = <<5, n, 25, 1, 16>>
    <3>1. Led(rolled, l) = <<5, n, 25, 1, 16, 16, l>>
      <4>1. Led(<<5, n, 25, 1, 16>>, l) = <<5, n, 25, 1, 16, 16, l>>
        BY <2>3, <2>4, LedIs
      <4> QED
        BY <2>5, <4>1, Zenon
    <3>2. 5 + n + 25 + 1 + 16 + 16 + l <= Longest
      BY <2>3
    <3>3. Short(<<5, n, 25, 1, 16, 16, l>>)
      BY <2>3, <2>4, <3>2, Short7
    <3> QED
      BY <2>1, <3>1, <3>3, Zenon
  <2>6. CASE rolled = <<5, n, 17, 1, 2>>
    <3>1. Led(rolled, l) = <<5, n, 17, 1, 2, 16, l>>
      <4>1. Led(<<5, n, 17, 1, 2>>, l) = <<5, n, 17, 1, 2, 16, l>>
        BY <2>3, <2>4, LedIs
      <4> QED
        BY <2>6, <4>1, Zenon
    <3>2. 5 + n + 17 + 1 + 2 + 16 + l <= Longest
      BY <2>3
    <3>3. Short(<<5, n, 17, 1, 2, 16, l>>)
      BY <2>3, <2>4, <3>2, Short7
    <3> QED
      BY <2>1, <3>1, <3>3, Zenon
  <2> QED
    BY <2>2, <2>5, <2>6 DEF Rolled
<1>10. CASE kind = "teams"
  <2>1. pieces \in Teams
    BY <1>10 DEF Pieces
  <2>2. PICK a, b, c, d \in LeaderLengths : pieces = <<17, 5, a, 5, b, 5, c, 5, d>>
    BY <2>1 DEF Teams
  <2>3. /\ a \in Nat /\ b \in Nat /\ c \in Nat /\ d \in Nat
        /\ 17 + 5 + a + 5 + b + 5 + c + 5 + d <= Longest
    BY <1>1
  <2> QED
    BY <2>2, <2>3, Short9
<1>11. CASE kind = "payout_leader"
  <2>1. PICK l \in LeaderLengths : pieces = <<12, l, 5>>
    BY <1>11 DEF Pieces
  <2> QED
    BY <1>1, <2>1, Short3
<1>12. CASE kind = "payout"
  <2>1. PICK n \in NameLengths, digits \in ShareDigits : pieces = <<12, n, 1, digits>>
    BY <1>12 DEF Pieces
  <2> QED
    BY <1>1, <1>3, <2>1, Short4
<1>13. CASE kind = "up_next"
  <2>1. PICK n \in NameLengths : pieces = <<5, n, 87>>
    BY <1>13 DEF Pieces
  <2> QED
    BY <1>1, <2>1, Short3
<1> QED
  BY <1>4, <1>6, <1>8, <1>9, <1>10, <1>11, <1>12, <1>13 DEF ReplyKinds
-----------------------------------------------------------------------------
(* The line made of a reply.                                                  *)

LEMMA ShortLine ==
    ASSUME LinesHold, NEW len \in 0..Longest
    PROVE  allFit(0, formatted(len)) /\ breakFits(len)
<1> DEFINE pieces == formatted(len)
           C == ChannelLength
           sums == <<9, 9 + C, 11 + C, 11 + C + len, 13 + C + len>>
<1>1. /\ BufferSize \in Nat /\ C \in Nat /\ len \in Nat /\ len <= 192
      /\ C + 192 + 13 < BufferSize
  BY ReplyBufferAssumption DEF LinesHold, Longest
<1> HIDE DEF C
<1>2. /\ pieces \in Seq(Nat) /\ sums \in Seq(Nat) /\ Len(pieces) = 5 /\ Len(sums) = 5
      /\ pieces[5] = 2
  BY <1>1 DEF formatted, C
<1>3. 0 + pieces[1] <= sums[1]
  BY <1>1 DEF formatted
<1>4. \A k \in 2..5 : sums[k - 1] + pieces[k] <= sums[k]
  BY <1>1 DEF formatted, C
<1>5. \A k \in 1..5 : sums[k] < BufferSize
  BY <1>1
<1> HIDE DEF pieces, sums
<1>6. allFit(0, pieces)
  <2>1. Len(sums) = Len(pieces) /\ Len(pieces) > 0 /\ 0 \in Nat
    BY <1>2
  <2>2. \A k \in 2..Len(pieces) : sums[k - 1] + pieces[k] <= sums[k]
    BY <1>2, <1>4
  <2>3. \A k \in 1..Len(sums) : sums[k] < BufferSize
    BY <1>2, <1>5
  <2> QED
    BY <1>2, <1>3, <2>1, <2>2, <2>3, WithinSums
<1>7. fits(lengthsAfter(0, pieces)[4], 2)
  <2>1. 5 \in 1..Len(pieces) /\ 5 - 1 = 4
    BY <1>2
  <2>2. fits(lengthsAfter(0, pieces)[5 - 1], pieces[5])
    BY <1>6, <2>1 DEF allFit
  <2> QED
    BY <1>2, <2>1, <2>2
<1> QED
  BY <1>6, <1>7 DEF breakFits, pieces

-----------------------------------------------------------------------------
(* The invariants, which are inductive together.                              *)

Ready ==
    /\ length \in 0..(BufferSize - 1)
    /\ listing \in 0..ojMaxQueueLength
    /\ line.kind \in ReplyKinds \cup {"none", "listing"} /\ line.whole \in BOOLEAN
    /\ ShortRepliesAreWhole

LEMMA PiecesAreNumbers ==
    ASSUME NEW kind \in ReplyKinds, LinesHold, NEW pieces \in Pieces(kind)
    PROVE  pieces \in Seq(Nat)
<1>1. CASE kind = "removed"
  <2>1. PICK n \in TextLengths : pieces = <<4, n, 41>>
    BY <1>1 DEF Pieces
  <2> QED
    BY <2>1, ReplyBufferAssumption
<1>2. CASE kind # "removed"
  BY <1>2, RepliesAreShort DEF Short
<1> QED
  BY <1>1, <1>2

LEMMA AppendAllHasRoom ==
    ASSUME NEW len \in 0..(BufferSize - 1), NEW pieces \in Seq(Nat)
    PROVE  appendAll(len, pieces) \in 0..(BufferSize - 1)
<1>1. BufferSize \in Nat /\ len \in Nat /\ len < BufferSize
  BY ReplyBufferAssumption
<1>2. Len(pieces) \in 0..Len(pieces)
  OBVIOUS
<1>3. appendAll(len, pieces) \in Nat /\ appendAll(len, pieces) < BufferSize
  BY <1>1, <1>2, StringHasRoom DEF appendAll
<1> QED
  BY <1>1, <1>3

LEMMA StartIsEmpty == \A kind : startOf(kind) = 0
  BY DEF startOf, string_clear

LEMMA EntryIs ==
    ASSUME NEW n \in NameLengths, listing \in Nat, listing < ojMaxQueueLength,
           ojMaxQueueLength <= 9999
    PROVE  /\ entry(n) \in Seq(Nat) /\ Len(entry(n)) = 4
           /\ n \in Nat
           /\ entry(n)[1] \in Nat /\ entry(n)[2] = 2 /\ entry(n)[3] = n /\ entry(n)[4] = 1
           /\ ojMaxQueueLength < 100 => entry(n)[1] <= 2
<1> DEFINE digits == Len(append_s64(listing + 1))
<1>1. listing + 1 \in Nat /\ listing + 1 <= 9999 /\ n \in Nat
  BY ReplyBufferAssumption
<1>2. digits \in 1..4 /\ (listing + 1 < 100 => digits \in 1..2)
  BY <1>1, NumberLength
<1> HIDE DEF digits
<1>3. entry(n) = <<digits, 2, n, 1>>
  BY DEF entry, digits
<1>4. digits \in Nat
  BY <1>2
<1>5. ojMaxQueueLength < 100 => digits <= 2
  BY <1>1, <1>2, ReplyBufferAssumption
<1> QED
  BY <1>1, <1>3, <1>4, <1>5

LEMMA NextReady ==
    ASSUME LinesHold, Ready, [Next]_vars
    PROVE  Ready'
<1>1. ojMaxQueueLength \in Nat /\ ojMaxQueueLength <= 9999 /\ BufferSize \in Nat \ {0}
  BY ReplyBufferAssumption DEF LinesHold
<1>2. ASSUME NEW kind \in ReplyKinds, reply(kind)
      PROVE  Ready'
  <2>1. PICK pieces \in Pieces(kind) :
            /\ length' = appendAll(0, pieces)
            /\ send(kind, length', allFit(0, pieces))
    BY <1>2, StartIsEmpty DEF reply
  <2>2. pieces \in Seq(Nat) /\ 0 \in 0..(BufferSize - 1)
    BY <1>1, PiecesAreNumbers
  <2>3. length' \in 0..(BufferSize - 1)
    BY <2>1, <2>2, AppendAllHasRoom
  <2>4. line'.kind = kind /\ line'.whole \in BOOLEAN /\ openLine' \in {"none", kind}
    BY <2>1 DEF send, allFit
  <2>5. ASSUME kind # "removed"
        PROVE  line'.whole /\ openLine' = "none"
    <3>1. Short(pieces)
      BY <2>5, RepliesAreShort
    <3>2. allFit(0, formatted(length')) /\ breakFits(length')
      BY <2>1, <3>1, ShortLine DEF Short
    <3> QED
      BY <2>1, <3>1, <3>2 DEF send, Short
  <2>6. UNCHANGED listing
    BY <1>2 DEF reply
  <2> QED
    BY <2>3, <2>4, <2>5, <2>6 DEF Ready, ShortRepliesAreWhole
<1>3. CASE list_entry
  <2> DEFINE sofar == IF listing = 0 THEN 0 ELSE length
  <2>1. PICK n \in NameLengths : length' = appendAll(sofar, entry(n))
    BY <1>3 DEF list_entry
  <2>2. sofar \in 0..(BufferSize - 1)
    BY <1>1 DEF Ready
  <2> HIDE DEF sofar
  <2>3. entry(n) \in Seq(Nat)
    BY <1>1, <1>3, EntryIs DEF Ready, list_entry
  <2>4. length' \in 0..(BufferSize - 1)
    BY <2>1, <2>2, <2>3, AppendAllHasRoom
  <2>5. listing' \in 0..ojMaxQueueLength /\ UNCHANGED <<line, openLine>>
    BY <1>1, <1>3 DEF list_entry, Ready
  <2> QED
    BY <2>4, <2>5 DEF Ready, ShortRepliesAreWhole
<1>4. CASE send_listing
  <2>1. send("listing", length, TRUE) /\ listing' = 0 /\ UNCHANGED length
    BY <1>4 DEF send_listing
  <2>2. /\ line'.kind = "listing" /\ line'.whole \in BOOLEAN
        /\ openLine' \in {"none", "listing"}
    BY <2>1 DEF send, allFit
  <2> QED
    BY <1>1, <2>1, <2>2 DEF Ready, ShortRepliesAreWhole
<1>5. CASE UNCHANGED vars
  BY <1>5 DEF vars, Ready, ShortRepliesAreWhole
<1> QED
  BY <1>2, <1>3, <1>4, <1>5 DEF Next

LEMMA InitReady == Init => Ready
<1> SUFFICES ASSUME Init PROVE Ready
  OBVIOUS
<1>1. BufferSize \in Nat \ {0} /\ ojMaxQueueLength \in Nat
  BY ReplyBufferAssumption
<1>2. length = 0 /\ listing = 0 /\ line.kind = "none" /\ line.whole = TRUE /\ openLine = "none"
  BY DEF Init, NoLine
<1>3. length \in 0..(BufferSize - 1) /\ listing \in 0..ojMaxQueueLength
  BY <1>1, <1>2
<1>4. /\ line.kind \in ReplyKinds \cup {"none", "listing"} /\ line.whole \in BOOLEAN
      /\ line.whole /\ openLine \in {"none", "listing", "removed"}
  BY <1>2, Zenon
<1> QED
  BY <1>3, <1>4, Zenon DEF Ready, ShortRepliesAreWhole

-----------------------------------------------------------------------------
(* The theorems.                                                              *)

(* A String never loses the room for its NULL, and only a listing or the      *)
(* answer to !remove can be sent without its line break (append of            *)
(* src/drac_string.h, win32_send_message).                                    *)
THEOREM TypeCorrect ==
    ASSUME LinesHold
    PROVE  Spec => []TypeOK
<1>1. Ready => TypeOK
  BY DEF Ready, TypeOK, ShortRepliesAreWhole
<1> QED
  BY <1>1, InitReady, NextReady, PTL DEF Spec

(* Every other reply gets whole into its line, however long the names in it   *)
(* are.                                                                       *)
THEOREM AlwaysShortRepliesAreWhole ==
    ASSUME LinesHold
    PROVE  Spec => []ShortRepliesAreWhole
<1>1. Ready => ShortRepliesAreWhole
  BY DEF Ready
<1> QED
  BY <1>1, InitReady, NextReady, PTL DEF Spec

(* The 32 bytes that highp_queue keeps free are enough for an entry: two      *)
(* digits, three more bytes and a name.                                       *)
SlackIsEnough ==
    /\ ojMaxQueueLength < 100
    /\ \A n \in NameLengths : n + 5 <= EntrySlack

Listed ==
    /\ length \in Nat /\ listing \in 0..ojMaxQueueLength
    /\ ListingFits

(* The text of !queue keeps to the length of a chat message.                  *)
THEOREM AlwaysListingFits ==
    ASSUME LinesHold, SlackIsEnough
    PROVE  Spec => []ListingFits
<1>1. /\ ojMaxQueueLength \in Nat /\ EntrySlack \in Nat /\ MessageMax \in Nat
      /\ BufferSize \in Nat
  BY ReplyBufferAssumption
<1>2. Init => Listed
  BY <1>1 DEF Init, Listed, ListingFits
<1>3. ASSUME Ready, Listed, [Next]_vars PROVE Listed'
  <2>1. Ready'
    BY <1>3, NextReady
  <2>2. length' \in Nat /\ listing' \in 0..ojMaxQueueLength
    BY <1>1, <2>1 DEF Ready
  <2>3. CASE \E kind \in ReplyKinds : reply(kind)
    <3>1. listing' = 0
      BY <2>3 DEF reply
    <3> QED
      BY <2>2, <3>1 DEF Listed, ListingFits
  <2>4. CASE list_entry
    <3> DEFINE sofar == IF listing = 0 THEN 0 ELSE length
    <3>1. PICK n \in NameLengths : length' = appendAll(sofar, entry(n))
      BY <2>4 DEF list_entry
    <3>2. sofar \in Nat /\ sofar + EntrySlack < MessageMax
      BY <1>3, <2>4 DEF Listed, list_entry, room
    <3> HIDE DEF sofar
    <3>3. /\ entry(n) \in Seq(Nat) /\ Len(entry(n)) = 4
          /\ n \in Nat
          /\ entry(n)[1] \in Nat /\ entry(n)[2] = 2 /\ entry(n)[3] = n /\ entry(n)[4] = 1
          /\ entry(n)[1] <= 2
      BY <1>1, <1>3, <2>4, EntryIs DEF Listed, list_entry, SlackIsEnough
    <3>4. n + 5 <= EntrySlack
      BY DEF SlackIsEnough
    <3> DEFINE pieces == entry(n)
               sums == <<sofar + 2, sofar + 4, sofar + 4 + n, sofar + 5 + n>>
    <3>5. /\ sums \in Seq(Nat) /\ Len(sums) = 4 /\ sums[4] = sofar + 5 + n
          /\ sofar + pieces[1] <= sums[1]
      BY <3>2, <3>3
    <3>6. \A k \in 2..4 : sums[k - 1] + pieces[k] <= sums[k]
      BY <3>2, <3>3
    <3> HIDE DEF pieces, sums
    <3>7. appendAll(sofar, pieces) \in Nat /\ appendAll(sofar, pieces) <= sums[Len(pieces)]
      <4>1. pieces \in Seq(Nat) /\ Len(sums) = Len(pieces) /\ Len(pieces) > 0
        BY <3>3, <3>5 DEF pieces
      <4>2. \A k \in 2..Len(pieces) : sums[k - 1] + pieces[k] <= sums[k]
        BY <3>3, <3>6 DEF pieces
      <4> QED
        BY <3>2, <3>5, <4>1, <4>2, WithinSums
    <3>8. length' <= sofar + 5 + n
      BY <3>1, <3>3, <3>5, <3>7 DEF pieces
    <3> QED
      BY <1>1, <2>2, <3>2, <3>3, <3>4, <3>8 DEF Listed, ListingFits
  <2>5. CASE send_listing
    <3>1. listing' = 0
      BY <2>5 DEF send_listing
    <3> QED
      BY <2>2, <3>1 DEF Listed, ListingFits
  <2>6. CASE UNCHANGED vars
    BY <1>3, <2>6 DEF vars, Listed, ListingFits
  <2> QED
    BY <1>3, <2>3, <2>4, <2>5, <2>6 DEF Next
<1>4. Listed => ListingFits
  BY DEF Listed
<1> QED
  BY <1>2, <1>3, <1>4, InitReady, NextReady, PTL DEF Spec
=============================================================================
