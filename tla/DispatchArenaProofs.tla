------------------------- MODULE DispatchArenaProofs -------------------------
(* Proofs about DispatchArena: however often texts are dispatched in it, the  *)
(* arena hands no cell out twice and keeps no more than one block.            *)
EXTENDS DispatchArena, TLAPS, SequenceTheorems

BaseSize == wholePages(MinSize + Bootstrap)

(* The arena of the client has a megabyte and the rest of a page, a text at   *)
(* most a megabyte (RECEIVE_BUFFER_LENGTH), so that the largest text fits.    *)
TextsFit ==
    /\ TextSizes # {}
    /\ \A n \in TextSizes : Bootstrap + Record + n <= BaseSize

-----------------------------------------------------------------------------
(* The inductive invariant: the blocks, the list of extras, and what has been *)
(* handed out, at every point of a dispatch.                                  *)

Needed == larger(ArraySize + 1, BaseSize - Bootstrap)

(* A second block can hold the array again.                                   *)
TheBlocks ==
    /\ size \in Seq(Nat) /\ Len(size) \in {1, 2}
    /\ size[1] = BaseSize
    /\ Len(size) = 2 => size[2] >= Needed
    /\ userData \in [1..Len(size) -> (1..Len(size)) \cup {0}]
    /\ userData[1] = 0

KeptBlock == IF Len(size) = 2 THEN 2 ELSE 0

RecordRegion == [block |-> 1, from |-> Bootstrap, upto |-> Bootstrap + Record]
TheRecord == [saved |-> [allocation |-> 1, cursor |-> Bootstrap], region |-> 1]
TextRegion(c) == [block |-> 1, from |-> Bootstrap + Record, upto |-> c]
ArrayRegion(b, c, d) == [block |-> b, from |-> c, upto |-> d]

TextEnds == (Bootstrap + Record)..BaseSize

AtRest ==
    /\ allocation = 1 /\ extras = KeptBlock
    /\ cursor = Bootstrap /\ stacks = <<>> /\ live = <<>>

HasRecord ==
    /\ allocation = 1 /\ extras = KeptBlock
    /\ cursor = Bootstrap + Record
    /\ stacks = <<TheRecord>> /\ live = <<RecordRegion>>

HasText ==
    /\ allocation = 1 /\ extras = KeptBlock
    /\ cursor \in TextEnds
    /\ stacks = <<TheRecord>> /\ live = <<RecordRegion, TextRegion(cursor)>>

ArrayInBase ==
    /\ allocation = 1 /\ extras = KeptBlock
    /\ stacks = <<TheRecord>>
    /\ \E c \in TextEnds :
          /\ cursor \in c..BaseSize
          /\ live = <<RecordRegion, TextRegion(c), ArrayRegion(1, c, cursor)>>

(* The array is in the second block, which links to the base as long as it is *)
(* the block in use, and is listed (to itself even) when it is not.           *)
ArrayInSecond ==
    /\ Len(size) = 2
    /\ stacks = <<TheRecord>>
    /\ cursor = ArraySize
    /\ \E c \in TextEnds :
          live = <<RecordRegion, TextRegion(c), ArrayRegion(2, 0, ArraySize)>>
    /\ \/ allocation = 2 /\ extras \in {0, 2} /\ userData[2] = 1
       \/ pc = "unwind" /\ allocation = 1 /\ extras = 2

Points ==
    \/ stage = "begin" /\ pc = "idle" /\ AtRest
    \/ stage = "text" /\ pc = "idle" /\ HasRecord
    \/ stage = "array" /\ pc = "idle" /\ HasText
    \/ stage = "end" /\ pc = "search" /\ HasText /\ pending = Data(ArraySize)
    \/ stage = "end" /\ pc = "idle" /\ (ArrayInBase \/ ArrayInSecond)
    \/ stage = "begin" /\ pc = "unwind" /\ (ArrayInBase \/ ArrayInSecond)

IInv == TheBlocks /\ Points
-----------------------------------------------------------------------------
(* The helpers of the model.                                                  *)

LEMMA Constants ==
    /\ MinSize \in Nat \ {0} /\ Bootstrap \in Nat \ {0} /\ Record \in Nat \ {0}
    /\ Page \in Nat \ {0} /\ ArraySize \in Nat \ {0} /\ TextSizes \subseteq Nat \ {0}
  BY MemoryArenaAssumption, DispatchArenaAssumption

LEMMA WholePagesHold ==
    ASSUME NEW n \in Nat
    PROVE  wholePages(n) \in Nat /\ wholePages(n) >= n
<1> DEFINE q == (n + Page - 1) \div Page
           r == (n + Page - 1) % Page
<1>1. Page \in Nat \ {0}
  BY Constants
<1>2. q \in Nat /\ r \in 0..(Page - 1) /\ n + Page - 1 = Page * q + r
  BY <1>1
<1>3. wholePages(n) = q * Page
  BY DEF wholePages
<1> HIDE DEF q, r
<1> QED
  BY <1>1, <1>2, <1>3

LEMMA BaseHolds == BaseSize \in Nat /\ BaseSize >= MinSize + Bootstrap
  BY Constants, WholePagesHold DEF BaseSize

LEMMA NeededIs ==
    /\ Needed \in Nat /\ Needed >= ArraySize + 1
    /\ wholePages(Needed) \in Nat /\ wholePages(Needed) >= Needed
<1>1. Needed \in Nat /\ Needed >= ArraySize + 1
  BY Constants, BaseHolds DEF Needed, larger
<1> QED
  BY <1>1, WholePagesHold

LEMMA RecordFits ==
    ASSUME TextsFit
    PROVE  Bootstrap + Record < BaseSize
<1>1. PICK n \in TextSizes : Bootstrap + Record + n <= BaseSize
  BY DEF TextsFit
<1> QED
  BY <1>1, Constants, BaseHolds

(* The first block the search looks at is the first of the list.              *)
LEMMA LooksAtTheFirst ==
    ASSUME TheBlocks, extras \in (1..Len(size)) \cup {0}
    PROVE  DOMAIN looksAt = 0..Len(size) /\ looksAt[0] = extras
<1> DEFINE next(b) == IF b = 0 THEN 0 ELSE userData[b]
           body(f, n) == CASE n = 0 -> extras
                           [] n > 0 /\ f[n - 1] = 0 -> 0
                           [] OTHER -> userData[f[n - 1]]
           g == [n \in 0..Len(size) |->
                    IF n = 0 THEN extras
                    ELSE IF n = 1 THEN next(extras) ELSE next(next(extras))]
           looks == CHOOSE f : f = [n \in 0..Len(size) |-> body(f, n)]
<1>1. Len(size) \in {1, 2}
  BY DEF TheBlocks
<1>2. g = [n \in 0..Len(size) |-> body(g, n)]
  <2>1. SUFFICES ASSUME NEW n \in 0..Len(size) PROVE g[n] = body(g, n)
    OBVIOUS
  <2>2. CASE n = 0
    BY <1>1, <2>2
  <2>3. CASE n = 1
    BY <1>1, <2>3
  <2>4. CASE n = 2
    BY <1>1, <2>4
  <2> QED
    BY <1>1, <2>2, <2>3, <2>4
<1>3. looks = [n \in 0..Len(size) |-> body(looks, n)]
  <2> HIDE DEF g, body
  <2> QED
    BY <1>2
<1>4. looksAt = looks
  BY DEF looksAt
<1>5. looks[0] = extras /\ DOMAIN looks = 0..Len(size)
  <2> HIDE DEF looks
  <2>1. 0 \in 0..Len(size)
    BY <1>1
  <2> QED
    BY <1>3, <2>1
<1> QED
  BY <1>4, <1>5
-----------------------------------------------------------------------------
(* Every step keeps to the points.                                            *)

LEMMA InitIInv == Start => IInv
<1> SUFFICES ASSUME Start PROVE IInv
  OBVIOUS
<1> USE DEF Start, Init
<1>1. TheBlocks
  BY BaseHolds DEF TheBlocks, BaseSize
<1>2. AtRest
  BY DEF AtRest, KeptBlock
<1> QED
  BY <1>1, <1>2 DEF IInv, Points

LEMMA BlocksKept ==
    ASSUME TheBlocks, UNCHANGED <<size, userData>>
    PROVE  TheBlocks' /\ KeptBlock' = KeptBlock
  BY DEF TheBlocks, KeptBlock

LEMMA DataIsHandedOut ==
    ASSUME NEW b, NEW at, NEW n, handOut(b, at, Data(n))
    PROVE  /\ cursor' = at + n
           /\ live' = Append(live, [block |-> b, from |-> at, upto |-> at + n])
           /\ stacks' = stacks
  BY Zenon DEF handOut, Data

LEMMA AppendToOne == \A a, b : Append(<<a>>, b) = <<a, b>>
<1> SUFFICES ASSUME NEW a, NEW b PROVE Append(<<a>>, b) = <<a, b>>
  OBVIOUS
<1>1. <<a>> \in Seq({a, b}) /\ <<a, b>> \in Seq({a, b}) /\ Len(<<a, b>>) = 2
  OBVIOUS
<1>2. Append(<<a>>, b) \in Seq({a, b}) /\ Len(Append(<<a>>, b)) = 2
  BY <1>1
<1>3. \A i \in 1..2 : Append(<<a>>, b)[i] = <<a, b>>[i]
  BY <1>1
<1> QED
  BY <1>1, <1>2, <1>3, SeqEqual

LEMMA AppendToTwo == \A a, b, c : Append(<<a, b>>, c) = <<a, b, c>>
<1> SUFFICES ASSUME NEW a, NEW b, NEW c PROVE Append(<<a, b>>, c) = <<a, b, c>>
  OBVIOUS
<1>1. /\ <<a, b>> \in Seq({a, b, c}) /\ <<a, b, c>> \in Seq({a, b, c})
      /\ Len(<<a, b, c>>) = 3
  OBVIOUS
<1>2. Append(<<a, b>>, c) \in Seq({a, b, c}) /\ Len(Append(<<a, b>>, c)) = 3
  BY <1>1
<1>3. \A i \in 1..3 : Append(<<a, b>>, c)[i] = <<a, b, c>>[i]
  BY <1>1
<1> QED
  BY <1>1, <1>2, <1>3, SeqEqual

LEMMA SecondIsAppended ==
    ASSUME NEW S, NEW s \in Seq(S), Len(s) = 1, NEW x \in S
    PROVE  /\ Append(s, x) \in Seq(S) /\ Len(Append(s, x)) = 2
           /\ Append(s, x)[1] = s[1] /\ Append(s, x)[2] = x
<1>1. Append(s, x) \in Seq(S) /\ Len(Append(s, x)) = 2
  OBVIOUS
<1>2. Append(s, x)[1] = s[1]
  OBVIOUS
<1>3. Append(s, x)[2] = x
  <2>1. Append(s, x)[Len(s) + 1] = x
    BY AppendProperties
  <2>2. Len(s) + 1 = 2
    OBVIOUS
  <2> QED
    BY <2>1, <2>2, Zenon
<1> QED
  BY <1>1, <1>2, <1>3

(* Three regions one after the other, the last perhaps in a block of its own. *)
LEMMA RegionsApart ==
    ASSUME TheBlocks, ArrayInBase \/ ArrayInSecond
    PROVE  Len(live) = 3 /\ NoOverlap
<1>1. PICK c \in TextEnds, b \in {1, 2}, e \in Nat, d \in Nat :
          /\ live = <<RecordRegion, TextRegion(c), ArrayRegion(b, e, d)>>
          /\ b = 2 \/ e = c
  <2>1. CASE ArrayInBase
    <3>1. PICK c \in TextEnds :
              /\ cursor \in c..BaseSize
              /\ live = <<RecordRegion, TextRegion(c), ArrayRegion(1, c, cursor)>>
      BY <2>1 DEF ArrayInBase
    <3>2. c \in Nat /\ cursor \in Nat
      BY <3>1, Constants, BaseHolds DEF TextEnds
    <3> QED
      BY <3>1, <3>2
  <2>2. CASE ArrayInSecond
    BY <2>2, Constants DEF ArrayInSecond
  <2> QED
    BY <2>1, <2>2
<1>2. c \in Nat /\ c >= Bootstrap + Record /\ Bootstrap \in Nat /\ Record \in Nat
  BY <1>1, Constants, BaseHolds DEF TextEnds
<1>3. Len(live) = 3
  BY <1>1
<1>4. ~overlap(live[1], live[2])
  BY <1>1, <1>2 DEF overlap, RecordRegion, TextRegion
<1>5. ~overlap(live[1], live[3])
  BY <1>1, <1>2 DEF overlap, RecordRegion, ArrayRegion
<1>6. ~overlap(live[2], live[3])
  BY <1>1, <1>2 DEF overlap, TextRegion, ArrayRegion
<1> QED
  BY <1>3, <1>4, <1>5, <1>6 DEF NoOverlap

LEMMA BeginKeeps ==
    ASSUME TextsFit, IInv, begin_dispatch
    PROVE  IInv'
<1> USE DEF begin_dispatch, goesOn, begin_temp_stack, push_size
<1>1. TheBlocks /\ AtRest
  BY DEF IInv, Points
<1>2. /\ Bootstrap \in Nat /\ Record \in Nat \ {0}
      /\ BaseSize \in Nat /\ Bootstrap + Record < BaseSize
  BY Constants, BaseHolds, RecordFits
<1> DEFINE push == [cells |-> Record, record |-> [allocation |-> allocation, cursor |-> cursor]]
<1>3. check_arena(push.cells)
  BY <1>1, <1>2 DEF check_arena, TheBlocks, AtRest
<1>4. push.record # NoRecord
  BY <1>1 DEF AtRest, NoRecord
<1>5. /\ handOut(allocation, cursor, push)
      /\ UNCHANGED <<pc, pending, size, userData, allocation, extras>>
  BY <1>3
<1>6. /\ cursor' = Bootstrap + Record
      /\ live' = <<RecordRegion>>
  BY <1>1, <1>5 DEF handOut, AtRest, RecordRegion
<1>7. stacks' = <<TheRecord>>
  BY <1>1, <1>4, <1>5, <1>6 DEF handOut, AtRest, TheRecord
<1>8. TheBlocks' /\ KeptBlock' = KeptBlock
  BY <1>1, <1>5, BlocksKept
<1>9. HasRecord'
  BY <1>1, <1>5, <1>6, <1>7, <1>8 DEF HasRecord, AtRest
<1> QED
  BY <1>5, <1>8, <1>9 DEF IInv, Points

LEMMA CopyKeeps ==
    ASSUME TextsFit, IInv, copy_text
    PROVE  IInv'
<1>1. TheBlocks /\ HasRecord
  BY DEF IInv, Points, copy_text, goesOn
<1>2. PICK n \in TextSizes : push_size(Data(n))
  BY DEF copy_text
<1>3. /\ n \in Nat \ {0} /\ Bootstrap \in Nat /\ Record \in Nat
      /\ BaseSize \in Nat /\ Bootstrap + Record + n <= BaseSize
  BY <1>2, Constants, BaseHolds DEF TextsFit
<1>4. check_arena(n)
  BY <1>1, <1>3 DEF check_arena, TheBlocks, HasRecord
<1>5. /\ handOut(allocation, cursor, Data(n))
      /\ UNCHANGED <<pc, pending, size, userData, allocation, extras>>
  BY <1>2, <1>4 DEF push_size, Data
<1>6. /\ cursor' = Bootstrap + Record + n
      /\ live' = <<RecordRegion, TextRegion(cursor')>>
      /\ stacks' = stacks
  BY <1>1, <1>5, DataIsHandedOut, AppendToOne DEF HasRecord, TextRegion
<1>7. TheBlocks' /\ KeptBlock' = KeptBlock
  BY <1>1, <1>5, BlocksKept
<1>8. cursor' \in TextEnds
  BY <1>3, <1>6 DEF TextEnds
<1>9. HasText'
  <2>1. TextEnds' = TextEnds
    BY DEF TextEnds, BaseSize, wholePages
  <2> QED
    BY <1>1, <1>5, <1>6, <1>7, <1>8, <2>1 DEF HasRecord, HasText, RecordRegion, TextRegion, TheRecord
<1> QED
  BY <1>5, <1>7, <1>9 DEF IInv, Points, copy_text, goesOn

LEMMA PushKeeps ==
    ASSUME IInv, push_messages
    PROVE  IInv'
<1>1. TheBlocks /\ HasText /\ push_size(Data(ArraySize))
  BY DEF IInv, Points, push_messages, goesOn
<1>2. /\ ArraySize \in Nat \ {0} /\ BaseSize \in Nat
      /\ Bootstrap \in Nat /\ Record \in Nat
  BY Constants, BaseHolds
<1>3. UNCHANGED <<size, userData, allocation, extras>>
  BY <1>1 DEF push_size
<1>4. TheBlocks' /\ KeptBlock' = KeptBlock
  BY <1>1, <1>3, BlocksKept
<1>5. CASE check_arena(ArraySize)
  <2>1. handOut(allocation, cursor, Data(ArraySize)) /\ pc' = "idle"
    BY <1>1, <1>5 DEF push_size, Data
  <2>2. /\ cursor' = cursor + ArraySize
        /\ live' = <<RecordRegion, TextRegion(cursor), ArrayRegion(1, cursor, cursor')>>
        /\ stacks' = <<TheRecord>>
    BY <1>1, <2>1, DataIsHandedOut, AppendToTwo DEF HasText, ArrayRegion
  <2>3. cursor \in TextEnds /\ cursor' \in cursor..BaseSize
    BY <1>1, <1>2, <1>5, <2>2 DEF check_arena, HasText, TextEnds, TheBlocks
  <2>4. ArrayInBase'
    BY <1>1, <1>3, <1>4, <2>2, <2>3 DEF ArrayInBase, HasText
  <2> QED
    BY <1>4, <2>1, <2>4 DEF IInv, Points, push_messages, goesOn
<1>6. CASE ~check_arena(ArraySize)
  <2>1. /\ pc' = "search" /\ pending' = Data(ArraySize)
        /\ UNCHANGED <<cursor, live, stacks>>
    BY <1>1, <1>6 DEF push_size, Data
  <2>2. HasText'
    BY <1>1, <1>3, <1>4, <2>1 DEF HasText
  <2> QED
    BY <1>4, <2>1, <2>2 DEF IInv, Points, push_messages, goesOn
<1> QED
  BY <1>5, <1>6

LEMMA EndKeeps ==
    ASSUME IInv, end_dispatch
    PROVE  IInv'
<1> USE DEF end_dispatch, goesOn, end_temp_stack
<1>1. TheBlocks /\ (ArrayInBase \/ ArrayInSecond)
  BY DEF IInv, Points
<1>2. UNCHANGED <<arena, pending>> /\ stage' = "begin" /\ pc = "idle"
  OBVIOUS
<1>3. pc' = "unwind"
  <2>1. stacks = <<TheRecord>>
    BY <1>1 DEF ArrayInBase, ArrayInSecond
  <2>2. crntStack.region = 1
    BY <2>1 DEF crntStack, TheRecord
  <2>3. intact(crntStack)
    BY <1>1, <2>2, RegionsApart DEF intact, NoOverlap
  <2> QED
    BY <2>3
<1>4. TheBlocks' /\ KeptBlock' = KeptBlock
  BY <1>1, <1>2, BlocksKept DEF arena
<1>5. (ArrayInBase \/ ArrayInSecond)'
  BY <1>1, <1>2, <1>4 DEF arena, ArrayInBase, ArrayInSecond
<1> QED
  BY <1>2, <1>3, <1>4, <1>5 DEF IInv, Points

-----------------------------------------------------------------------------
(* The array that does not fit finds the block kept for it, or gets one.      *)

LEMMA SearchStopsAtTheFirst ==
    ASSUME IInv, pc = "search"
    PROVE  /\ TheBlocks /\ HasText /\ stage = "end" /\ pending = Data(ArraySize)
           /\ newAllocationSize = Needed
           /\ \A n \in DOMAIN looksAt : stopsAt(n) => n = 0 /\ looksAt[n] = extras
<1>1. TheBlocks /\ HasText /\ stage = "end" /\ pending = Data(ArraySize)
  BY DEF IInv, Points
<1>2. newAllocationSize = Needed
  BY <1>1 DEF newAllocationSize, Needed, minAllocationSize, Data, TheBlocks
<1>3. extras \in (1..Len(size)) \cup {0} /\ (extras # 0 => ~tooSmall(extras))
  <2>1. Len(size) \in {1, 2} /\ extras = KeptBlock
    BY <1>1 DEF TheBlocks, HasText
  <2>2. extras # 0 => extras = 2 /\ Len(size) = 2
    BY <2>1 DEF KeptBlock
  <2>3. extras # 0 => size[2] >= Needed /\ size[2] \in Nat
    <3>1. size \in Seq(Nat) /\ (Len(size) = 2 => size[2] >= Needed)
      BY <1>1 DEF TheBlocks
    <3>2. Len(size) = 2 => 2 \in 1..Len(size)
      OBVIOUS
    <3> QED
      BY <2>2, <3>1, <3>2
  <2> QED
    BY <1>2, <2>1, <2>2, <2>3, NeededIs DEF tooSmall
<1>4. DOMAIN looksAt = 0..Len(size) /\ looksAt[0] = extras
  BY <1>1, <1>3, LooksAtTheFirst
<1>5. ASSUME NEW n \in DOMAIN looksAt, stopsAt(n)
      PROVE  n = 0
  <2>1. n \in Nat
    BY <1>1, <1>4 DEF TheBlocks
  <2>2. CASE n > 0
    BY <1>3, <1>4, <1>5, <2>1, <2>2 DEF stopsAt
  <2> QED
    BY <2>1, <2>2
<1> QED
  BY <1>1, <1>2, <1>4, <1>5

LEMMA PushedIntoSecond ==
    ASSUME TheBlocks, HasText, pending = Data(ArraySize), pushed(2)
    PROVE  /\ allocation' = 2 /\ pc' = "idle" /\ cursor' = ArraySize
           /\ stacks' = <<TheRecord>>
           /\ \E c \in TextEnds :
                 live' = <<RecordRegion, TextRegion(c), ArrayRegion(2, 0, ArraySize)>>
<1>1. handOut(2, 0, Data(ArraySize)) /\ allocation' = 2 /\ pc' = "idle"
  BY DEF pushed
<1>2. ArraySize \in Nat
  BY Constants
<1>3. 0 + ArraySize = ArraySize
  BY <1>2
<1>4. /\ cursor' = ArraySize /\ stacks' = stacks
      /\ live' = Append(live, [block |-> 2, from |-> 0, upto |-> ArraySize])
  <2>1. /\ cursor' = 0 + ArraySize /\ stacks' = stacks
        /\ live' = Append(live, [block |-> 2, from |-> 0, upto |-> 0 + ArraySize])
    BY <1>1, DataIsHandedOut, Zenon
  <2> QED
    BY <1>3, <2>1, Zenon
<1>5. live' = <<RecordRegion, TextRegion(cursor), ArrayRegion(2, 0, ArraySize)>>
  BY <1>4, AppendToTwo, Zenon DEF HasText, ArrayRegion
<1>6. cursor \in TextEnds /\ stacks = <<TheRecord>>
  BY DEF HasText
<1> QED
  BY <1>1, <1>4, <1>5, <1>6, Zenon

LEMMA TakeKeeps ==
    ASSUME IInv, take_extra, UNCHANGED stage
    PROVE  IInv'
<1>1. /\ TheBlocks /\ HasText /\ stage = "end" /\ pending = Data(ArraySize)
  BY SearchStopsAtTheFirst DEF take_extra
<1>2. /\ extras # 0 /\ pushed(extras)
      /\ userData' = [b \in DOMAIN userData |->
                         IF b = extras THEN allocation ELSE userData[b]]
      /\ UNCHANGED <<size, extras>>
  <2>1. PICK n \in DOMAIN looksAt :
            /\ stopsAt(n) /\ looksAt[n] # 0
            /\ userData' = [b \in DOMAIN userData |->
                               CASE b = looksAt[n] -> allocation
                                 [] n > 0 /\ b = looksAt[n - 1] -> userData[looksAt[n]]
                                 [] OTHER -> userData[b]]
            /\ pushed(looksAt[n])
    BY DEF take_extra
  <2>2. n = 0 /\ looksAt[n] = extras
    BY <2>1, SearchStopsAtTheFirst DEF take_extra
  <2>3. userData' = [b \in DOMAIN userData |->
                         IF b = extras THEN allocation ELSE userData[b]]
    BY <2>1, <2>2
  <2> QED
    BY <2>1, <2>2, <2>3 DEF take_extra
<1>3. extras = 2 /\ Len(size) = 2
  BY <1>1, <1>2 DEF HasText, KeptBlock
<1>4. /\ allocation' = 2 /\ pc' = "idle" /\ cursor' = ArraySize
      /\ stacks' = <<TheRecord>>
      /\ \E c \in TextEnds :
            live' = <<RecordRegion, TextRegion(c), ArrayRegion(2, 0, ArraySize)>>
  BY <1>1, <1>2, <1>3, PushedIntoSecond
<1>5. TheBlocks' /\ userData'[2] = 1
  BY <1>1, <1>2, <1>3 DEF TheBlocks, HasText
<1>6. ArrayInSecond'
  BY <1>2, <1>3, <1>4, <1>5 DEF ArrayInSecond
<1> QED
  BY <1>1, <1>4, <1>5, <1>6 DEF IInv, Points

LEMMA AllocateKeeps ==
    ASSUME IInv, allocate_block, UNCHANGED stage
    PROVE  IInv'
<1>1. /\ TheBlocks /\ HasText /\ stage = "end" /\ pending = Data(ArraySize)
      /\ newAllocationSize = Needed
  BY SearchStopsAtTheFirst DEF allocate_block
<1>2. extras = 0
  BY SearchStopsAtTheFirst DEF allocate_block
<1>3. Len(size) = 1 /\ allocation = 1
  BY <1>1, <1>2 DEF HasText, KeptBlock, TheBlocks
<1>4. /\ size' = Append(size, wholePages(Needed))
      /\ userData' = Append(userData, 1)
      /\ pushed(2) /\ extras' = 0
  BY <1>1, <1>2, <1>3 DEF allocate_block
<1>5. /\ allocation' = 2 /\ pc' = "idle" /\ cursor' = ArraySize
      /\ stacks' = <<TheRecord>>
      /\ \E c \in TextEnds :
            live' = <<RecordRegion, TextRegion(c), ArrayRegion(2, 0, ArraySize)>>
  BY <1>1, <1>4, PushedIntoSecond
<1>6. size' \in Seq(Nat) /\ Len(size') = 2 /\ size'[1] = BaseSize /\ size'[2] >= Needed
  <2> DEFINE w == wholePages(Needed)
  <2>1. w \in Nat /\ w >= Needed
    BY NeededIs
  <2>2. size \in Seq(Nat) /\ Len(size) = 1 /\ size[1] = BaseSize /\ size' = Append(size, w)
    BY <1>1, <1>3, <1>4 DEF TheBlocks
  <2> HIDE DEF w
  <2>3. /\ Append(size, w) \in Seq(Nat) /\ Len(Append(size, w)) = 2
        /\ Append(size, w)[1] = BaseSize /\ Append(size, w)[2] = w
    BY <2>1, <2>2, SecondIsAppended
  <2>4. Append(size, w)[2] >= Needed
    BY <2>1, <2>3
  <2> QED
    BY <2>2, <2>3, <2>4, Zenon
<1>7. userData' \in [1..2 -> {0, 1, 2}] /\ userData'[1] = 0 /\ userData'[2] = 1
  <2>1. userData \in Seq({0, 1, 2}) /\ Len(userData) = 1 /\ userData[1] = 0
    <3>1. userData \in [1..1 -> {0, 1, 2}]
      BY <1>1, <1>3 DEF TheBlocks
    <3>2. userData \in Seq({0, 1, 2})
      BY <3>1, SeqDef
    <3>3. Len(userData) = 1
      BY <3>1, <3>2, LenProperties
    <3>4. userData[1] = 0
      BY <1>1 DEF TheBlocks
    <3> QED
      BY <3>2, <3>3, <3>4
  <2> DEFINE links == Append(userData, 1)
  <2>2. links \in Seq({0, 1, 2}) /\ Len(links) = 2 /\ links[1] = 0 /\ links[2] = 1
    <3> DEFINE S == {0, 1, 2}
    <3>1. userData \in Seq(S) /\ Len(userData) = 1 /\ userData[1] = 0 /\ 1 \in S
      BY <2>1
    <3> HIDE DEF S
    <3>2. links \in Seq(S) /\ Len(links) = 2 /\ links[1] = userData[1] /\ links[2] = 1
      BY <3>1, SecondIsAppended
    <3> QED
      BY <3>1, <3>2 DEF S
  <2> HIDE DEF links
  <2>3. links \in [1..2 -> {0, 1, 2}]
    <3>1. links \in [1..Len(links) -> {0, 1, 2}]
      BY <2>2, LenProperties
    <3> QED
      BY <2>2, <3>1
  <2> QED
    BY <1>4, <2>2, <2>3 DEF links
<1>8. TheBlocks'
  BY <1>6, <1>7 DEF TheBlocks
<1>9. ArrayInSecond'
  BY <1>4, <1>5, <1>6, <1>7 DEF ArrayInSecond
<1> QED
  BY <1>1, <1>5, <1>8, <1>9 DEF IInv, Points

-----------------------------------------------------------------------------
(* The end of the stack puts the second block aside.                          *)

LEMMA UnwindingIs ==
    ASSUME IInv, pc = "unwind"
    PROVE  /\ TheBlocks /\ stage = "begin" /\ (ArrayInBase \/ ArrayInSecond)
           /\ crntStack = TheRecord
<1>1. TheBlocks /\ stage = "begin" /\ (ArrayInBase \/ ArrayInSecond)
  BY DEF IInv, Points
<1>2. stacks = <<TheRecord>>
  BY <1>1 DEF ArrayInBase, ArrayInSecond
<1> QED
  BY <1>1, <1>2 DEF crntStack

LEMMA UnwindKeeps ==
    ASSUME IInv, unwind_block, UNCHANGED stage
    PROVE  IInv'
<1>1. /\ TheBlocks /\ stage = "begin" /\ (ArrayInBase \/ ArrayInSecond)
      /\ crntStack = TheRecord
  BY UnwindingIs DEF unwind_block
<1>2. allocation # 1
  BY <1>1 DEF unwind_block, TheRecord
<1>3. ArrayInSecond /\ allocation = 2 /\ userData[2] = 1 /\ extras \in {0, 2} /\ Len(size) = 2
  BY <1>1, <1>2 DEF ArrayInBase, ArrayInSecond
<1>4. /\ allocation' = 1 /\ extras' = 2 /\ pc' = "unwind"
      /\ userData' = [userData EXCEPT ![2] = extras]
      /\ UNCHANGED <<size, cursor, stacks, live>>
  BY <1>3 DEF unwind_block
<1>5. TheBlocks'
  BY <1>1, <1>3, <1>4 DEF TheBlocks
<1>6. ArrayInSecond'
  BY <1>3, <1>4 DEF ArrayInSecond
<1> QED
  BY <1>1, <1>4, <1>5, <1>6 DEF IInv, Points

LEMMA ReloadKeeps ==
    ASSUME IInv, reload, UNCHANGED stage
    PROVE  IInv'
<1>1. /\ TheBlocks /\ stage = "begin" /\ (ArrayInBase \/ ArrayInSecond)
      /\ crntStack = TheRecord
  BY UnwindingIs DEF reload
<1>2. /\ allocation = 1 /\ cursor' = Bootstrap
      /\ live' = SubSeq(live, 1, 0)
      /\ stacks' = SubSeq(stacks, 1, Len(stacks) - 1)
      /\ pc' = "idle"
      /\ UNCHANGED <<size, userData, allocation, extras>>
  BY <1>1 DEF reload, TheRecord
<1>3. extras = KeptBlock
  BY <1>1, <1>2 DEF ArrayInBase, ArrayInSecond, KeptBlock
<1>4. live' = <<>>
  BY <1>2
<1>5. stacks' = <<>>
  <2>1. stacks = <<TheRecord>>
    BY <1>1 DEF ArrayInBase, ArrayInSecond
  <2>2. stacks' = SubSeq(<<TheRecord>>, 1, 0)
    BY <1>2, <2>1
  <2> QED
    BY <2>2
<1>6. TheBlocks' /\ KeptBlock' = KeptBlock
  BY <1>1, <1>2, BlocksKept
<1>7. AtRest'
  BY <1>2, <1>3, <1>4, <1>5, <1>6 DEF AtRest
<1> QED
  BY <1>1, <1>2, <1>6, <1>7 DEF IInv, Points

LEMMA NextIInv ==
    ASSUME TextsFit, IInv, [Step]_<<vars, stage>>
    PROVE  IInv'
<1>1. CASE begin_dispatch
  BY <1>1, BeginKeeps
<1>2. CASE copy_text
  BY <1>2, CopyKeeps
<1>3. CASE push_messages
  BY <1>3, PushKeeps
<1>4. CASE end_dispatch
  BY <1>4, EndKeeps
<1>5. CASE take_extra /\ UNCHANGED stage
  BY <1>5, TakeKeeps
<1>6. CASE allocate_block /\ UNCHANGED stage
  BY <1>6, AllocateKeeps
<1>7. CASE unwind_block /\ UNCHANGED stage
  BY <1>7, UnwindKeeps
<1>8. CASE reload /\ UNCHANGED stage
  BY <1>8, ReloadKeeps
<1>9. CASE UNCHANGED <<vars, stage>>
  <2>1. TheBlocks' /\ KeptBlock' = KeptBlock
    BY <1>9, BlocksKept DEF IInv, vars, arena
  <2>2. Points'
    BY <1>9, <2>1 DEF IInv, Points, vars, arena, AtRest, HasRecord, HasText,
                      ArrayInBase, ArrayInSecond
  <2> QED
    BY <2>1, <2>2 DEF IInv
<1> QED
  BY <1>1, <1>2, <1>3, <1>4, <1>5, <1>6, <1>7, <1>8, <1>9 DEF Step, Dispatch, Proceed

-----------------------------------------------------------------------------
(* The theorems.                                                              *)

(* However often texts are dispatched, whatever their sizes, the arena is     *)
(* afterwards as it was before, and the one block it keeps is enough for all  *)
(* that follow (src/drac_memory.h, push_size and end_temp_stack).             *)
THEOREM AlwaysNothingLeaks ==
    ASSUME TextsFit
    PROVE  DispatchSpec => []NothingLeaks
<1>1. IInv => NothingLeaks
  <2> SUFFICES ASSUME IInv PROVE NothingLeaks
    OBVIOUS
  <2>1. between => AtRest
    BY DEF IInv, Points, between
  <2>2. Len(size) <= 2
    <3>1. Len(size) \in {1, 2}
      BY DEF IInv, TheBlocks
    <3>2. \A n \in {1, 2} : n <= 2
      OBVIOUS
    <3> QED
      BY <3>1, <3>2, Zenon
  <2>3. between => allocation = 1 /\ cursor = Bootstrap /\ stacks = <<>> /\ live = <<>>
    BY <2>1 DEF AtRest
  <2> QED
    BY <2>2, <2>3 DEF NothingLeaks
<1> QED
  BY <1>1, InitIInv, NextIInv, PTL DEF DispatchSpec

(* The record, the text and the array of a dispatch never share a cell.       *)
THEOREM AlwaysNoOverlap ==
    ASSUME TextsFit
    PROVE  DispatchSpec => []NoOverlap
<1>1. IInv => NoOverlap
  <2> SUFFICES ASSUME IInv PROVE NoOverlap
    OBVIOUS
  <2>1. CASE AtRest \/ HasRecord
    BY <2>1 DEF AtRest, HasRecord, NoOverlap
  <2>2. CASE HasText
    <3>1. Bootstrap \in Nat /\ Record \in Nat
      BY Constants
    <3>2. Len(live) = 2 /\ ~overlap(live[1], live[2])
      BY <2>2, <3>1 DEF HasText, overlap, RecordRegion, TextRegion
    <3> QED
      BY <3>2 DEF NoOverlap
  <2>3. CASE ArrayInBase \/ ArrayInSecond
    BY <2>3, RegionsApart DEF IInv
  <2> QED
    BY <2>1, <2>2, <2>3 DEF IInv, Points
<1> QED
  BY <1>1, InitIInv, NextIInv, PTL DEF DispatchSpec

(* The arena keeps to its types, its cursor to the block it is in, and no     *)
(* assert of end_temp_stack fails.  The array, 8 KB in the code, is no larger *)
(* than the base: until the record is reloaded the cursor is still the one of *)
(* the block put aside.                                                       *)
THEOREM TypeCorrect ==
    ASSUME TextsFit, ArraySize <= BaseSize
    PROVE  DispatchSpec => [](TypeOK /\ pc # "failed")
<1>1. IInv => TypeOK /\ pc # "failed"
  <2> SUFFICES ASSUME IInv PROVE TypeOK /\ pc # "failed"
    OBVIOUS
  <2>1. TheBlocks
    BY DEF IInv
  <2>2. /\ Bootstrap \in Nat /\ Record \in Nat /\ BaseSize \in Nat /\ ArraySize \in Nat
        /\ Bootstrap + Record < BaseSize
    BY Constants, BaseHolds, RecordFits
  <2>3. size[1] = BaseSize /\ 1 \in Blocks /\ KeptBlock \in Blocks \cup {0}
    BY <2>1 DEF TheBlocks, KeptBlock, Blocks
  <2>4. size # <<>>
    BY <2>1 DEF TheBlocks
  <2>5. pc \in {"idle", "search", "unwind"}
    BY DEF IInv, Points
  <2>6. /\ allocation \in Blocks /\ extras \in Blocks \cup {0}
        /\ cursor \in 0..size[allocation]
    <3>1. CASE AtRest \/ HasRecord
      BY <2>2, <2>3, <3>1 DEF AtRest, HasRecord
    <3>2. CASE HasText
      BY <2>2, <2>3, <3>2 DEF HasText, TextEnds
    <3>3. CASE ArrayInBase
      BY <2>2, <2>3, <3>3 DEF ArrayInBase, TextEnds
    <3>4. CASE ArrayInSecond
      <4>1. Blocks = {1, 2} /\ size[2] \in Nat /\ size[2] >= ArraySize + 1
        <5>1. Len(size) = 2 /\ size \in Seq(Nat) /\ size[2] >= Needed
          BY <2>1, <3>4 DEF TheBlocks, ArrayInSecond
        <5>2. Blocks = {1, 2}
          BY <5>1 DEF Blocks
        <5>3. size[2] \in Nat
          BY <5>1
        <5> QED
          BY <5>1, <5>2, <5>3, NeededIs, <2>2
      <4> QED
        BY <2>2, <2>3, <3>4, <4>1 DEF ArrayInSecond
    <3> QED
      BY <3>1, <3>2, <3>3, <3>4 DEF IInv, Points
  <2>7. \A i \in 1..Len(stacks) : stacks[i].saved.allocation \in Blocks
    <3>1. stacks = <<>> \/ stacks = <<TheRecord>>
      BY DEF IInv, Points, AtRest, HasRecord, HasText, ArrayInBase, ArrayInSecond
    <3> QED
      BY <2>3, <3>1 DEF TheRecord
  <2>8. \A k \in 1..Len(live) : live[k].block \in Blocks
    <3>1. CASE AtRest \/ HasRecord \/ HasText
      BY <2>3, <3>1 DEF AtRest, HasRecord, HasText, RecordRegion, TextRegion
    <3>2. CASE ArrayInBase
      BY <2>3, <3>2 DEF ArrayInBase, RecordRegion, TextRegion, ArrayRegion
    <3>3. CASE ArrayInSecond
      BY <2>3, <3>3 DEF ArrayInSecond, RecordRegion, TextRegion, ArrayRegion, Blocks
    <3> QED
      BY <3>1, <3>2, <3>3 DEF IInv, Points
  <2> QED
    BY <2>1, <2>4, <2>5, <2>6, <2>7, <2>8 DEF TypeOK, TheBlocks, Blocks
<1> QED
  BY <1>1, InitIInv, NextIInv, PTL DEF DispatchSpec
=============================================================================
