------------------------------ MODULE ArrayLaws ------------------------------
(* The operations of DracArray against what they say they do, on every array  *)
(* of up to four different items in one of five places.                       *)
EXTENDS DracArray, FiniteSets

Arrays == {[j \in 1..n |-> j] : n \in 0..4}
Places == 5
items(array) == {array[j] : j \in 1..Len(array)}
noneTwice(array) == Cardinality(items(array)) = Len(array)
ascending(array) == \A j \in 2..Len(array) : array[j - 1] < array[j]

ASSUME InsertionKeepsTheRest ==
    \A array \in Arrays : \A i \in 1..(Len(array) + 1) :
        LET ordered == array_insert_ordered(array, Places, 9, i)
            unordered == array_insert_unordered(array, Places, 9, i) IN
        /\ ordered[i] = 9 /\ array_remove_index_ordered(ordered, i) = array
        /\ unordered[i] = 9 /\ noneTwice(unordered) /\ items(unordered) = items(array) \cup {9}
        /\ array_insert_ordered(array, Len(array), 9, i) = array
        /\ array_insert_unordered(array, Len(array), 9, i) = array

ASSUME RemovalKeepsTheRest ==
    \A array \in Arrays : \A i \in 1..Len(array) : \A n \in 1..(Len(array) - i + 1) :
        LET ordered == array_remove_range_ordered(array, i, n)
            unordered == array_remove_range_unordered(array, i, n) IN
        /\ noneTwice(ordered) /\ items(ordered) = items(array) \ (i..(i + n - 1)) /\ ascending(ordered)
        /\ noneTwice(unordered) /\ items(unordered) = items(ordered)
        /\ n = 1 => /\ ordered = array_remove_index_ordered(array, i)
                    /\ unordered = array_remove_index_unordered(array, i)
        /\ SubSeq(unordered, 1, i - 1) = SubSeq(array, 1, i - 1)

ASSUME RangesAreAddedWhole ==
    \A array, more \in Arrays :
        LET sum == array_add_range(array, Places, more)
        IN  IF Len(array) + Len(more) > Places THEN sum = array
            ELSE SubSeq(sum, 1, Len(array)) = array /\ SubSeq(sum, Len(array) + 1, Len(sum)) = more
=============================================================================
