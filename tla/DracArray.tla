------------------------------ MODULE DracArray ------------------------------
(* The operations of src/drac_array.h on an array of at most `capacity` items,*)
(* as the sequence of its items.  Positions count from 1; 0 is the -1 ("none")*)
(* of the code.                                                               *)
EXTENDS Naturals, Sequences

(* Definitions whose name ends in _Mutant are faulty variants of the one that *)
(* follows, kept to show that a property notices the fault.                   *)

array_check_n_more_items(array, capacity, n) == capacity >= Len(array) + n

(* array_add leaves a full array as it is.                                    *)
array_add_Mutant(array, capacity, item) == Append(array, item)   \* unchecked

array_add_front_Mutant(array, capacity, item) ==
    IF Len(array) < capacity THEN <<item>> \o array ELSE array

array_add(array, capacity, item) ==
    IF Len(array) < capacity THEN Append(array, item) ELSE array

array_add_index_Mutant(array, capacity) ==   \* the index not counted from 1
    IF Len(array) < capacity THEN Len(array) ELSE 0

array_add_index(array, capacity) ==
    IF Len(array) < capacity THEN Len(array) + 1 ELSE 0

(* All of the items or none.                                                  *)
array_add_range(array, capacity, items) ==
    IF array_check_n_more_items(array, capacity, Len(items)) THEN array \o items ELSE array

(* What stood at position i goes to the back.                                 *)
array_insert_unordered(array, capacity, item, i) ==
    IF array_check_n_more_items(array, capacity, 1)
    THEN [j \in 1..(Len(array) + 1) |->
             IF j = i THEN item ELSE IF j > Len(array) THEN array[i] ELSE array[j]]
    ELSE array

array_insert_ordered(array, capacity, item, i) ==
    IF array_check_n_more_items(array, capacity, 1)
    THEN SubSeq(array, 1, i - 1) \o <<item>> \o SubSeq(array, i, Len(array))
    ELSE array

array_remove_index_unordered(array, i) ==
    [j \in 1..(Len(array) - 1) |-> IF j = i THEN array[Len(array)] ELSE array[j]]

array_remove_index_ordered(array, i) ==
    SubSeq(array, 1, i - 1) \o SubSeq(array, i + 1, Len(array))

(* n items from position i on.                                                *)
array_remove_range_ordered(array, i, n) ==
    SubSeq(array, 1, i - 1) \o SubSeq(array, i + n, Len(array))

(* The gap is filled with the last items, as many as are needed or as stand   *)
(* behind it.                                                                 *)
array_remove_range_unordered(array, i, n) ==
    LET behind == Len(array) - (i - 1 + n)
        moveCount == IF behind < n THEN behind ELSE n
    IN  [j \in 1..(Len(array) - n) |->
            IF j \in i..(i + moveCount - 1) THEN array[Len(array) - moveCount + 1 + (j - i)]
                                            ELSE array[j]]

array_reset(array) == <<>>
=============================================================================
