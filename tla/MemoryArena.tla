----------------------------- MODULE MemoryArena -----------------------------
(* The memory arenas of src/drac_memory.h: a chain of blocks with a cursor in *)
(* the last, a list of blocks kept for reuse (extras), and temporary stacks   *)
(* whose records live in the arena itself.  Sizes are counted in cells of the *)
(* least alignment, 8 bytes; blocks are numbered in the order in which the    *)
(* platform allocated them, and 0 is null.  The loop of end_temp_stack takes a *)
(* step per block; a loop that runs around in a circle ends in no step.       *)
EXTENDS Naturals, Sequences

CONSTANTS
    MinSize,     \* minSize of allocate_memory_arena
    Bootstrap,   \* cells of the arena's own header, 8 in the code
    Header,      \* cells of the header of a block, 8 in the code
    Record,      \* cells of a TemporaryStack, 4 in the code
    Page,        \* cells of a page
    MaxBlocks    \* bound on the blocks allocated

ASSUME MemoryArenaAssumption ==
    /\ MinSize \in Nat \ {0}
    /\ Bootstrap \in Nat \ {0} /\ Header \in Nat \ {0}
    /\ Record \in Nat \ {0} /\ Page \in Nat \ {0}
    /\ MaxBlocks \in Nat

VARIABLES
    size,        \* MemoryAllocation.size, by block
    userData,    \* MemoryAllocation.userData, by block: the link of both lists
    allocation, extras, cursor,    \* of MemoryArena
    stacks,      \* the TemporaryStack records from the outermost to crntStack
    live,        \* history: the regions handed out and not yet given up
    pc,          \* "idle", or inside a call; "failed" once an assert failed
    pending      \* the push under way: its cells, and the record it is for

arena == <<size, userData, allocation, extras, cursor, stacks, live>>
vars == <<arena, pc, pending>>

larger(a, b) == IF a > b THEN a ELSE b

(* win32_allocate_virtual_memory rounds up to whole pages.                    *)
wholePages(n) == ((n + Page - 1) \div Page) * Page

NoRecord == [allocation |-> 0, cursor |-> 0]

Data(n) == [cells |-> n, record |-> NoRecord]

minAllocationSize == size[1] - Bootstrap

(* allocate_memory_arena                                                      *)
Init ==
    /\ size = <<wholePages(MinSize + Bootstrap)>>
    /\ userData = <<0>>
    /\ allocation = 1 /\ extras = 0
    /\ cursor = Bootstrap
    /\ stacks = <<>>
    /\ live = <<>>
    /\ pc = "idle"
    /\ pending = Data(0)

-----------------------------------------------------------------------------
(* push_size                                                                  *)

handOut_Mutant(block, at, push) ==   \* the cells of a record are not reserved
    /\ cursor' = IF push.record = NoRecord THEN at + push.cells ELSE at
    /\ live' = Append(live, [block |-> block, from |-> at, upto |-> at + push.cells])
    /\ stacks' = IF push.record = NoRecord THEN stacks
                 ELSE Append(stacks, [saved |-> push.record, region |-> Len(live')])

(* The cells from at on are handed out; a push for a record makes it the      *)
(* innermost.                                                                 *)
handOut(block, at, push) ==
    /\ cursor' = at + push.cells
    /\ live' = Append(live, [block |-> block, from |-> at, upto |-> at + push.cells])
    /\ stacks' = IF push.record = NoRecord THEN stacks
                 ELSE Append(stacks, [saved |-> push.record, region |-> Len(live')])

check_arena_Mutant(n) == cursor + n <= size[1] + Bootstrap   \* forgets the base's header

check_arena(n) == cursor < size[allocation] /\ cursor + n <= size[allocation]

push_size(push) ==
    /\ pc = "idle"
    /\ \/ /\ check_arena(push.cells)
          /\ handOut(allocation, cursor, push)
          /\ UNCHANGED <<pc, pending>>
       \/ /\ ~check_arena(push.cells)
          /\ pending' = push
          /\ pc' = "search"
          /\ UNCHANGED <<cursor, live, stacks>>
    /\ UNCHANGED <<size, userData, allocation, extras>>

newAllocationSize == larger(pending.cells + 1, minAllocationSize)

tooSmall(block) == size[block] < newAllocationSize

(* The n-th block the loop over extras looks at, 0 behind the last.           *)
looksAt ==
    LET block[n \in 0..Len(size)] ==
            CASE n = 0 -> extras
              [] n > 0 /\ block[n - 1] = 0 -> 0
              [] OTHER -> userData[block[n - 1]]
    IN  block

(* The loop stops at a block that is large enough or behind the last.  In a   *)
(* list that became a circle of blocks too small it does not stop at all.     *)
stopsAt(n) ==
    /\ looksAt[n] # 0 => ~tooSmall(looksAt[n])
    /\ \A k \in 0..(n - 1) : looksAt[k] # 0 /\ tooSmall(looksAt[k])

pushed(block) ==
    /\ allocation' = block
    /\ handOut(block, 0, pending)
    /\ pc' = "idle"
    /\ pending' = Data(0)

take_extra_Mutant ==   \* the chain behind the block is lost
    /\ pc = "search"
    /\ \E n \in DOMAIN looksAt :
          /\ stopsAt(n) /\ looksAt[n] # 0
          /\ pushed(looksAt[n])
    /\ UNCHANGED <<size, userData, extras>>

(* A block that is not the first of the list is unlinked; the first one stays *)
(* in the list, whose head nothing moves.                                     *)
take_extra ==
    /\ pc = "search"
    /\ \E n \in DOMAIN looksAt :
          /\ stopsAt(n) /\ looksAt[n] # 0
          /\ userData' = [b \in DOMAIN userData |->
                             CASE b = looksAt[n] -> allocation
                               [] n > 0 /\ b = looksAt[n - 1] -> userData[looksAt[n]]
                               [] OTHER -> userData[b]]
          /\ pushed(looksAt[n])
    /\ UNCHANGED <<size, extras>>

allocate_block ==
    /\ pc = "search"
    /\ \E n \in DOMAIN looksAt : stopsAt(n) /\ looksAt[n] = 0
    /\ Len(size) < MaxBlocks
    /\ size' = Append(size, wholePages(newAllocationSize))
    /\ userData' = Append(userData, allocation)
    /\ pushed(Len(size) + 1)
    /\ UNCHANGED extras

-----------------------------------------------------------------------------
(* begin_temp_stack, end_temp_stack                                           *)

begin_temp_stack ==
    push_size([cells |-> Record,
               record |-> [allocation |-> allocation, cursor |-> cursor]])

(* Do two regions share a cell?                                               *)
overlap(r, s) == r.block = s.block /\ r.from < s.upto /\ s.from < r.upto

crntStack == stacks[Len(stacks)]

(* Has nothing been handed out on top of the record since it was written?     *)
intact(stack) ==
    \A k \in (stack.region + 1)..Len(live) : ~overlap(live[stack.region], live[k])

(* assert(dataToReload && dataToReload->arena == arena)                       *)
end_temp_stack ==
    /\ pc = "idle"
    /\ stacks # <<>>
    /\ pc' = IF intact(crntStack) THEN "unwind" ELSE "failed"
    /\ UNCHANGED <<arena, pending>>

(* A block pushed since goes to the extras.                                   *)
unwind_block ==
    /\ pc = "unwind"
    /\ allocation # crntStack.saved.allocation
    /\ IF userData[allocation] = 0
       THEN pc' = "failed" /\ UNCHANGED <<allocation, userData, extras>>
       ELSE /\ allocation' = userData[allocation]
            /\ userData' = [userData EXCEPT ![allocation] = extras]
            /\ extras' = allocation
            /\ UNCHANGED pc
    /\ UNCHANGED <<size, cursor, stacks, live, pending>>

reload_Mutant ==   \* the cursor stays
    /\ pc = "unwind"
    /\ allocation = crntStack.saved.allocation
    /\ live' = SubSeq(live, 1, crntStack.region - 1)
    /\ stacks' = SubSeq(stacks, 1, Len(stacks) - 1)
    /\ pc' = "idle"
    /\ UNCHANGED <<size, userData, allocation, extras, cursor, pending>>

reload ==
    /\ pc = "unwind"
    /\ allocation = crntStack.saved.allocation
    /\ cursor' = crntStack.saved.cursor
    /\ live' = SubSeq(live, 1, crntStack.region - 1)
    /\ stacks' = SubSeq(stacks, 1, Len(stacks) - 1)
    /\ pc' = "idle"
    /\ UNCHANGED <<size, userData, allocation, extras, pending>>

(* What a call that is under way does next.                                   *)
Proceed ==
    \/ take_extra \/ allocate_block
    \/ unwind_block \/ reload

-----------------------------------------------------------------------------
(* Properties                                                                 *)

Blocks == 1..Len(size)

TypeOK ==
    /\ size \in Seq(Nat) /\ size # <<>>
    /\ userData \in [Blocks -> Blocks \cup {0}]
    /\ allocation \in Blocks /\ extras \in Blocks \cup {0}
    /\ cursor \in 0..size[allocation]
    /\ \A i \in 1..Len(stacks) : stacks[i].saved.allocation \in Blocks
    /\ \A k \in 1..Len(live) : live[k].block \in Blocks
    /\ pc \in {"idle", "search", "unwind", "failed"}

(* No cell is handed out again before it was given up.                        *)
NoOverlap ==
    \A j, k \in 1..Len(live) : j < k => ~overlap(live[j], live[k])
=============================================================================
