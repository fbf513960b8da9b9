---------------------------- MODULE DispatchArena ----------------------------
(* The arena of the client as twitch_dispatch_callbacks of src/twitch.cpp     *)
(* uses it, over and over: a temporary stack, a copy of the text received, an *)
(* array of the messages in it, and the end of the stack.                     *)
EXTENDS MemoryArena

CONSTANTS
    TextSizes,   \* cells of the texts recv returns
    ArraySize    \* cells of receivedMsgs, 1024 in the code

ASSUME DispatchArenaAssumption ==
    /\ TextSizes \subseteq Nat \ {0}
    /\ ArraySize \in Nat \ {0}

VARIABLE stage   \* what twitch_dispatch_callbacks does next

Start == Init /\ stage = "begin"

goesOn(from, to) == pc = "idle" /\ stage = from /\ stage' = to

begin_dispatch == goesOn("begin", "text") /\ begin_temp_stack
copy_text == goesOn("text", "array") /\ \E n \in TextSizes : push_size(Data(n))
push_messages == goesOn("array", "end") /\ push_size(Data(ArraySize))
end_dispatch == goesOn("end", "begin") /\ end_temp_stack

Dispatch == begin_dispatch \/ copy_text \/ push_messages \/ end_dispatch

Step == Dispatch \/ (Proceed /\ UNCHANGED stage)

DispatchSpec == Start /\ [][Step]_<<vars, stage>> /\ WF_<<vars, stage>>(Step)

-----------------------------------------------------------------------------
(* Properties                                                                 *)

between == stage = "begin" /\ pc = "idle"

(* However many texts were dispatched, and however large they were, the arena *)
(* is between two of them as it was at first, but for one block it keeps.     *)
NothingLeaks ==
    /\ between => allocation = 1 /\ cursor = Bootstrap /\ stacks = <<>> /\ live = <<>>
    /\ Len(size) <= 2

(* Every dispatch gets to its end: no list of blocks became a circle that     *)
(* push_size or end_temp_stack runs around in.                                *)
DispatchEnds == stage # "begin" ~> between
=============================================================================
