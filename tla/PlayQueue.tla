------------------------------ MODULE PlayQueue ------------------------------
(* What the play queue of the bot promises its viewers, whatever the chat     *)
(* types: a bounded first-come-first-served line.  A player holds at most one *)
(* place, joins at the back, is admitted from the front, and may be taken out *)
(* from anywhere.  OjGame implements this specification.                      *)
EXTENDS Naturals, Sequences

CONSTANTS Players,    \* the identities that may wait (Twitch user ids)
          Capacity    \* places in the line

VARIABLES waiting,    \* the line, front first
          open        \* has the line been opened

vars == <<waiting, open>>

Waits(p, line) == \E i \in 1..Len(line) : line[i] = p

Init == waiting = <<>> /\ open = FALSE

Open == open' = TRUE /\ UNCHANGED waiting

Join(p) ==
    /\ open
    /\ Len(waiting) < Capacity
    /\ ~Waits(p, waiting)
    /\ waiting' = Append(waiting, p)
    /\ UNCHANGED open

Admit ==
    /\ open
    /\ waiting # <<>>
    /\ waiting' = Tail(waiting)
    /\ UNCHANGED open

Leave(i) ==
    /\ open
    /\ waiting' = SubSeq(waiting, 1, i - 1) \o SubSeq(waiting, i + 1, Len(waiting))
    /\ UNCHANGED open

Next ==
    \/ Open
    \/ Admit
    \/ \E p \in Players : Join(p)
    \/ \E i \in 1..Len(waiting) : Leave(i)

Spec == Init /\ [][Next]_vars

(* p stands in front of q in line.                                            *)
Ahead(line, p, q) ==
    \E i, j \in 1..Len(line) : i < j /\ line[i] = p /\ line[j] = q

(* Nobody gets in front of a player who is already waiting: whoever is ahead  *)
(* of him after a step was ahead of him before it.                            *)
NoOvertaking ==
    [][\A j \in 1..Len(waiting') :
          Waits(waiting'[j], waiting) =>
              \A i \in 1..(j - 1) : Ahead(waiting, waiting'[i], waiting'[j])]_waiting
=============================================================================
