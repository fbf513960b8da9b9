---------------------------- MODULE MCReplyBuffer ----------------------------
(* The lengths that occur in the chat.                                        *)
EXTENDS ReplyBuffer

MCNameLengths == {1, 4, 13, 14, 15, 20}
MCLeaderLengths == {1, 31}
MCTextLengths == 1..492

ASSUME NumbersReadBack == \A n \in 0..2000 : parse_u64(append_u64(n), 1) = n
=============================================================================
