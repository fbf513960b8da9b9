----------------------------- MODULE ReplyBuffer -----------------------------
(* The bytes of what the bot says: the replies the handlers of src/highp put  *)
(* together piece by piece in a String over TWITCH_MESSAGE_BUFFER bytes, and  *)
(* the line win32_send_message makes of each in a second buffer of the same   *)
(* size.  Only lengths are modelled, with the constants of the code; the      *)
(* lengths of the literals are theirs.  A piece that does not fit is left     *)
(* out: that is the build without asserts, since the other stops there.       *)
EXTENDS StringReader

CONSTANTS
    BufferSize,        \* TWITCH_MESSAGE_BUFFER, 512 in the code
    MessageMax,        \* TWITCH_MESSAGE_MAX_LENGTH, 500 in the code
    EntrySlack,        \* 32 in highp_queue
    ChannelLength,     \* bytes of the channel's name
    NameLengths,       \* of display names: TWITCH_USER_NAME_LENGTH is 20
    LeaderLengths,     \* of team leaders' names, 31 at most
    TextLengths,       \* of what may follow !remove
    ojMaxQueueLength   \* 64 in the code

ASSUME ReplyBufferAssumption ==
    /\ {BufferSize, MessageMax, EntrySlack, ChannelLength, ojMaxQueueLength} \subseteq Nat
    /\ NameLengths \subseteq Nat \ {0} /\ LeaderLengths \subseteq Nat \ {0}
    /\ TextLengths \subseteq Nat \ {0}
    /\ BufferSize > 0

VARIABLES
    length,     \* of the reply put together last, or of the listing under way
    listing,    \* entries of the listing under way, 0 if there is none
    line,       \* the line sent last: its kind, and did all of it get in
    openLine    \* the kind of reply whose line was sent without its line break

vars == <<length, listing, line, openLine>>

NoLine == [kind |-> "none", whole |-> TRUE]

Init ==
    /\ length = 0
    /\ listing = 0
    /\ line = NoLine
    /\ openLine = "none"

-----------------------------------------------------------------------------
(* drac_string.h                                                              *)

fits_Mutant(len, n) == BufferSize >= len + n   \* no room kept for the NULL

(* check_string_n_more_bytes                                                  *)
fits(len, n) == BufferSize > len + n

append(len, n) == IF fits(len, n) THEN len + n ELSE len

(* The length after each of the pieces was appended to len bytes.             *)
lengthsAfter(len, pieces) ==
    LET after[k \in 0..Len(pieces)] ==
            IF k = 0 THEN len ELSE append(after[k - 1], pieces[k])
    IN  after

appendAll(len, pieces) == lengthsAfter(len, pieces)[Len(pieces)]

allFit(len, pieces) ==
    \A k \in 1..Len(pieces) : fits(lengthsAfter(len, pieces)[k - 1], pieces[k])

string_clear_Mutant(len) == len   \* the next payout is appended to the last

string_clear(len) == 0

-----------------------------------------------------------------------------
(* The replies but for the listing: how long their pieces are.                *)

(* The numbers in them: a position in the queue, and a share of 1000.         *)
PositionDigits == {Len(append_s64(position)) : position \in 0..ojMaxQueueLength}
ShareDigits == {Len(append_s64(1000 \div winnerCount)) : winnerCount \in 1..1024}

Named(n) == {<<5, n, 23>>, <<5, n, 108>>, <<5, n, 66>>, <<5, n, 49>>}
            \cup {<<5, n, 21, digits, 14>> : digits \in PositionDigits}

Rolled(n) == {<<5, n, 25, 1, 16>>, <<5, n, 17, 1, 2>>}

Teams == {<<17, 5, a, 5, b, 5, c, 5, d>> : a, b, c, d \in LeaderLengths}

Fixed == {<<93>>, <<192>>, <<42>>, <<35>>, <<49>>, <<90>>, <<104>>, <<23>>}

Pieces(kind) ==
    CASE kind = "fixed" -> Fixed
      [] kind = "named" -> UNION {Named(n) : n \in NameLengths}
      [] kind = "rolled" -> UNION {Rolled(n) : n \in NameLengths}
      [] kind = "rolled_led" ->
            {pieces \o <<16, l>> : pieces \in UNION {Rolled(n) : n \in NameLengths}, l \in LeaderLengths}
      [] kind = "teams" -> Teams
      [] kind = "payout_leader" -> {<<12, l, 5>> : l \in LeaderLengths}
      [] kind = "payout" -> {<<12, n, 1, digits>> : n \in NameLengths, digits \in ShareDigits}
      [] kind = "up_next" -> {<<5, n, 87>> : n \in NameLengths}
      [] kind = "removed" -> {<<4, n, 41>> : n \in TextLengths}

ReplyKinds == {"fixed", "named", "rolled", "rolled_led", "teams",
               "payout_leader", "payout", "up_next", "removed"}

(* Messages of a !winner use one String, cleared in between.                  *)
startOf(kind) == IF kind \in {"payout", "up_next"} THEN string_clear(length) ELSE 0

-----------------------------------------------------------------------------
(* win32_send_message and twitch_format_channel_message                       *)

formatted(len) == <<9, ChannelLength, 2, len, 2>>

breakFits(len) == LET before == lengthsAfter(0, formatted(len))[4] IN fits(before, 2)

send(kind, len, complete) ==
    /\ line' = [kind |-> kind, whole |-> complete /\ allFit(0, formatted(len))]
    /\ openLine' = IF breakFits(len) THEN "none" ELSE kind

reply(kind) ==
    /\ listing = 0
    /\ \E pieces \in Pieces(kind) :
          /\ length' = appendAll(startOf(kind), pieces)
          /\ send(kind, length', allFit(startOf(kind), pieces))
    /\ UNCHANGED listing

-----------------------------------------------------------------------------
(* highp_queue                                                                *)

room_Mutant(len) == len < MessageMax   \* no slack

room(len) == len + EntrySlack < MessageMax

entry(n) == <<Len(append_s64(listing + 1)), 2, n, 1>>

(* The loop over the queue, an entry at a time; the first one starts it.      *)
list_entry ==
    /\ listing < ojMaxQueueLength
    /\ LET sofar == IF listing = 0 THEN 0 ELSE length IN
       /\ room(sofar)
       /\ \E n \in NameLengths : length' = appendAll(sofar, entry(n))
    /\ listing' = listing + 1
    /\ UNCHANGED <<line, openLine>>

(* The queue, or the room for another entry, has come to an end.              *)
send_listing ==
    /\ listing > 0
    /\ send("listing", length, TRUE)
    /\ listing' = 0
    /\ UNCHANGED length

Next ==
    \/ \E kind \in ReplyKinds : reply(kind)
    \/ list_entry
    \/ send_listing

Spec == Init /\ [][Next]_vars

-----------------------------------------------------------------------------
(* Properties                                                                 *)

(* A String always has room for its NULL.                                     *)
TypeOK ==
    /\ length \in 0..(BufferSize - 1)
    /\ listing \in 0..ojMaxQueueLength
    /\ line.kind \in ReplyKinds \cup {"none", "listing"} /\ line.whole \in BOOLEAN
    /\ openLine \in {"none", "listing", "removed"}

(* The text of !queue keeps to the length of a chat message, however long the *)
(* names are.                                                                 *)
ListingFits == listing > 0 => length <= MessageMax

(* Every reply but a listing and the answer to !remove gets whole into its    *)
(* line, and the line gets its line break.                                    *)
ShortRepliesAreWhole ==
    /\ line.kind \notin {"listing", "removed"} => line.whole
    /\ openLine \in {"none", "listing", "removed"}
=============================================================================
