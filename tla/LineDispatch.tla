----------------------------- MODULE LineDispatch -----------------------------
(* From the bytes recv returns to the commands the bot acts on:               *)
(* twitch_dispatch_callbacks of src/twitch.cpp and the choice of the handler  *)
(* in highp_receive_command.  The server sends lines; TCP hands them over in  *)
(* chunks that end anywhere, and each chunk is dispatched on its own, nothing *)
(* of it being kept for the next.  Words are abbreviated to two bytes or      *)
(* three, so that a chunk may end within each.  Bytes carry the number of     *)
(* their line.                                                                *)
EXTENDS StringReader

CONSTANTS
    Conversations,            \* sequences of lines the server may send
    maxReceivedMsgs,          \* 1024 in the code
    TWITCH_USER_NAME_LENGTH,  \* 20 in the code
    TWITCH_USER_NAME_BUFFER,  \* 32 in the code, the terminating zero included
    TWITCH_CMD_BUFFER,        \* 32 in the code
    TWITCH_MESSAGE_BUFFER     \* 512 in the code

Bytes == Seq(STRING \ {"CR", "LF"})

(* What the server says: a PING, or what a viewer typed.                      *)
Viewer == [id : Nat, displayName : Bytes, roles : SUBSET {"broadcaster", "moderator", "subscriber"}]
Said == [kind : {"PING"}]
            \cup [kind : {"chat"}, author : Viewer, tagged : BOOLEAN,
                  channel : Bytes, cmd : Bytes, cmdMessage : Bytes]

ASSUME LineDispatchAssumption ==
    /\ maxReceivedMsgs \in Nat \ {0}
    /\ TWITCH_USER_NAME_LENGTH \in Nat
    /\ {TWITCH_USER_NAME_BUFFER, TWITCH_CMD_BUFFER, TWITCH_MESSAGE_BUFFER} \subseteq Nat \ {0}
    /\ Conversations \subseteq Seq(Said)

PING == <<"P", "I", "NG">>
PRIVMSG == <<"P", "RIVM", "SG">>
Broadcaster == <<"broadcaster", "/">>
Mod == <<"mod", "=">>
Subscriber == <<"subscriber", "=">>
UserId == <<"user-id", "=">>
DisplayName == <<"display-name", "=">>

(* The first bytes of the names are all different.                            *)
HighpCommandList ==
    << <<"c", "ommands">>, <<"g", "ithub">>, <<"o", "pen">>, <<"p", "lay">>, <<"d", "4">>,
       <<"t", "eams">>, <<"w", "inner">>, <<"n", "extround">>, <<"q", "ueue">>, <<"r", "emove">> >>

VARIABLES
    lines,      \* the lines the server sends, a PING or what a viewer typed
    wire,       \* the bytes on their way
    handled,    \* what the last chunk was taken for
    ponged,     \* history: the lines a PONG was sent for
    cuts,       \* history: the bytes a chunk ended with, of those that matter
    dropped     \* history: the lines in excess of maxReceivedMsgs

vars == <<lines, wire, handled, ponged, cuts, dropped>>

-----------------------------------------------------------------------------
(* What the server sends: the tags in the order of the alphabet, if they were *)
(* asked for, and the text.                                                   *)

bit(author, role) == IF role \in author.roles THEN "1" ELSE "0"

tagsOf(author) ==
    <<"@">> \o (IF "broadcaster" \in author.roles THEN Broadcaster \o <<"1", ";">> ELSE <<>>)
    \o DisplayName \o author.displayName \o <<";">>
    \o Mod \o <<bit(author, "moderator"), ";">>
    \o Subscriber \o <<bit(author, "subscriber"), ";">>
    \o UserId \o append_u64(author.id) \o <<" ">>

textOf(said) ==
    IF said.kind = "PING" THEN PING
    ELSE (IF said.tagged THEN tagsOf(said.author) ELSE <<>>)
         \o <<":">> \o PRIVMSG \o <<" ", "#">> \o said.channel \o <<" ", ":", "!">>
         \o said.cmd \o <<" ">> \o said.cmdMessage

bytesOf(n) ==
    LET text == textOf(lines[n]) \o <<"CR", "LF">>
    IN  [k \in 1..Len(text) |-> [line |-> n, part |-> text[k]]]

server_sends ==
    LET upto[n \in 0..Len(lines)] == IF n = 0 THEN <<>> ELSE upto[n - 1] \o bytesOf(n)
    IN  upto[Len(lines)]

(* Since a chunk may end anywhere, all is on its way from the start.          *)
Init ==
    /\ lines \in Conversations
    /\ wire = server_sends
    /\ handled = {} /\ ponged = {} /\ cuts = {} /\ dropped = {}

-----------------------------------------------------------------------------
(* The splitting of a chunk.                                                  *)

parts(text) == [k \in 1..Len(text) |-> text[k].part]

lineBreaks(chunk) ==
    {i \in 1..(Len(chunk) - 1) : chunk[i].part = "CR" /\ chunk[i + 1].part = "LF"}

msgStarts(chunk) ==
    {s \in {1} \cup {i + 2 : i \in lineBreaks(chunk)} : s <= Len(chunk)}

receivedMsgs_Mutant(chunk) ==   \* one too few
    {s \in msgStarts(chunk) :
        Cardinality({x \in msgStarts(chunk) : x < s}) + 1 < maxReceivedMsgs}

receivedMsgs(chunk) ==
    {s \in msgStarts(chunk) : Cardinality({x \in msgStarts(chunk) : x < s}) < maxReceivedMsgs}

broken(chunk, s) == \E i \in lineBreaks(chunk) : i >= s

lineEnd(chunk, s) == CHOOSE i \in lineBreaks(chunk) :
                        i >= s /\ \A j \in lineBreaks(chunk) : j >= s => i <= j

(* What the pointer to s reads: up to the zero written over the carriage      *)
(* return.  Without a line break the zero goes to the last byte but one, and  *)
(* when that is in front of s there is none behind s, but whatever the arena  *)
(* held there before.                                                         *)
textAt(chunk, s, stale) ==
    CASE broken(chunk, s) -> parts(SubSeq(chunk, s, lineEnd(chunk, s) - 1))
      [] ~broken(chunk, s) /\ s < Len(chunk) -> parts(SubSeq(chunk, s, Len(chunk) - 2))
      [] ~broken(chunk, s) /\ s = Len(chunk) -> parts(<<chunk[s]>>) \o stale

lineOf(chunk, s) == chunk[IF broken(chunk, s) THEN lineEnd(chunk, s) ELSE Len(chunk)].line

-----------------------------------------------------------------------------
(* The reading of a text.                                                     *)

hasFlag(text, tag) == byteAt(text, seek_next_string(text, 1, tag).cursor) = "1"

rolesIn(text) ==
    (IF hasFlag(text, Broadcaster) THEN {"broadcaster", "moderator"} ELSE {})
    \cup (IF hasFlag(text, Mod) THEN {"moderator"} ELSE {})
    \cup (IF hasFlag(text, Subscriber) THEN {"subscriber"} ELSE {})

(* The first in the list that matches; no two do, but for an empty cmd.       *)
handlerOf(cmd) ==
    LET matching == {i \in DOMAIN HighpCommandList : match(HighpCommandList[i], cmd)}
    IN  {i \in matching : \A j \in matching : i <= j}

(* What memcpy takes of it, at most n bytes.                                  *)
cutTo(s, n) == SubSeq(s, 1, Min({Len(s), n}))

(* A text with PRIVMSG: the tags are looked for from the start, the rest from *)
(* behind the display name, which leaves the reader at the end of a text that *)
(* has none.                                                                  *)
chatIn(text) ==
    LET label == seek_next_string(text, 1, DisplayName)
        nameStart == seek_next_alphanumeric(text, label.cursor)
        nameEnd == seek_next_char(text, nameStart.cursor, ";")
        privmsg == seek_next_string(text, nameEnd.cursor, PRIVMSG)
        hash == seek_next_char(text, privmsg.cursor, "#")
        channelStart == seek_next_alphanumeric(text, hash.cursor)
        channelEnd == seek_next_non_alphanumeric(text, channelStart.cursor)
        colon == seek_next_char(text, channelEnd.cursor, ":")
        chatStart == seek_past_whitespace(text, colon.cursor)
        cmdEnd == seek_next_whitespace(text, chatStart + 1).at
        userIdStart == seek_next_string(text, 1, UserId).cursor
        name == SubSeq(text, nameStart.at, nameEnd.at - 1)
        channel == SubSeq(text, channelStart.at, channelEnd.at - 1)
        cmd == SubSeq(text, chatStart + 1, cmdEnd - 1)
        chat == SubSeq(text, cmdEnd + 1, Len(text))
        sender == [id |-> parse_u64(text, userIdStart),
                   displayName |-> cutTo(name, TWITCH_USER_NAME_LENGTH),
                   roles |-> rolesIn(text)]
    IN  IF byteAt(text, chatStart) = "!" /\ byteAt(text, chatStart + 1) \notin Whitespace
        THEN [kind |-> "command", user |-> sender,
              channel |-> cutTo(channel, TWITCH_USER_NAME_BUFFER - 1),
              cmd |-> cutTo(cmd, TWITCH_CMD_BUFFER - 1),
              cmdMessage |-> cutTo(chat, TWITCH_MESSAGE_BUFFER - 1),
              messageLength |-> Len(chat)]
        ELSE [kind |-> "message", user |-> sender]

read(text) ==
    CASE match(PING, text) -> [kind |-> "PONG"]
      [] ~match(PING, text) /\ contains(text, PRIVMSG) -> chatIn(text)
      [] OTHER -> [kind |-> "log"]

(* stale is what a text without a zero goes on with.                          *)
twitch_dispatch_callbacks(n, stale) ==
    LET chunk == SubSeq(wire, 1, n) IN
    /\ handled' = {[at |-> s, line |-> lineOf(chunk, s), msg |-> read(textAt(chunk, s, stale))] :
                      s \in receivedMsgs(chunk)}
    /\ ponged' = ponged \cup {h.line : h \in {x \in handled' : x.msg.kind = "PONG"}}
    /\ cuts' = cuts \cup {c \in {chunk[n]} : c.part \in {PING[1], "CR"}}
    /\ dropped' = dropped \cup {lineOf(chunk, s) : s \in msgStarts(chunk) \ receivedMsgs(chunk)}
    /\ wire' = SubSeq(wire, n + 1, Len(wire))
    /\ UNCHANGED lines

Next == \E n \in 1..Len(wire), stale \in {<<>>, <<"stale">>} : twitch_dispatch_callbacks(n, stale)

Spec == Init /\ [][Next]_vars

-----------------------------------------------------------------------------
(* Properties                                                                 *)

isBeginning(a, b) == Len(a) <= Len(b) /\ SubSeq(b, 1, Len(a)) = a

nameOf(author) == cutTo(author.displayName, TWITCH_USER_NAME_LENGTH)
channelOf(said) == cutTo(said.channel, TWITCH_USER_NAME_BUFFER - 1)

(* A line in which every part is what it looks like: the names are names,     *)
(* nobody types the label of a name or of the broadcaster's tag, the word     *)
(* behind the exclamation mark is a command if it begins as one, and who owns *)
(* a channel may do there what its moderators may.                            *)
Plain(said) ==
    /\ said.author.displayName # <<>> /\ said.channel # <<>>
    /\ \A name \in {said.author.displayName, said.channel} :
          \A k \in 1..Len(name) : isAlphanumeric(name[k])
    /\ \A k \in 1..Len(said.cmd) : said.cmd[k] \notin Whitespace
    /\ \A text \in {said.cmd, said.cmdMessage} :
          \A k \in 1..Len(text) : text[k] \notin {DisplayName[1], Broadcaster[1]}
    /\ \A i \in DOMAIN HighpCommandList :
          said.cmd # <<>> /\ said.cmd[1] = HighpCommandList[i][1] => match(HighpCommandList[i], said.cmd)
    /\ "broadcaster" \in said.author.roles => "moderator" \in said.author.roles

PlainChats ==
    \A conversation \in Conversations : \A n \in 1..Len(conversation) :
        conversation[n].kind = "chat" => Plain(conversation[n])

NamedCommands ==
    \A conversation \in Conversations : \A n \in 1..Len(conversation) :
        conversation[n].kind = "chat" => conversation[n].cmd # <<>>

(* Wherever the chunks end, a command is handed on for nobody but the viewer  *)
(* who typed it: with his id, his name and no role he has not, and with a     *)
(* beginning of what he typed.  The handler is the one he meant, or that of   *)
(* the first command when nothing came of the word.                           *)
CommandsAreAuthored ==
    \A h \in handled : h.msg.kind = "command" =>
        LET said == lines[h.line] IN
        /\ said.kind = "chat"
        /\ h.msg.user.id = said.author.id
        /\ h.msg.user.displayName = nameOf(said.author)
        /\ h.msg.user.roles \subseteq said.author.roles
        /\ h.msg.channel = channelOf(said)
        /\ isBeginning(h.msg.cmd, said.cmd) /\ isBeginning(h.msg.cmdMessage, said.cmdMessage)
        /\ handlerOf(h.msg.cmd) = IF h.msg.cmd = <<>> THEN {1} ELSE handlerOf(said.cmd)

(* A PING is answered however it is cut, since match is content with the part *)
(* that came; but for a cut after its first byte, a cut within the line break *)
(* before it, and a chunk with too many messages.                             *)
PingsAreAnswered ==
    \A n \in 1..Len(lines) :
        /\ lines[n].kind = "PING"
        /\ \A k \in 1..Len(wire) : wire[k].line # n
        => \/ n \in ponged \cup dropped
           \/ [line |-> n, part |-> PING[1]] \in cuts
           \/ [line |-> n - 1, part |-> "CR"] \in cuts

chunkTaken == SubSeq(wire, 1, Len(wire) - Len(wire'))

whatArrives(said) ==
    [kind |-> "command", user |-> [said.author EXCEPT !.displayName = nameOf(said.author)],
     channel |-> channelOf(said), cmd |-> cutTo(said.cmd, TWITCH_CMD_BUFFER - 1),
     cmdMessage |-> cutTo(said.cmdMessage, TWITCH_MESSAGE_BUFFER - 1),
     messageLength |-> Len(said.cmdMessage)]

(* A line with tags that comes whole within one chunk, and is not too many    *)
(* there, is handed on once, with all the roles and all that was typed, as    *)
(* far as the buffers go.                                                     *)
WholeLinesArrive ==
    [][LET chunk == chunkTaken IN
       \A n \in 1..Len(lines) :
          /\ lines[n].kind = "chat" /\ lines[n].tagged
          /\ Cardinality({c \in 1..Len(chunk) : chunk[c].line = n}) = Len(bytesOf(n))
          /\ Cardinality({c \in 1..Len(chunk) : chunk[c].line < n /\ chunk[c].part = "LF"})
                < maxReceivedMsgs
          => /\ Cardinality({h \in handled' : h.line = n}) = 1
             /\ \E h \in handled' : h.line = n /\ h.msg = whatArrives(lines[n])]_vars
=============================================================================
