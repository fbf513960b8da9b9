---------------------------- MODULE MCLineDispatch ----------------------------
(* Conversations of three lines: PINGs, commands with their tags, and what    *)
(* comes of a command on a connection that did not ask for tags.              *)
EXTENDS LineDispatch

bob == [id |-> 12, displayName |-> <<"b", "o", "b">>,
        roles |-> {"broadcaster", "moderator"}]
amy == [id |-> 7, displayName |-> <<"a">>, roles |-> {"subscriber"}]

ping == [kind |-> "PING"]

typed(author, cmd, cmdMessage, tagged) ==
    [kind |-> "chat", author |-> author, tagged |-> tagged, channel |-> <<"c", "h", "a">>,
     cmd |-> cmd, cmdMessage |-> cmdMessage]

remove == typed(bob, <<"r", "emove", "s">>, <<"a", "my">>, TRUE)
play == typed(amy, <<"p", "lay">>, <<>>, TRUE)
untagged == typed(amy, <<"p", "lay">>, <<>>, FALSE)

MCConversations ==
    {<<ping, remove, play>>, <<play, ping, ping>>, <<remove, play, untagged>>,
     <<untagged, ping, untagged>>}

(* The conversations are among those the theorems are about.                  *)
ASSUME MCConversationsArePlain == PlainChats /\ NamedCommands
=============================================================================
