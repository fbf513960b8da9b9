--------------------------- MODULE TwitchConnection ---------------------------
(* The connection to the chat server: mainCRTStartup and                      *)
(* win32_try_connect_twitch of src/win32_twitch_client.cpp, one thread, with  *)
(* a step for every call that may fail or block.  The network is the          *)
(* environment: while it is healthy addresses resolve, sockets open, links    *)
(* stay up; while it is not, any of them may fail at any moment.  A link that *)
(* is lost either reports it ("reset") or just falls silent.                  *)
EXTENDS Naturals, Sequences

CONSTANTS
    MaxAddresses,   \* addresses getaddrinfo may return
    maxRetries      \* 4 in the code

ASSUME TwitchConnectionAssumption ==
    /\ MaxAddresses \in Nat \ {0}
    /\ maxRetries \in Nat

VARIABLES
    pc,           \* what the thread is about to do
    caller,       \* who called win32_try_connect_twitch: "startup" or "reconnect"
    addrLL,       \* addresses left to try
    ircSocket,    \* "INVALID", or "open" for the socket last opened
    link,         \* the link behind it: "none", "up", "reset" or "silent"
    sent,         \* the lines send() accepted on it, in order
    isConnected,
    retryCount,   \* counts no further than maxRetries + 1
    heard,        \* what dispatch made of the last !command received
    healthy       \* the network

vars == <<pc, caller, addrLL, ircSocket, link, sent, isConnected, retryCount, heard, healthy>>

Init ==
    /\ pc = "start"
    /\ caller = "startup"
    /\ addrLL = 0
    /\ ircSocket = "INVALID"
    /\ link = "none"
    /\ sent = <<>>
    /\ isConnected = FALSE
    /\ retryCount = 0
    /\ heard = "nothing"
    /\ healthy \in BOOLEAN

-----------------------------------------------------------------------------
(* The network.                                                               *)

NetworkChanges ==
    /\ healthy' = ~healthy
    /\ UNCHANGED <<pc, caller, addrLL, ircSocket, link, sent, isConnected, retryCount, heard>>

LinkLost ==
    /\ ~healthy
    /\ link = "up"
    /\ link' \in {"reset", "silent"}
    /\ UNCHANGED <<pc, caller, addrLL, ircSocket, sent, isConnected, retryCount, heard, healthy>>

(* What send() may answer: a link that is up accepts the line, a lost one     *)
(* still may.                                                                 *)
sendResults == {accepted \in BOOLEAN : link = "up" => accepted}

(* What was accepted before, and the line if it was.                          *)
afterSend(before, line, accepted) == IF accepted THEN Append(before, line) ELSE before

-----------------------------------------------------------------------------
(* win32_try_connect_twitch                                                   *)

connection == <<ircSocket, link, sent>>

TryFailed_Mutant ==   \* startup tries again for ever
    /\ pc' = IF caller = "startup" THEN "resolve" ELSE "retry"
    /\ UNCHANGED <<isConnected, retryCount>>

(* It returns -1: startup gives up, the reconnect loop sleeps and goes on.    *)
TryFailed ==
    /\ pc' = IF caller = "startup" THEN "closed" ELSE "retry"
    /\ UNCHANGED <<isConnected, retryCount>>

getaddrinfo ==
    /\ pc = "resolve"
    /\ \/ /\ \E n \in 1..MaxAddresses : addrLL' = n
          /\ pc' = "attempt"
          /\ UNCHANGED <<isConnected, retryCount>>
       \/ /\ ~healthy
          /\ TryFailed
          /\ UNCHANGED addrLL
    /\ UNCHANGED <<caller, connection, heard, healthy>>

socket_failed ==
    /\ pc = "attempt"
    /\ ~healthy
    /\ ircSocket' = "INVALID" /\ link' = "none" /\ sent' = <<>>
    /\ TryFailed
    /\ UNCHANGED <<caller, addrLL, heard, healthy>>

connect_failed_past_Mutant ==   \* goes on past the last address
    /\ pc = "attempt"
    /\ ~healthy \/ addrLL > 1
    /\ ircSocket' = "INVALID" /\ link' = "none" /\ sent' = <<>>
    /\ addrLL' = addrLL - 1
    /\ IF addrLL = 0 THEN TryFailed ELSE UNCHANGED <<pc, isConnected, retryCount>>
    /\ UNCHANGED <<caller, heard, healthy>>

(* The socket is closed and the next address, if there is one, is tried; a    *)
(* healthy network fails no more than the addresses before the last.          *)
connect_failed ==
    /\ pc = "attempt"
    /\ ~healthy \/ addrLL > 1
    /\ ircSocket' = "INVALID" /\ link' = "none" /\ sent' = <<>>
    /\ addrLL' = addrLL - 1
    /\ IF addrLL = 1 THEN TryFailed ELSE UNCHANGED <<pc, isConnected, retryCount>>
    /\ UNCHANGED <<caller, heard, healthy>>

connect_succeeded ==
    /\ pc = "attempt"
    /\ ircSocket' = "open" /\ link' = "up" /\ sent' = <<>>
    /\ pc' = "login"
    /\ UNCHANGED <<caller, addrLL, isConnected, retryCount, heard, healthy>>

loginFailed_Mutant(pass, nick) == ~pass /\ ~nick

loginFailed(pass, nick) == ~pass \/ ~nick

(* PASS and NICK are both sent before either result is looked at.             *)
login ==
    /\ pc = "login"
    /\ \E pass, nick \in sendResults :
          /\ sent' = afterSend(afterSend(sent, "PASS", pass), "NICK", nick)
          /\ IF loginFailed(pass, nick)
             THEN TryFailed
             ELSE pc' = "join" /\ UNCHANGED <<isConnected, retryCount>>
    /\ UNCHANGED <<caller, addrLL, ircSocket, link, heard, healthy>>

(* The connection stands: startup goes on to ask for the tags, the reconnect  *)
(* loop returns to the pump.                                                  *)
join ==
    /\ pc = "join"
    /\ \E accepted \in sendResults :
          /\ sent' = afterSend(sent, "JOIN", accepted)
          /\ IF ~accepted
             THEN TryFailed
             ELSE /\ pc' = IF caller = "startup" THEN "cap" ELSE "pump"
                  /\ isConnected' = (caller = "reconnect")
                  /\ UNCHANGED retryCount
    /\ UNCHANGED <<caller, addrLL, ircSocket, link, heard, healthy>>

-----------------------------------------------------------------------------
(* mainCRTStartup                                                             *)

(* bot.config is read and WSAStartup called; without either the bot ends.     *)
startup ==
    /\ pc = "start"
    /\ pc' \in {"resolve", "closed"}
    /\ UNCHANGED <<caller, addrLL, connection, isConnected, retryCount, heard, healthy>>

request_tags ==
    /\ pc = "cap"
    /\ \E accepted \in sendResults :
          /\ sent' = afterSend(sent, "CAP", accepted)
          /\ IF accepted
             THEN pc' = "pump" /\ isConnected' = TRUE
             ELSE pc' = "closed" /\ UNCHANGED isConnected
    /\ UNCHANGED <<caller, addrLL, ircSocket, link, retryCount, heard, healthy>>

tagsRequested == \E i \in 1..Len(sent) : sent[i] = "CAP"

(* recv returns a !command.  Without the tags dispatch runs its reader to the *)
(* end of the line while looking for display-name, finds no PRIVMSG behind    *)
(* it, and hands on an empty message instead of the command.                  *)
recv_command ==
    /\ pc = "pump"
    /\ link = "up"
    /\ heard' = IF tagsRequested THEN "command" ELSE "blank"
    /\ UNCHANGED <<pc, caller, addrLL, connection, isConnected, retryCount, healthy>>

(* recv returns 0 or -1; on a silent link it does not return.                 *)
recv_closed ==
    /\ pc = "pump"
    /\ link = "reset"
    /\ isConnected' = FALSE
    /\ retryCount' = 0
    /\ pc' = "retry"
    /\ UNCHANGED <<caller, addrLL, connection, heard, healthy>>

keepTrying_Mutant == ~isConnected /\ retryCount < maxRetries

keepTrying == ~isConnected \/ retryCount < maxRetries

(* The condition of the reconnect loop, after a Sleep except the first time.  *)
retry ==
    /\ pc = "retry"
    /\ IF keepTrying
       THEN /\ retryCount' = IF retryCount > maxRetries THEN retryCount ELSE retryCount + 1
            /\ caller' = "reconnect"
            /\ pc' = "resolve"
       ELSE /\ pc' = "closed"
            /\ UNCHANGED <<retryCount, caller>>
    /\ UNCHANGED <<addrLL, connection, isConnected, heard, healthy>>

Client ==
    \/ startup \/ request_tags \/ recv_command \/ recv_closed \/ retry
    \/ getaddrinfo \/ socket_failed \/ connect_failed \/ connect_succeeded
    \/ login \/ join

Next == Client \/ NetworkChanges \/ LinkLost

(* The thread goes on whenever it is not blocked in recv; nothing is assumed  *)
(* of the network.                                                            *)
Spec == Init /\ [][Next]_vars /\ WF_vars(Client)

-----------------------------------------------------------------------------
(* Properties                                                                 *)

Lines == {"PASS", "NICK", "JOIN", "CAP"}

(* The socket, its link and what was sent on it belong together.              *)
TypeOK ==
    /\ pc \in {"start", "resolve", "attempt", "login", "join", "cap", "pump", "retry", "closed"}
    /\ caller \in {"startup", "reconnect"}
    /\ addrLL \in 0..MaxAddresses
    /\ ircSocket \in {"INVALID", "open"}
    /\ link \in {"none", "up", "reset", "silent"}
    /\ sent \in Seq(Lines)
    /\ ircSocket = "INVALID" => link = "none" /\ sent = <<>>
    /\ isConnected \in BOOLEAN
    /\ retryCount \in 0..(maxRetries + 1)
    /\ heard \in {"nothing", "command", "blank"}
    /\ healthy \in BOOLEAN

(* Whatever failed before, the pump only ever reads a socket on which the bot *)
(* has logged in and joined its channel, in that order and once.              *)
PumpIsLoggedIn ==
    pc = "pump" =>
        /\ ircSocket = "open"
        /\ sent \in {<<"PASS", "NICK", "JOIN">>, <<"PASS", "NICK", "JOIN", "CAP">>}

(* Starting up comes to an end: the bot pumps messages or has terminated.     *)
StartupEnds == <>(pc \in {"pump", "closed"})

(* The reconnect loop gets through: once the network stays healthy, and no    *)
(* loss goes unreported for good, a bot that has not terminated at startup    *)
(* is back at its pump on a link that is up.                                  *)
Reconnects ==
    (<>[]healthy /\ []<>(link # "silent"))
        => (<>(pc = "closed" /\ caller = "startup") \/ <>[](pc = "pump" /\ link = "up"))

-----------------------------------------------------------------------------
(* What the text of the client says and the client does not do.               *)

(* "Failed to ask for user tags with messages from twitch" ends the bot at    *)
(* its start, and "Successful Reconnect" is printed after a reconnect: a bot  *)
(* that is connected understands the commands it receives.                    *)
CommandsAreHeard == heard # "blank"
=============================================================================
