----------------------- MODULE TwitchConnectionProofs -----------------------
(* Proofs about TwitchConnection, for every number of addresses and retries.  *)
EXTENDS TwitchConnection, TLAPS, SequenceTheorems

LoggedIn == <<"PASS", "NICK">>
Joined == <<"PASS", "NICK", "JOIN">>
Tagged == <<"PASS", "NICK", "JOIN", "CAP">>

(* What has been sent on the socket in use, at each call the thread is about  *)
(* to make; before the connect there is an address left to try.               *)
Progress ==
    /\ pc = "attempt" => addrLL > 0
    /\ pc \in {"login", "join", "cap", "pump"} => ircSocket = "open"
    /\ pc = "login" => sent = <<>>
    /\ pc = "join" => sent = LoggedIn
    /\ pc = "cap" => sent = Joined

IInv == TypeOK /\ Progress /\ PumpIsLoggedIn

LEMMA InitIInv == Init => IInv
<1> SUFFICES ASSUME Init PROVE IInv
  OBVIOUS
<1>1. retryCount \in 0..(maxRetries + 1) /\ addrLL \in 0..MaxAddresses
  BY TwitchConnectionAssumption DEF Init
<1>2. sent \in Seq(Lines)
  BY EmptySeq DEF Init
<1>3. TypeOK
  BY <1>1, <1>2 DEF Init, TypeOK
<1>4. Progress /\ PumpIsLoggedIn
  BY DEF Init, Progress, PumpIsLoggedIn
<1> QED
  BY <1>3, <1>4 DEF IInv

(* Each line that is accepted makes the list of a login the next longer one. *)
LEMMA Logins ==
    /\ Append(Append(<<>>, "PASS"), "NICK") = LoggedIn
    /\ Append(LoggedIn, "JOIN") = Joined
    /\ Append(Joined, "CAP") = Tagged
<1> DEFINE one == <<"PASS">>
<1>1. one \in Seq(Lines) /\ LoggedIn \in Seq(Lines) /\ Joined \in Seq(Lines) /\ Tagged \in Seq(Lines)
  BY DEF Lines, LoggedIn, Joined, Tagged
<1>2. Append(<<>>, "PASS") = one
  OBVIOUS
<1>3. Append(one, "NICK") = LoggedIn
  <2>1. Append(one, "NICK") \in Seq(Lines) /\ Len(Append(one, "NICK")) = 2 /\ Len(LoggedIn) = 2
    BY <1>1 DEF Lines, LoggedIn
  <2>2. \A i \in 1..2 : Append(one, "NICK")[i] = LoggedIn[i]
    BY DEF LoggedIn
  <2> QED
    BY <1>1, <2>1, <2>2, SeqEqual
<1>4. Append(LoggedIn, "JOIN") = Joined
  <2>1. Append(LoggedIn, "JOIN") \in Seq(Lines) /\ Len(Append(LoggedIn, "JOIN")) = 3 /\ Len(Joined) = 3
    BY <1>1 DEF Lines, LoggedIn, Joined
  <2>2. \A i \in 1..3 : Append(LoggedIn, "JOIN")[i] = Joined[i]
    BY DEF LoggedIn, Joined
  <2> QED
    BY <1>1, <2>1, <2>2, SeqEqual
<1>5. Append(Joined, "CAP") = Tagged
  <2>1. Append(Joined, "CAP") \in Seq(Lines) /\ Len(Append(Joined, "CAP")) = 4 /\ Len(Tagged) = 4
    BY <1>1 DEF Lines, Joined, Tagged
  <2>2. \A i \in 1..4 : Append(Joined, "CAP")[i] = Tagged[i]
    BY DEF Joined, Tagged
  <2> QED
    BY <1>1, <2>1, <2>2, SeqEqual
<1> QED
  BY <1>2, <1>3, <1>4, <1>5, Zenon

(* An attempt that fails leads back to the loop, or ends the bot.             *)
LEMMA FailedAttempt ==
    ASSUME IInv, TryFailed
    PROVE  /\ pc' \in {"retry", "closed"}
           /\ isConnected' \in BOOLEAN /\ retryCount' \in 0..(maxRetries + 1)
  BY DEF TryFailed, IInv, TypeOK

(* The steps of win32_try_connect_twitch.                                     *)
LEMMA ConnectingKeepsIInv ==
    ASSUME IInv, getaddrinfo \/ socket_failed \/ connect_failed \/ connect_succeeded
    PROVE  IInv'
<1>1. CASE getaddrinfo
  <2>1. CASE pc' = "attempt" /\ addrLL' \in 1..MaxAddresses /\ UNCHANGED <<isConnected, retryCount>>
    BY <1>1, <2>1 DEF getaddrinfo, connection, IInv, TypeOK, Progress, PumpIsLoggedIn
  <2>2. CASE TryFailed /\ UNCHANGED addrLL
    BY <1>1, <2>2, FailedAttempt
       DEF getaddrinfo, connection, IInv, TypeOK, Progress, PumpIsLoggedIn
  <2> QED
    BY <1>1, <2>1, <2>2 DEF getaddrinfo
<1>2. CASE socket_failed
  BY <1>2, EmptySeq, FailedAttempt DEF socket_failed, IInv, TypeOK, Progress, PumpIsLoggedIn
<1>3. CASE connect_failed
  <2>1. addrLL \in 1..MaxAddresses /\ addrLL' = addrLL - 1
    BY <1>3, TwitchConnectionAssumption DEF connect_failed, IInv, TypeOK, Progress
  <2>2. CASE addrLL = 1
    BY <1>3, <2>1, <2>2, EmptySeq, FailedAttempt, TwitchConnectionAssumption
       DEF connect_failed, IInv, TypeOK, Progress, PumpIsLoggedIn
  <2>3. CASE addrLL # 1
    BY <1>3, <2>1, <2>3, EmptySeq, TwitchConnectionAssumption
       DEF connect_failed, IInv, TypeOK, Progress, PumpIsLoggedIn
  <2> QED
    BY <2>2, <2>3
<1>4. CASE connect_succeeded
  BY <1>4, EmptySeq DEF connect_succeeded, IInv, TypeOK, Progress, PumpIsLoggedIn
<1> QED
  BY <1>1, <1>2, <1>3, <1>4

(* A line that is accepted follows those sent before.                         *)
LEMMA SendKeepsType ==
    ASSUME NEW before \in Seq(Lines), NEW line \in Lines, NEW accepted \in BOOLEAN
    PROVE  afterSend(before, line, accepted) \in Seq(Lines)
  BY AppendProperties DEF afterSend

LEMMA LoginKeepsIInv ==
    ASSUME IInv, login
    PROVE  IInv'
<1>1. PICK pass \in BOOLEAN, nick \in BOOLEAN :
         /\ sent' = afterSend(afterSend(sent, "PASS", pass), "NICK", nick)
         /\ IF loginFailed(pass, nick)
            THEN TryFailed
            ELSE pc' = "join" /\ UNCHANGED <<isConnected, retryCount>>
  BY DEF login, sendResults
<1>2. sent = <<>> /\ ircSocket = "open"
  BY DEF login, IInv, Progress
<1>3. sent' \in Seq(Lines)
  <2>1. "PASS" \in Lines /\ "NICK" \in Lines /\ sent \in Seq(Lines)
    BY DEF Lines, IInv, TypeOK
  <2> QED
    BY <1>1, <2>1, SendKeepsType
<1>4. CASE pass /\ nick
  <2>1. sent' = LoggedIn
    BY <1>1, <1>2, <1>4, Logins DEF afterSend
  <2>2. pc' = "join" /\ UNCHANGED <<isConnected, retryCount>>
    BY <1>1, <1>4 DEF loginFailed
  <2> QED
    BY <1>2, <1>3, <2>1, <2>2 DEF login, IInv, TypeOK, Progress, PumpIsLoggedIn
<1>5. CASE ~(pass /\ nick)
  <2>1. TryFailed
    BY <1>1, <1>5 DEF loginFailed
  <2> QED
    BY <1>2, <1>3, <2>1, FailedAttempt DEF login, IInv, TypeOK, Progress, PumpIsLoggedIn
<1> QED
  BY <1>4, <1>5

LEMMA JoinKeepsIInv ==
    ASSUME IInv, join
    PROVE  IInv'
<1>1. PICK accepted \in BOOLEAN :
         /\ sent' = afterSend(sent, "JOIN", accepted)
         /\ IF ~accepted
            THEN TryFailed
            ELSE /\ pc' = IF caller = "startup" THEN "cap" ELSE "pump"
                 /\ isConnected' = (caller = "reconnect")
                 /\ UNCHANGED retryCount
  BY DEF join, sendResults
<1>2. sent = LoggedIn /\ ircSocket = "open"
  BY DEF join, IInv, Progress
<1>3. sent' \in Seq(Lines)
  <2>1. "JOIN" \in Lines /\ sent \in Seq(Lines)
    BY DEF Lines, IInv, TypeOK
  <2> QED
    BY <1>1, <2>1, SendKeepsType
<1>4. CASE accepted
  <2>1. sent' = Joined
    BY <1>1, <1>2, <1>4, Logins DEF afterSend
  <2>2. pc' \in {"cap", "pump"} /\ isConnected' \in BOOLEAN /\ UNCHANGED retryCount
    BY <1>1, <1>4
  <2> QED
    BY <1>2, <1>3, <2>1, <2>2 DEF join, IInv, TypeOK, Progress, PumpIsLoggedIn, Joined
<1>5. CASE ~accepted
  <2>1. TryFailed
    BY <1>1, <1>5
  <2> QED
    BY <1>2, <1>3, <2>1, FailedAttempt DEF join, IInv, TypeOK, Progress, PumpIsLoggedIn
<1> QED
  BY <1>4, <1>5

LEMMA RequestTagsKeepsIInv ==
    ASSUME IInv, request_tags
    PROVE  IInv'
<1>1. PICK accepted \in BOOLEAN :
         /\ sent' = afterSend(sent, "CAP", accepted)
         /\ IF accepted
            THEN pc' = "pump" /\ isConnected' = TRUE
            ELSE pc' = "closed" /\ UNCHANGED isConnected
  BY DEF request_tags, sendResults
<1>2. sent = Joined /\ ircSocket = "open"
  BY DEF request_tags, IInv, Progress
<1>3. sent' \in Seq(Lines)
  <2>1. "CAP" \in Lines /\ sent \in Seq(Lines)
    BY DEF Lines, IInv, TypeOK
  <2> QED
    BY <1>1, <2>1, SendKeepsType
<1>4. CASE accepted
  <2>1. sent' = Tagged
    BY <1>1, <1>2, <1>4, Logins DEF afterSend
  <2> QED
    BY <1>1, <1>2, <1>3, <1>4, <2>1
       DEF request_tags, IInv, TypeOK, Progress, PumpIsLoggedIn, Tagged
<1>5. CASE ~accepted
  BY <1>1, <1>2, <1>3, <1>5 DEF request_tags, IInv, TypeOK, Progress, PumpIsLoggedIn
<1> QED
  BY <1>4, <1>5

LEMMA NextKeepsIInv == IInv /\ [Next]_vars => IInv'
<1> SUFFICES ASSUME IInv, [Next]_vars PROVE IInv'
  OBVIOUS
<1>1. CASE UNCHANGED vars
  <2>1. TypeOK'
    BY <1>1 DEF vars, IInv, TypeOK
  <2> QED
    BY <1>1, <2>1 DEF vars, IInv, Progress, PumpIsLoggedIn
<1>2. CASE getaddrinfo \/ socket_failed \/ connect_failed \/ connect_succeeded
  BY <1>2, ConnectingKeepsIInv
<1>3. CASE login \/ join \/ request_tags
  BY <1>3, LoginKeepsIInv, JoinKeepsIInv, RequestTagsKeepsIInv
<1>4. CASE startup
  BY <1>4 DEF startup, connection, IInv, TypeOK, Progress, PumpIsLoggedIn
<1>5. CASE recv_command
  BY <1>5 DEF recv_command, connection, IInv, TypeOK, Progress, PumpIsLoggedIn
<1>6. CASE recv_closed
  <2>1. retryCount' \in 0..(maxRetries + 1)
    BY <1>6, TwitchConnectionAssumption DEF recv_closed
  <2> QED
    BY <1>6, <2>1 DEF recv_closed, connection, IInv, TypeOK, Progress, PumpIsLoggedIn
<1>7. CASE retry
  <2>1. retryCount' \in 0..(maxRetries + 1)
    BY <1>7, TwitchConnectionAssumption DEF retry, IInv, TypeOK
  <2>2. pc' \in {"resolve", "closed"} /\ caller' \in {"startup", "reconnect"}
    BY <1>7 DEF retry, IInv, TypeOK
  <2> QED
    BY <1>7, <2>1, <2>2 DEF retry, connection, IInv, TypeOK, Progress, PumpIsLoggedIn
<1>8. CASE NetworkChanges \/ LinkLost
  BY <1>8 DEF NetworkChanges, LinkLost, IInv, TypeOK, Progress, PumpIsLoggedIn
<1> QED
  BY <1>1, <1>2, <1>3, <1>4, <1>5, <1>6, <1>7, <1>8 DEF Next, Client

(* The socket, its link and what was sent on it belong together, and the list *)
(* of addresses is not walked past its end, whatever the network does.        *)
THEOREM TypeCorrect == Spec => []TypeOK
<1>1. IInv => TypeOK
  BY DEF IInv
<1> QED
  BY <1>1, InitIInv, NextKeepsIInv, PTL DEF Spec

(* Whatever fails, and however often: the pump reads a socket on which the    *)
(* bot has logged in and joined its channel.                                  *)
THEOREM AlwaysPumpIsLoggedIn == Spec => []PumpIsLoggedIn
<1>1. IInv => PumpIsLoggedIn
  BY DEF IInv
<1> QED
  BY <1>1, InitIInv, NextKeepsIInv, PTL DEF Spec
=============================================================================
