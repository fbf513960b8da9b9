------------------------------- MODULE OjGame -------------------------------
(* The game that the !commands of the chat drive (src/highp).  One action per *)
(* command handler, each the whole handler; highp_receive_command runs one    *)
(* handler to its end before it takes the next command, so a handler is one   *)
(* step.  Positions are counted from 1; 0 is the -1 ("none") of the code.     *)
EXTENDS Naturals, Sequences, FiniteSets, DracArray

CONSTANTS
    Users,            \* the viewers who may type a command
    userId,           \* TwitchUser.id of each of them
    displayName,      \* TwitchUser.displayName of each of them
    Names,            \* display names, and words taken for leader names
    NoName,           \* the empty name of an unset leader
    NameMatches,      \* pairs <<leader, displayName>> match_ignore_case accepts
    Texts,            \* messages that may follow !remove
    NoText,           \* the empty one
    Mentions,         \* pairs <<text, name>> contains_ignore_case accepts
    TeamWords,        \* the sequences of words that may follow !teams
    NumTeams,         \* 4 in the code
    Prize,            \* 1000 in the code
    ojMaxQueueLength,
    ojMaxRegisteredTeamMembers,
    DEBUG,            \* TRUE in the build whose asserts are compiled in
    NoUser            \* nobody

Roles == {r \in SUBSET {"broadcaster", "moderator", "subscriber"} :
             "broadcaster" \in r => "moderator" \in r}

Teams == 1..NumTeams
States == {"NOT_STARTED", "IN_PROGRESS", "INTERMISSION"}

ASSUME OjGameAssumption ==
    /\ NumTeams \in Nat \ {0}
    /\ Prize \in Nat
    /\ ojMaxQueueLength \in Nat \ {0}
    /\ ojMaxRegisteredTeamMembers \in Nat \ {0}
    /\ NoName \notin Names
    /\ NoUser \notin Users
    /\ displayName \in [Users -> Names]
    /\ TeamWords \subseteq Seq(Names)
    /\ DEBUG \in BOOLEAN

VARIABLES
    state,                  \* Oj.state
    teamLeaders,            \* Oj.teamLeaders
    registeredTeamMembers,  \* Oj.registeredTeamMembers
    queue,                  \* Oj.queue
    replies,                \* what the last command had the client send
    upNext,                 \* history: the player !winner last called up and
                            \* who has not been removed or admitted since
    running                 \* FALSE once an assert of the DEBUG build failed

vars == <<state, teamLeaders, registeredTeamMembers, queue, replies, upNext, running>>

-----------------------------------------------------------------------------
(* array_find of drac_array.h, with what the handlers compare.                *)

(* Definitions whose name ends in _Mutant are faulty variants of the one that *)
(* follows, kept to show that a property notices the fault.                   *)

(* array_find: first position that satisfies the match, 0 when there is none. *)
array_find_user_Mutant(users, u) ==    \* starts at the second item
    LET hits == {i \in 2..Len(users) : userId[users[i]] = userId[u]}
    IN  IF hits = {} THEN 0 ELSE CHOOSE i \in hits : \A j \in hits : i <= j

array_find_user(users, u) ==
    LET hits == {i \in 1..Len(users) : userId[users[i]] = userId[u]}
    IN  IF hits = {} THEN 0 ELSE CHOOSE i \in hits : \A j \in hits : i <= j

array_find_member(members, u) ==
    LET hits == {i \in 1..Len(members) : userId[members[i].user] = userId[u]}
    IN  IF hits = {} THEN 0 ELSE CHOOSE i \in hits : \A j \in hits : i <= j

-----------------------------------------------------------------------------
(* A message handed to SendTwitchMessage, reduced to what it claims: its kind,*)
(* whom or what it names, and the number it quotes.                           *)
Reply(kind, about, n) == [kind |-> kind, about |-> about, n |-> n]

say(kind, about, n) == replies' = {Reply(kind, about, n)}

silent == replies' = {}

Privileged(roles) == "broadcaster" \in roles \/ "moderator" \in roles

unset == [t \in Teams |-> NoName]

game == <<state, teamLeaders, registeredTeamMembers, queue, upNext, running>>

Init ==
    /\ state = "NOT_STARTED"
    /\ teamLeaders = unset
    /\ registeredTeamMembers = <<>>
    /\ queue = <<>>
    /\ replies = {}
    /\ upNext = NoUser
    /\ running = TRUE

highp_commands(roles) ==
    /\ running
    /\ IF Privileged(roles) THEN say("commands", NoUser, 0) ELSE silent
    /\ UNCHANGED game

highp_github ==
    /\ running
    /\ say("github", NoUser, 0)
    /\ UNCHANGED game

(* Opens the queue from any state, a game in progress included, and leaves    *)
(* the teams and the registered members as they are.                          *)
highp_open(roles) ==
    /\ running
    /\ IF Privileged(roles)
       THEN state' = "INTERMISSION" /\ say("open", NoUser, 0)
       ELSE UNCHANGED state /\ silent
    /\ UNCHANGED <<teamLeaders, registeredTeamMembers, queue, upNext, running>>

(* A full queue is reported as position 0.                                    *)
enqueue(user) ==
    LET found == array_find_user(queue, user)
    IN  IF found # 0
        THEN say("position", user, found) /\ UNCHANGED queue
        ELSE /\ queue' = array_add(queue, ojMaxQueueLength, user)
             /\ say("position", user, array_add_index(queue, ojMaxQueueLength))

highp_play(user, roles) ==
    /\ running
    /\ \/ /\ state = "NOT_STARTED"
          /\ say("not_open", user, 0)
          /\ UNCHANGED queue
       \/ /\ state # "NOT_STARTED"
          /\ roles \cap {"subscriber", "broadcaster"} = {}
          /\ say("subscribe", user, 0)
          /\ UNCHANGED queue
       \/ /\ state # "NOT_STARTED"
          /\ roles \cap {"subscriber", "broadcaster"} # {}
          /\ enqueue(user)
    /\ UNCHANGED <<state, teamLeaders, registeredTeamMembers, upNext, running>>

leads_Mutant(user) ==   \* only the first leader is looked at
    teamLeaders[1] # NoName /\ <<teamLeaders[1], displayName[user]>> \in NameMatches

(* Does the user go by the name of a leader that is set?                      *)
leads(user) ==
    \E t \in Teams : /\ teamLeaders[t] # NoName
                     /\ <<teamLeaders[t], displayName[user]>> \in NameMatches

(* A new member gets the team rolled.  When the array is full array_add       *)
(* returns -1 and registeredTeamMembers[-1] fails the assert of operator[] in *)
(* the DEBUG build; the other build goes on and names the team all the same.  *)
roll_Mutant(user, team) ==   \* the team told is not the one stored
    /\ \E other \in Teams :
          registeredTeamMembers' = array_add(registeredTeamMembers,
                                             ojMaxRegisteredTeamMembers,
                                             [user |-> user, team |-> other])
    /\ say("team", user, team)
    /\ UNCHANGED running

roll(user, team) ==
    IF DEBUG /\ array_add_index(registeredTeamMembers, ojMaxRegisteredTeamMembers) = 0
    THEN running' = FALSE /\ silent /\ UNCHANGED registeredTeamMembers
    ELSE /\ registeredTeamMembers' = array_add(registeredTeamMembers,
                                               ojMaxRegisteredTeamMembers,
                                               [user |-> user, team |-> team])
         /\ say("team", user, team)
         /\ UNCHANGED running

highp_d4(user) ==
    LET found == array_find_member(registeredTeamMembers, user) IN
    /\ running
    /\ \/ /\ state # "IN_PROGRESS"
          /\ say("no_game", user, 0)
          /\ UNCHANGED <<registeredTeamMembers, running>>
       \/ /\ state = "IN_PROGRESS"
          /\ leads(user)
          /\ say("leader", user, 0)
          /\ UNCHANGED <<registeredTeamMembers, running>>
       \/ /\ state = "IN_PROGRESS"
          /\ ~leads(user)
          /\ found # 0
          /\ say("already_on_team", user, registeredTeamMembers[found].team)
          /\ UNCHANGED <<registeredTeamMembers, running>>
       \/ /\ state = "IN_PROGRESS"
          /\ ~leads(user)
          /\ found = 0
          /\ \E team \in Teams : roll(user, team)
    /\ UNCHANGED <<state, teamLeaders, queue, upNext>>

(* Fewer than NumTeams words leave the leaders as they were.                  *)
highp_teams(roles, words) ==
    /\ running
    /\ IF state # "IN_PROGRESS"
       THEN UNCHANGED teamLeaders /\ silent
       ELSE /\ teamLeaders' = IF Privileged(roles) /\ Len(words) >= NumTeams
                              THEN [t \in Teams |-> words[t]]
                              ELSE teamLeaders
            /\ IF teamLeaders'[1] = NoName
               THEN say("teams_not_set", NoUser, 0)
               ELSE say("teams", NoUser, 0)
    /\ UNCHANGED <<state, registeredTeamMembers, queue, upNext, running>>

(* The members of a team, and the equal share of the prize each is paid.      *)
membersOf(team) ==
    {i \in 1..Len(registeredTeamMembers) : registeredTeamMembers[i].team = team}

share_Mutant(team) ==   \* rounded up
    LET winnerCount == Cardinality(membersOf(team))
    IN  IF winnerCount < 1 THEN Prize ELSE (Prize + winnerCount - 1) \div winnerCount

share(team) ==
    LET winnerCount == Cardinality(membersOf(team))
    IN  Prize \div (IF winnerCount < 1 THEN 1 ELSE winnerCount)

payouts_Mutant(team) ==   \* whatever team they are on
    {Reply("payout", registeredTeamMembers[i].user, share(team)) :
        i \in 1..Len(registeredTeamMembers)}

payouts(team) ==
    {Reply("payout_leader", teamLeaders[team], Prize) :
        t \in {x \in {team} : teamLeaders[x] # NoName}}
    \cup {Reply("payout", registeredTeamMembers[i].user, share(team)) :
             i \in membersOf(team)}

announcement ==
    IF queue = <<>> THEN Reply("no_one_left", NoUser, 0)
                    ELSE Reply("up_next", queue[1], 0)

(* n is the number parse_u64 read.  Anyone may name the winner.               *)
highp_winner(n) ==
    /\ running
    /\ \/ /\ state # "IN_PROGRESS"
          /\ silent
          /\ UNCHANGED <<state, teamLeaders, registeredTeamMembers, upNext>>
       \/ /\ state = "IN_PROGRESS"
          /\ n \notin Teams
          /\ say("proper_team", NoUser, 0)
          /\ UNCHANGED <<state, teamLeaders, registeredTeamMembers, upNext>>
       \/ /\ state = "IN_PROGRESS"
          /\ n \in Teams
          /\ replies' = payouts(n) \cup {announcement}
          /\ teamLeaders' = unset
          /\ registeredTeamMembers' = <<>>
          /\ state' = "INTERMISSION"
          /\ upNext' = IF queue = <<>> THEN NoUser ELSE queue[1]
    /\ UNCHANGED <<queue, running>>

(* The first in the queue leaves it without being named.                      *)
highp_nextround ==
    /\ running
    /\ \/ /\ state = "IN_PROGRESS"
          /\ silent
          /\ UNCHANGED <<state, queue, upNext>>
       \/ /\ state # "IN_PROGRESS"
          /\ state' = "IN_PROGRESS"
          /\ queue' = IF queue # <<>> THEN array_remove_index_ordered(queue, 1)
                                      ELSE queue
          /\ upNext' = NoUser
          /\ say("started", NoUser, 0)
    /\ UNCHANGED <<teamLeaders, registeredTeamMembers, running>>

(* What the list looks like is ReplyBuffer's matter.                           *)
highp_queue ==
    /\ running
    /\ \/ state = "NOT_STARTED" /\ silent
       \/ state # "NOT_STARTED" /\ queue = <<>> /\ say("queue_empty", NoUser, 0)
       \/ state # "NOT_STARTED" /\ queue # <<>> /\ say("listing", NoUser, 0)
    /\ UNCHANGED game

(* The first of the queue whose name occurs in the text is removed, and the   *)
(* reply quotes the text.                                                     *)
mentioned_Mutant(text) ==   \* the search starts at the second item
    {i \in 2..Len(queue) : <<text, displayName[queue[i]]>> \in Mentions}

mentioned(text) ==
    {i \in 1..Len(queue) : <<text, displayName[queue[i]]>> \in Mentions}

highp_remove(text) ==
    /\ running
    /\ \/ /\ state = "NOT_STARTED" \/ text = NoText
          /\ silent
          /\ UNCHANGED <<queue, upNext>>
       \/ /\ state # "NOT_STARTED" /\ text # NoText
          /\ mentioned(text) = {}
          /\ say("not_in_queue", NoUser, 0)
          /\ UNCHANGED <<queue, upNext>>
       \/ /\ state # "NOT_STARTED" /\ text # NoText
          /\ \E i \in mentioned(text) :
                /\ \A j \in mentioned(text) : i <= j
                /\ queue' = array_remove_index_ordered(queue, i)
                /\ upNext' = IF queue[i] = upNext THEN NoUser ELSE upNext
          /\ say("removed", text, 0)
    /\ UNCHANGED <<state, teamLeaders, registeredTeamMembers, running>>

(* highp_receive_command: any viewer may type any command at any time.        *)
Next ==
    \/ highp_github
    \/ highp_nextround
    \/ highp_queue
    \/ \E roles \in Roles : highp_commands(roles)
    \/ \E roles \in Roles : highp_open(roles)
    \/ \E roles \in Roles, words \in TeamWords : highp_teams(roles, words)
    \/ \E user \in Users, roles \in Roles : highp_play(user, roles)
    \/ \E user \in Users : highp_d4(user)
    \/ \E n \in 0..(NumTeams + 1) : highp_winner(n)
    \/ \E text \in Texts : highp_remove(text)

Spec == Init /\ [][Next]_vars

-----------------------------------------------------------------------------
(* Properties                                                                 *)

IdOf(line) == [i \in 1..Len(line) |-> userId[line[i]]]

PQ == INSTANCE PlayQueue WITH
        Players  <- {userId[u] : u \in Users},
        Capacity <- ojMaxQueueLength,
        waiting  <- IdOf(queue),
        open     <- state # "NOT_STARTED"

(* The queue is a first-come-first-served line: every command handler is a    *)
(* step of PlayQueue or leaves the line alone.                                *)
ImplementsPlayQueue == PQ!Spec

(* No sequence of !play, !remove and !nextround lets a viewer pass another    *)
(* who was already waiting.                                                   *)
NoOvertaking == PQ!NoOvertaking

ReplyKinds ==
    {"commands", "github", "open", "not_open", "subscribe", "position", "no_game",
     "leader", "already_on_team", "team", "teams_not_set", "teams", "proper_team",
     "payout_leader", "payout", "no_one_left", "up_next", "started", "queue_empty",
     "listing", "not_in_queue", "removed"}

Member == [user : Users, team : Teams]

Messages == [kind : ReplyKinds, about : Users \cup Names \cup Texts \cup {NoUser}, n : Nat]

(* Every variable stays within the range its C type and its use give it.      *)
TypeOK ==
    /\ state \in States
    /\ teamLeaders \in [Teams -> Names \cup {NoName}]
    /\ registeredTeamMembers \in Seq(Member)
    /\ Len(registeredTeamMembers) <= ojMaxRegisteredTeamMembers
    /\ queue \in Seq(Users)
    /\ Len(queue) <= ojMaxQueueLength
    /\ replies \subseteq Messages
    /\ upNext \in Users \cup {NoUser}
    /\ running \in BOOLEAN

(* A viewer holds at most one place of the queue and is on at most one team,  *)
(* however often and in whatever role he types !play and !d4.                 *)
OneSlotPerUser ==
    /\ \A i, j \in 1..Len(queue) :
          userId[queue[i]] = userId[queue[j]] => i = j
    /\ \A i, j \in 1..Len(registeredTeamMembers) :
          userId[registeredTeamMembers[i].user] = userId[registeredTeamMembers[j].user] => i = j

(* The position !play quotes is the place the viewer has in the queue, and    *)
(* the 0 of a full queue goes only to a viewer who is not in it.              *)
ToldPosition ==
    \A r \in replies : r.kind = "position" =>
        IF r.n = 0 THEN array_find_user(queue, r.about) = 0 /\ Len(queue) = ojMaxQueueLength
                   ELSE r.n <= Len(queue) /\ userId[queue[r.n]] = userId[r.about]

(* The team !d4 names is the team the viewer will be paid with, unless the    *)
(* registration was full and he has none.                                     *)
ToldTeam ==
    \A r \in replies : r.kind \in {"team", "already_on_team"} =>
        \/ \E i \in membersOf(r.n) : userId[registeredTeamMembers[i].user] = userId[r.about]
        \/ /\ r.kind = "team" /\ array_find_member(registeredTeamMembers, r.about) = 0
           /\ Len(registeredTeamMembers) = ojMaxRegisteredTeamMembers

(* The player !winner calls up is the one !nextround admits: between the two  *)
(* he stays in front unless he is removed.                                    *)
UpNextIsHead == upNext # NoUser => queue # <<>> /\ queue[1] = upNext

(* The shares of one !winner add up to at most the prize.                     *)
PayoutsWithinPrize ==
    \A r \in replies : r.kind = "payout" =>
        r.n * Cardinality({x \in replies : x.kind = "payout"}) <= Prize

recipients(kind) == {r.about : r \in {x \in replies' : x.kind = kind}}

(* A member stays on his team until a !winner clears all teams at once: it    *)
(* pays one of them, all of it with the leader it has and nobody else, and    *)
(* calls up the next player.  Nothing else takes a member off.                *)
MembersStayUntilPayout ==
    [][\/ /\ Len(registeredTeamMembers') >= Len(registeredTeamMembers)
          /\ \A i \in 1..Len(registeredTeamMembers) :
                registeredTeamMembers'[i] = registeredTeamMembers[i]
       \/ /\ registeredTeamMembers' = <<>>
          /\ \E r \in replies' : r.kind \in {"up_next", "no_one_left"}
          /\ \E team \in Teams :
                /\ recipients("payout") = {registeredTeamMembers[i].user : i \in membersOf(team)}
                /\ recipients("payout_leader") = {teamLeaders[team]} \ {NoName}]_vars

(* The names of leaders and the members are kept apart by !d4 alone, which    *)
(* looks for the viewer among the leaders: he comes to have both roles only   *)
(* where a !teams names one who has rolled already.                           *)
BothRoles(user) ==
    /\ \E t \in Teams : teamLeaders[t] # NoName /\ <<teamLeaders[t], displayName[user]>> \in NameMatches
    /\ \E i \in 1..Len(registeredTeamMembers) : userId[registeredTeamMembers[i].user] = userId[user]

NoLeaderRolls ==
    [][\/ registeredTeamMembers' = registeredTeamMembers
       \/ \A user \in Users : BothRoles(user)' => BothRoles(user)]_vars

(* Nobody is missing from the queue without the chat being told: he is the    *)
(* one who stood in front when a round was started, or the answer that        *)
(* someone was removed quotes a text with his name in it, and none of those   *)
(* in front of him is named there.                                            *)
GoneFrom(line, i) == \A j \in 1..Len(line) : userId[line[j]] # userId[queue[i]]

NobodyVanishes ==
    [][\/ queue' = queue
       \/ \A i \in 1..Len(queue) : GoneFrom(queue', i) =>
             \/ i = 1 /\ \E r \in replies' : r.kind = "started"
             \/ \E r \in replies' :
                   /\ r.kind = "removed"
                   /\ \A j \in 1..i : <<r.about, displayName[queue[j]]>> \in Mentions <=> j = i]_vars
=============================================================================
