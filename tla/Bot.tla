--------------------------------- MODULE Bot ---------------------------------
(* The thread of the bot from recv to recv: a chunk of lines is dispatched    *)
(* line by line, a command runs its handler of OjGame, and what the handler   *)
(* says, and each PONG, goes through the pacer one send at a time before the  *)
(* next line is looked at.  The link may be lost at any moment of this; only  *)
(* recv notices, and reconnects.                                              *)
EXTENDS SendPacer, FiniteSets

LOCAL INSTANCE SequencesExt
LOCAL INSTANCE FiniteSetsExt

CONSTANTS
    Users, userId, displayName, Names, NoName, NameMatches, Texts, NoText,
    Mentions, TeamWords, NumTeams, Prize, ojMaxQueueLength,
    ojMaxRegisteredTeamMembers, DEBUG, NoUser,   \* of OjGame
    Talks,      \* what the server may have to say: sequences of lines
    MaxLag,     \* bound on the ticks by which a send is late
    MaxLosses   \* bound on the losses of the link

VARIABLES
    state, teamLeaders, registeredTeamMembers, queue, replies, upNext, running,   \* of OjGame
    talk,       \* the lines of the server, all of them
    wire,       \* those not received yet
    chunk,      \* those received and not dispatched
    outbox,     \* what the handler under way has still to send
    link,       \* the link as the network has it: "up" or "lost"
    session,    \* connections made so far
    said        \* history: what was sent over a link that was up, on which
                \* connection, and in answer to which line

(* OjGame, and what is proved about it.                                       *)
Oj == INSTANCE OjGameProofs

(* A line: a PING, or a command with what its handler reads.                  *)
Line ==
    [kind : {"PING", "github", "nextround", "queue"}]
    \cup [kind : {"commands", "open"}, roles : Oj!Roles]
    \cup [kind : {"play"}, user : Users, roles : Oj!Roles]
    \cup [kind : {"d4"}, user : Users]
    \cup [kind : {"teams"}, roles : Oj!Roles, words : TeamWords]
    \cup [kind : {"winner"}, n : 0..(NumTeams + 1)]
    \cup [kind : {"remove"}, text : Texts]

ASSUME BotAssumption ==
    /\ Oj!OjGameAssumption
    /\ Talks \subseteq Seq(Line)
    /\ MaxLag \in Nat /\ MaxLosses \in Nat

oj == <<state, teamLeaders, registeredTeamMembers, queue, replies, upNext, running>>
pacer == <<now, lastTime, pc, wake, sends>>
lines == <<talk, wire, chunk>>
botVars == <<oj, pacer, lines, outbox, link, session, said>>

Pong == Oj!Reply("PONG", NoUser, 0)

BotInit ==
    /\ Oj!Init
    /\ Init
    /\ now = Spacing   \* counted from the start of the machine
    /\ talk \in Talks
    /\ wire = talk
    /\ chunk = <<>>
    /\ outbox = <<>>
    /\ link = "up"
    /\ session = 1
    /\ said = <<>>

(* The line being answered, as a position of talk.                            *)
current == Len(talk) - Len(wire) - Len(chunk)

atRecv == pc = "idle" /\ outbox = <<>> /\ chunk = <<>>

recv ==
    /\ atRecv
    /\ link = "up"
    /\ \E n \in 1..Len(wire) :
          /\ chunk' = SubSeq(wire, 1, n)
          /\ wire' = SubSeq(wire, n + 1, Len(wire))
    /\ UNCHANGED <<oj, pacer, talk, outbox, link, session, said>>

(* recv fails; the bot connects anew, and has missed some lines by then.      *)
reconnect ==
    /\ atRecv
    /\ link = "lost"
    /\ \E n \in 0..Len(wire) : wire' = SubSeq(wire, n + 1, Len(wire))
    /\ link' = "up"
    /\ session' = session + 1
    /\ UNCHANGED <<oj, pacer, talk, chunk, outbox, said>>

command(line) ==
    \/ line.kind = "commands" /\ Oj!highp_commands(line.roles)
    \/ line.kind = "github" /\ Oj!highp_github
    \/ line.kind = "open" /\ Oj!highp_open(line.roles)
    \/ line.kind = "play" /\ Oj!highp_play(line.user, line.roles)
    \/ line.kind = "d4" /\ Oj!highp_d4(line.user)
    \/ line.kind = "teams" /\ Oj!highp_teams(line.roles, line.words)
    \/ line.kind = "winner" /\ Oj!highp_winner(line.n)
    \/ line.kind = "nextround" /\ Oj!highp_nextround
    \/ line.kind = "queue" /\ Oj!highp_queue
    \/ line.kind = "remove" /\ Oj!highp_remove(line.text)

inOrder_Mutant(answers) == SetToSeq(answers)   \* in no particular order

(* A handler sends its replies in this order: the leader's payout, those of   *)
(* the members as they registered, anything else.                             *)
place(r) ==
    IF r.kind = "payout_leader" THEN 0
    ELSE IF r.kind = "payout" THEN Oj!array_find_member(registeredTeamMembers, r.about)
    ELSE Len(registeredTeamMembers) + 1

inOrder(answers) ==
    CHOOSE s \in [1..Cardinality(answers) -> answers] :
        \A i, j \in DOMAIN s : i < j => s[i] # s[j] /\ place(s[i]) <= place(s[j])

rest_Mutant(line) == IF line.kind = "PING" THEN Tail(chunk) ELSE <<>>   \* one command per chunk

(* The chunk behind the line at its front.                                    *)
rest(line) == Tail(chunk)

(* Only the first connection has asked for tags (TwitchConnection).           *)
understood == session = 1

(* twitch_dispatch_callbacks, one line.                                       *)
dispatch ==
    /\ pc = "idle" /\ outbox = <<>> /\ chunk # <<>>
    /\ chunk' = rest(Head(chunk))
    /\ \/ /\ Head(chunk).kind = "PING"
          /\ outbox' = <<Pong>>
          /\ UNCHANGED oj
       \/ /\ Head(chunk).kind # "PING" /\ understood
          /\ command(Head(chunk))
          /\ outbox' = inOrder(replies')
       \/ /\ Head(chunk).kind # "PING" /\ ~understood
          /\ outbox' = <<>>
          /\ UNCHANGED oj
    /\ UNCHANGED <<pacer, talk, wire, link, session, said>>

wait ==
    /\ outbox # <<>>
    /\ twitch_wait_to_not_get_banned
    /\ UNCHANGED <<oj, lines, outbox, link, session, said>>

wakeUp ==
    /\ Wake
    /\ UNCHANGED <<oj, lines, outbox, link, session, said>>

left_Mutant == IF link = "up" THEN Tail(outbox) ELSE outbox   \* tried again until it gets through

(* No result of a send is looked at.                                          *)
left == Tail(outbox)

send ==
    /\ win32_send
    /\ outbox' = left
    /\ said' = IF link = "up"
               THEN Append(said, [what |-> Head(outbox), on |-> session, to |-> current])
               ELSE said
    /\ UNCHANGED <<oj, lines, link, session>>

linkLost ==
    /\ link = "up"
    /\ session <= MaxLosses
    /\ link' = "lost"
    /\ UNCHANGED <<oj, pacer, lines, outbox, session, said>>

(* A send is late by no more than MaxLag, and at recv time goes on until the  *)
(* next message need not wait.                                                *)
tick ==
    /\ Tick
    /\ CASE pc = "asleep" -> now < wake
         [] pc = "ready" -> now < lastTime + MaxLag \/ now < wake + MaxLag
         [] pc = "idle" -> atRecv /\ now < lastTime + Spacing
    /\ UNCHANGED <<oj, lines, outbox, link, session, said>>

thread == recv \/ reconnect \/ dispatch \/ wait \/ wakeUp \/ send

BotNext == thread \/ linkLost \/ tick

(* Time goes on, and with it the thread, which only recv blocks; the link     *)
(* need not be lost.                                                          *)
BotSpec == BotInit /\ [][BotNext]_botVars /\ WF_botVars(thread) /\ WF_botVars(tick)

-----------------------------------------------------------------------------
(* Properties                                                                 *)

(* What the parts keep, they keep together; what was said answers a line that *)
(* was dispatched, and nothing is left to say to no line.                     *)
BotTypeOK ==
    /\ TypeOK
    /\ Oj!TypeOK
    /\ wire = SubSeq(talk, Len(talk) - Len(wire) + 1, Len(talk))
    /\ chunk = SubSeq(talk, current + 1, current + Len(chunk))
    /\ link \in {"up", "lost"} /\ session \in 1..(MaxLosses + 1)
    /\ pc # "idle" => outbox # <<>>
    /\ outbox # <<>> => current > 0
    /\ \A i \in 1..Len(said) : said[i].to \in 1..current /\ said[i].on \in 1..session
    /\ Len(said) <= Len(sends)

(* The chat hears the answers in the order of the lines they answer, each of  *)
(* them on one connection and not twice; of a !winner it hears the leader's   *)
(* payout first and who is up next last.                                      *)
AnswersInOrder ==
    \A i, j \in 1..Len(said) : i < j =>
        /\ said[i].to <= said[j].to
        /\ said[i].on <= said[j].on
        /\ said[i].to = said[j].to =>
              /\ said[i].on = said[j].on
              /\ said[i].what # said[j].what
              /\ said[i].what.kind \in {"payout_leader", "payout"}
              /\ said[j].what.kind # "payout_leader"

endsRound(line) ==
    line.kind = "open" \/ (line.kind = "winner" /\ line.n \in Oj!Teams)

(* The line was dispatched and everything it leads to has been handed to send.*)
answered(k) == k < current \/ (k = current /\ outbox = <<>>)

(* A viewer who heard that he is on a team, which then is the winner of the   *)
(* round, sees his payout in the chat: his registration, the shares, the      *)
(* pacing and the sends of everyone in front of him lie in between.  Only a   *)
(* loss of the link may take it from him.                                     *)
PaidAsTold ==
    session = 1 /\ link = "up" =>
        \A i \in 1..Len(said) : \A k \in (said[i].to + 1)..current :
            (/\ said[i].what.kind \in {"team", "already_on_team"}
             /\ talk[k].kind = "winner" /\ talk[k].n = said[i].what.n
             /\ \A l \in (said[i].to + 1)..(k - 1) : ~endsRound(talk[l])
             /\ answered(k))
            => \E j \in 1..Len(said) : /\ said[j].to = k
                                       /\ said[j].what.kind = "payout"
                                       /\ said[j].what.about = said[i].what.about

(* Whatever happens to the link, the thread comes back to recv: no handler    *)
(* waits for a connection that only recv can renew.                           *)
BackAtRecv == []<>atRecv

(* A PING that was received is answered, behind however many paced replies to *)
(* the commands in front of it, unless the link is lost.                      *)
PingsGetThrough ==
    \A k \in 1..Max({Len(t) : t \in Talks}) :
        (k \in (current + 1)..(current + Len(chunk)) /\ talk[k].kind = "PING")
            ~> (link = "lost" \/ \E i \in 1..Len(said) : said[i].to = k /\ said[i].what = Pong)
=============================================================================
