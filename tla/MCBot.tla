-------------------------------- MODULE MCBot --------------------------------
(* Rounds of the game as the chat plays them, with a PING here and there.     *)
EXTENDS Bot, ArrayLaws

CONSTANTS u1, u2, bob, amy, noname, notext

MCUsers == {u1, u2}
MCuserId == [u \in Users |-> IF u = u1 THEN 1 ELSE 2]
MCdisplayName == [u \in Users |-> IF u = u1 THEN bob ELSE amy]
MCNames == {bob, amy}
MCNameMatches == {<<bob, bob>>, <<amy, amy>>}
MCTexts == {notext, bob}
MCMentions == {<<bob, bob>>}
MCTeamWords == {<<bob, amy>>}

PING == [kind |-> "PING"]
open == [kind |-> "open", roles |-> {"broadcaster", "moderator"}]
play(u) == [kind |-> "play", user |-> u, roles |-> {"subscriber"}]
nextround == [kind |-> "nextround"]
d4(u) == [kind |-> "d4", user |-> u]
teams == [kind |-> "teams", roles |-> {"moderator"}, words |-> <<bob, amy>>]
winner(n) == [kind |-> "winner", n |-> n]

moderators == {"moderator"}

MCTalks ==
    { <<nextround, d4(u1), d4(u2), winner(1), PING>>,
      <<nextround, d4(u1), PING, d4(u1), winner(2)>>,
      <<nextround, d4(u2), teams, winner(2), PING>>,
      <<open, play(u1), [kind |-> "remove", text |-> bob], [kind |-> "queue"], PING>>,
      <<[kind |-> "commands", roles |-> moderators], [kind |-> "github"], PING>> }
=============================================================================
