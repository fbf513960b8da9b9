----------------------------- MODULE BotProofs -----------------------------
(* Proofs about the thread of the bot: what its parts keep they keep in the   *)
(* composition, and the chat hears the answers in order.                      *)
EXTENDS Bot, TLAPS, SequenceTheorems

-----------------------------------------------------------------------------
(* The pacer by itself, for every spacing and every resolution of the clock.  *)

(* The sample of the clock before a send is later than the send before it, so *)
(* the pause, counted from the sample before that one, keeps the send at a    *)
(* distance from the send before last.                                        *)
PausesHold ==
    LET n == Len(sends) IN
    /\ pc = "idle" => (n >= 2 => lastTime >= sends[n - 1])
    /\ pc # "idle" => (n >= 1 => lastTime >= sends[n])
    /\ pc = "asleep" => (n >= 2 => wake >= sends[n - 1] + Spacing)
    /\ pc = "ready" => (n >= 2 => now >= sends[n - 1] + Spacing)

IInv == TypeOK /\ PausesHold /\ HalfTheRateHolds

LEMMA SpacingType == Spacing \in Nat
  BY SendPacerAssumption DEF Spacing

(* The pause, rounded up to whole milliseconds, is never short.               *)
LEMMA SleepIsLongEnough ==
    ASSUME NEW diff \in Nat, diff < Spacing
    PROVE  sleepTime(diff) \in Nat /\ diff + sleepTime(diff) >= Spacing
<1> DEFINE d == Spacing - diff
           q == d \div TicksPerMs
<1>1. d \in Nat /\ TicksPerMs \in Nat \ {0}
  BY SpacingType, SendPacerAssumption
<1>2. q \in Nat /\ q * TicksPerMs <= d /\ d < (q + 1) * TicksPerMs
  <2>1. \A a \in Nat, b \in Nat \ {0} :
           /\ a \div b \in Nat
           /\ (a \div b) * b <= a
           /\ a < ((a \div b) + 1) * b
    OBVIOUS
  <2> QED
    BY <1>1, <2>1
<1>3. sleepTime(diff) = (q + 1) * TicksPerMs
  BY DEF sleepTime
<1>4. (q + 1) * TicksPerMs \in Nat
  BY <1>1, <1>2
<1> HIDE DEF q
<1> QED
  BY <1>2, <1>3, <1>4, SpacingType

LEMMA InitIInv == Init => IInv
<1> SUFFICES ASSUME Init PROVE IInv
  OBVIOUS
<1>1. sends \in Seq(Nat) /\ Len(sends) = 0
  BY EmptySeq DEF Init
<1> QED
  BY <1>1, SendPacerAssumption DEF Init, IInv, TypeOK, PausesHold, HalfTheRateHolds

LEMMA NextKeepsIInv == IInv /\ [Next]_vars => IInv'
<1> SUFFICES ASSUME IInv, [Next]_vars PROVE IInv'
  OBVIOUS
<1>1. Len(sends) \in Nat /\ \A i \in 1..Len(sends) : sends[i] \in Nat /\ sends[i] <= now
  BY LenProperties, ElementOfSeq DEF IInv, TypeOK
<1>2. CASE UNCHANGED vars
  BY <1>2 DEF vars, IInv, TypeOK, PausesHold, HalfTheRateHolds
<1>3. CASE Tick
  <2>1. TypeOK'
    BY <1>1, <1>3 DEF Tick, IInv, TypeOK
  <2>2. PausesHold'
    BY <1>1, <1>3, SpacingType DEF Tick, IInv, TypeOK, PausesHold
  <2>3. HalfTheRateHolds'
    BY <1>3 DEF Tick, IInv, HalfTheRateHolds
  <2> QED
    BY <2>1, <2>2, <2>3 DEF IInv
<1>4. CASE twitch_wait_to_not_get_banned
  <2>1. now - lastTime \in Nat
    BY DEF IInv, TypeOK
  <2>2. now - lastTime < Spacing =>
           /\ sleepTime(now - lastTime) \in Nat
           /\ now + sleepTime(now - lastTime) >= lastTime + Spacing
    <3>1. now - lastTime < Spacing =>
             /\ sleepTime(now - lastTime) \in Nat
             /\ (now - lastTime) + sleepTime(now - lastTime) >= Spacing
      BY <2>1, SleepIsLongEnough
    <3> QED
      BY <2>1, <3>1, SpacingType DEF IInv, TypeOK
  <2>3. TypeOK'
    BY <1>4, <2>1, <2>2 DEF twitch_wait_to_not_get_banned, IInv, TypeOK
  <2>4. PausesHold'
    BY <1>1, <1>4, <2>1, <2>2, SpacingType, SMTT(30)
       DEF twitch_wait_to_not_get_banned, IInv, TypeOK, PausesHold
  <2>5. HalfTheRateHolds'
    BY <1>4 DEF twitch_wait_to_not_get_banned, IInv, HalfTheRateHolds
  <2> QED
    BY <2>3, <2>4, <2>5 DEF IInv
<1>5. CASE Wake
  <2>1. TypeOK'
    BY <1>5 DEF Wake, IInv, TypeOK
  <2>2. PausesHold'
    BY <1>1, <1>5, SpacingType DEF Wake, IInv, TypeOK, PausesHold
  <2>3. HalfTheRateHolds'
    BY <1>5 DEF Wake, IInv, HalfTheRateHolds
  <2> QED
    BY <2>1, <2>2, <2>3 DEF IInv
<1>6. CASE win32_send
  <2>1. now \in Nat
    BY DEF IInv, TypeOK
  <2>2. /\ sends' \in Seq(Nat) /\ Len(sends') = Len(sends) + 1
        /\ sends'[Len(sends) + 1] = now
        /\ \A i \in 1..Len(sends) : sends'[i] = sends[i]
    BY <1>6, <2>1, AppendProperties DEF win32_send, IInv, TypeOK
  <2>3. TypeOK'
    BY <1>1, <1>6, <2>1, <2>2 DEF win32_send, IInv, TypeOK
  <2>4. PausesHold'
    BY <1>1, <1>6, <2>2 DEF win32_send, IInv, TypeOK, PausesHold
  <2>5. HalfTheRateHolds'
    <3>1. ASSUME NEW i \in 1..Len(sends'), NEW k \in 1..Len(sends'),
                 i + 2 * k <= Len(sends')
          PROVE  sends'[i + 2 * k] - sends'[i] >= k * Spacing
      <4>1. CASE i + 2 * k <= Len(sends)
        <5>1. i \in 1..Len(sends) /\ k \in 1..Len(sends) /\ i + 2 * k \in 1..Len(sends)
          BY <1>1, <4>1
        <5>2. sends'[i] = sends[i] /\ sends'[i + 2 * k] = sends[i + 2 * k]
          BY <2>2, <5>1
        <5> QED
          BY <4>1, <5>1, <5>2 DEF IInv, HalfTheRateHolds
      <4>2. CASE i + 2 * k = Len(sends) + 1
        <5>1. /\ Len(sends) >= 2 /\ i \in 1..Len(sends) /\ Len(sends) - 1 \in 1..Len(sends)
              /\ i + 2 * (k - 1) = Len(sends) - 1
          BY <1>1, <4>2
        <5>2. now - sends[Len(sends) - 1] >= Spacing
          BY <1>1, <1>6, <2>1, <5>1, SpacingType DEF win32_send, IInv, PausesHold
        <5>3. sends[Len(sends) - 1] - sends[i] >= (k - 1) * Spacing
          <6>1. CASE k = 1
            BY <1>1, <5>1, <6>1, SpacingType
          <6>2. CASE k > 1
            <7>1. k - 1 \in 1..Len(sends)
              BY <1>1, <4>2, <6>2
            <7>2. i + 2 * (k - 1) <= Len(sends) /\ i \in 1..Len(sends)
              BY <1>1, <5>1
            <7>3. sends[i + 2 * (k - 1)] - sends[i] >= (k - 1) * Spacing
              BY <7>1, <7>2 DEF IInv, HalfTheRateHolds
            <7> QED
              BY <5>1, <7>3
          <6> QED
            BY <6>1, <6>2
        <5>4. (k - 1) * Spacing + Spacing = k * Spacing /\ (k - 1) * Spacing \in Nat
          BY SpacingType
        <5>5. sends'[i] = sends[i] /\ sends'[i + 2 * k] = now
          BY <2>2, <4>2, <5>1
        <5>6. ASSUME NEW p \in Nat, sends[Len(sends) - 1] - sends[i] >= p
              PROVE  now - sends[i] >= p + Spacing
          <6>1. /\ sends[i] \in Nat /\ sends[Len(sends) - 1] \in Nat
                /\ now \in Nat /\ Spacing \in Nat
            BY <1>1, <2>1, <5>1, SpacingType
          <6> QED
            BY <5>2, <5>6, <6>1
        <5> QED
          BY <5>3, <5>4, <5>5, <5>6
      <4> QED
        BY <1>1, <2>2, <3>1, <4>1, <4>2, SMTT(30)
    <3>2. Spacing' = Spacing
      BY DEF Spacing
    <3> QED
      BY <3>1, <3>2 DEF HalfTheRateHolds
  <2> QED
    BY <2>3, <2>4, <2>5 DEF IInv
<1> QED
  BY <1>2, <1>3, <1>4, <1>5, <1>6 DEF Next

(* Never more than twice the intended rate, whatever the bot does between its *)
(* sends and however long it oversleeps.                                      *)
THEOREM AlwaysHalfTheRateHolds == Spec => []HalfTheRateHolds
<1>1. IInv => HalfTheRateHolds
  BY DEF IInv
<1> QED
  BY <1>1, InitIInv, NextKeepsIInv, PTL DEF Spec

-----------------------------------------------------------------------------
(* The composition.                                                           *)

Answer == [kind : Oj!ReplyKinds \cup {"PONG"},
           about : Users \cup Names \cup Texts \cup {NoUser}, n : Nat]

Said == [what : Answer, on : Nat, to : Nat]

-----------------------------------------------------------------------------
(* Time and the pacer: whatever the bot does, SendPacer takes a step of its   *)
(* own or none.                                                               *)

LEMMA PacerStep == [BotNext]_botVars => [Next]_vars
<1> SUFFICES ASSUME [BotNext]_botVars PROVE [Next]_vars
  OBVIOUS
<1>1. CASE recv \/ reconnect \/ dispatch \/ linkLost \/ UNCHANGED botVars
  BY <1>1 DEF recv, reconnect, dispatch, linkLost, botVars, pacer, vars
<1>2. CASE wait \/ wakeUp \/ send \/ tick
  BY <1>2 DEF wait, wakeUp, send, tick, Next
<1> QED
  BY <1>1, <1>2 DEF BotNext, thread

(* The bot implements the pacer: no handler and no loss of the link lets a    *)
(* send by it, or changes what it remembers.                                  *)
THEOREM PacerIsImplemented == BotSpec => Spec
  BY PacerStep, PTL DEF BotSpec, BotInit, Spec

(* The chat hears the bot at no more than twice the intended rate.            *)
THEOREM BotKeepsHalfTheRate == BotSpec => []HalfTheRateHolds
  BY PacerIsImplemented, AlwaysHalfTheRateHolds, PTL

-----------------------------------------------------------------------------
(* The game: a line has it take one step, and nothing else does.              *)

LEMMA LineParts ==
    ASSUME NEW line \in Line
    PROVE  /\ line.kind \in {"commands", "open", "play", "teams"} => line.roles \in Oj!Roles
           /\ line.kind \in {"play", "d4"} => line.user \in Users
           /\ line.kind = "teams" => line.words \in TeamWords
           /\ line.kind = "winner" => line.n \in 0..(NumTeams + 1)
           /\ line.kind = "remove" => line.text \in Texts
  BY DEF Line

LEMMA CommandIsAStep ==
    ASSUME NEW line \in Line, command(line)
    PROVE  Oj!Next
<1>1. CASE Oj!highp_github \/ Oj!highp_nextround \/ Oj!highp_queue
  BY <1>1 DEF Oj!Next
<1>2. CASE line.kind = "commands" /\ Oj!highp_commands(line.roles)
  BY <1>2, LineParts DEF Oj!Next
<1>3. CASE line.kind = "open" /\ Oj!highp_open(line.roles)
  BY <1>3, LineParts DEF Oj!Next
<1>4. CASE line.kind = "play" /\ Oj!highp_play(line.user, line.roles)
  BY <1>4, LineParts DEF Oj!Next
<1>5. CASE line.kind = "d4" /\ Oj!highp_d4(line.user)
  BY <1>5, LineParts DEF Oj!Next
<1>6. CASE line.kind = "teams" /\ Oj!highp_teams(line.roles, line.words)
  BY <1>6, LineParts DEF Oj!Next
<1>7. CASE line.kind = "winner" /\ Oj!highp_winner(line.n)
  BY <1>7, LineParts DEF Oj!Next
<1>8. CASE line.kind = "remove" /\ Oj!highp_remove(line.text)
  BY <1>8, LineParts DEF Oj!Next
<1> QED
  BY <1>1, <1>2, <1>3, <1>4, <1>5, <1>6, <1>7, <1>8 DEF command

(* What is on the wire and what was received are parts of the conversation,   *)
(* one behind the other at its end.                                           *)
Script ==
    /\ talk \in Seq(Line) /\ wire \in Seq(Line) /\ chunk \in Seq(Line)
    /\ Len(wire) + Len(chunk) <= Len(talk)
    /\ \A i \in 1..Len(wire) : wire[i] = talk[Len(talk) - Len(wire) + i]
    /\ \A i \in 1..Len(chunk) : chunk[i] = talk[current + i]

LEMMA InitScript == BotInit => Script
<1> SUFFICES ASSUME BotInit PROVE Script
  OBVIOUS
<1>1. talk \in Seq(Line) /\ wire = talk /\ chunk = <<>>
  BY BotAssumption DEF BotInit
<1>2. chunk \in Seq(Line) /\ Len(chunk) = 0 /\ Len(talk) \in Nat
  BY <1>1, EmptySeq, LenProperties
<1> QED
  BY <1>1, <1>2 DEF Script

LEMMA LengthsAreNat ==
    ASSUME Script
    PROVE  /\ Len(talk) \in Nat /\ Len(wire) \in Nat /\ Len(chunk) \in Nat
           /\ current \in Nat
           /\ current + Len(chunk) + Len(wire) = Len(talk)
<1>1. Len(talk) \in Nat /\ Len(wire) \in Nat /\ Len(chunk) \in Nat
  BY LenProperties DEF Script
<1> QED
  BY <1>1 DEF Script, current

(* The front of a sequence, and what is behind it.                            *)
LEMMA FrontPart ==
    ASSUME NEW S, NEW s \in Seq(S), NEW n \in 0..Len(s)
    PROVE  /\ SubSeq(s, 1, n) \in Seq(S) /\ Len(SubSeq(s, 1, n)) = n
           /\ \A i \in 1..n : SubSeq(s, 1, n)[i] = s[i]
<1>1. Len(s) \in Nat /\ \A i \in 1..n : s[i] \in S
  BY LenProperties, ElementOfSeq
<1>2. /\ SubSeq(s, 1, n) \in Seq(S)
      /\ Len(SubSeq(s, 1, n)) = IF 1 <= n THEN n - 1 + 1 ELSE 0
      /\ \A i \in 1..(n - 1 + 1) : SubSeq(s, 1, n)[i] = s[1 + i - 1]
  BY <1>1, SubSeqProperties
<1> QED
  BY <1>1, <1>2

LEMMA BackPart ==
    ASSUME NEW S, NEW s \in Seq(S), NEW n \in 0..Len(s)
    PROVE  /\ SubSeq(s, n + 1, Len(s)) \in Seq(S)
           /\ Len(SubSeq(s, n + 1, Len(s))) = Len(s) - n
           /\ \A i \in 1..(Len(s) - n) : SubSeq(s, n + 1, Len(s))[i] = s[n + i]
<1>1. Len(s) \in Nat /\ \A i \in (n + 1)..Len(s) : s[i] \in S
  BY LenProperties, ElementOfSeq
<1>2. /\ SubSeq(s, n + 1, Len(s)) \in Seq(S)
      /\ Len(SubSeq(s, n + 1, Len(s))) = IF n + 1 <= Len(s) THEN Len(s) - (n + 1) + 1 ELSE 0
      /\ \A i \in 1..(Len(s) - (n + 1) + 1) : SubSeq(s, n + 1, Len(s))[i] = s[(n + 1) + i - 1]
  BY <1>1, SubSeqProperties
<1> QED
  BY <1>1, <1>2

(* A step goes on by one line when it dispatches one, and not at all when     *)
(* lines are received or sent.                                                *)
LEMMA StillKeepsScript ==
    ASSUME Script, UNCHANGED lines
    PROVE  Script' /\ current' = current
<1>1. current' = current /\ talk' = talk /\ wire' = wire /\ chunk' = chunk
  BY DEF lines, current
<1> QED
  BY <1>1 DEF Script

LEMMA RecvKeepsScript ==
    ASSUME Script, recv
    PROVE  Script' /\ current' = current
<1>1. /\ Len(talk) \in Nat /\ Len(wire) \in Nat /\ Len(chunk) \in Nat
      /\ current = Len(talk) - Len(wire) - Len(chunk)
      /\ current' = Len(talk') - Len(wire') - Len(chunk')
  BY LengthsAreNat DEF current
<1>2. talk' = talk /\ Len(chunk) = 0
  BY EmptySeq DEF recv, atRecv
<1>3. PICK n \in 1..Len(wire) : /\ chunk' = SubSeq(wire, 1, n)
                                /\ wire' = SubSeq(wire, n + 1, Len(wire))
  BY DEF recv
<1>4. n \in 0..Len(wire) /\ wire \in Seq(Line)
  BY <1>1 DEF Script
<1>5. chunk' \in Seq(Line) /\ Len(chunk') = n /\ \A i \in 1..n : chunk'[i] = wire[i]
  BY <1>3, <1>4, FrontPart
<1>6. /\ wire' \in Seq(Line) /\ Len(wire') = Len(wire) - n
      /\ \A i \in 1..(Len(wire) - n) : wire'[i] = wire[n + i]
  BY <1>3, <1>4, BackPart
<1>7. current' = current /\ current = Len(talk) - Len(wire)
  BY <1>1, <1>2, <1>4, <1>5, <1>6
<1>8. \A i \in 1..Len(wire') : wire'[i] = talk'[Len(talk') - Len(wire') + i]
  <2> SUFFICES ASSUME NEW i \in 1..Len(wire')
               PROVE  wire'[i] = talk'[Len(talk') - Len(wire') + i]
    OBVIOUS
  <2>1. /\ i \in 1..(Len(wire) - n) /\ n + i \in 1..Len(wire)
        /\ Len(talk') - Len(wire') + i = Len(talk) - Len(wire) + (n + i)
    BY <1>1, <1>2, <1>4, <1>6
  <2> QED
    BY <1>2, <1>6, <2>1 DEF Script
<1>9. \A i \in 1..Len(chunk') : chunk'[i] = talk'[current' + i]
  <2> SUFFICES ASSUME NEW i \in 1..Len(chunk')
               PROVE  chunk'[i] = talk'[current' + i]
    OBVIOUS
  <2>1. i \in 1..n /\ i \in 1..Len(wire) /\ current' + i = Len(talk) - Len(wire) + i
    BY <1>1, <1>4, <1>5, <1>7
  <2> QED
    BY <1>2, <1>5, <2>1 DEF Script
<1> QED
  BY <1>1, <1>2, <1>4, <1>5, <1>6, <1>7, <1>8, <1>9 DEF Script

LEMMA ReconnectKeepsScript ==
    ASSUME Script, reconnect
    PROVE  Script' /\ current' >= current /\ current' \in Nat
<1>1. /\ Len(talk) \in Nat /\ Len(wire) \in Nat /\ Len(chunk) \in Nat
      /\ current = Len(talk) - Len(wire) - Len(chunk) /\ current \in Nat
      /\ current' = Len(talk') - Len(wire') - Len(chunk')
  BY LengthsAreNat DEF current
<1>2. talk' = talk /\ chunk' = chunk /\ Len(chunk) = 0
  BY EmptySeq DEF reconnect, atRecv
<1>3. PICK n \in 0..Len(wire) : wire' = SubSeq(wire, n + 1, Len(wire))
  BY DEF reconnect
<1>4. /\ wire' \in Seq(Line) /\ Len(wire') = Len(wire) - n
      /\ \A i \in 1..(Len(wire) - n) : wire'[i] = wire[n + i]
  BY <1>3, BackPart DEF Script
<1>5. current' = current + n
  BY <1>1, <1>2, <1>4
<1>6. \A i \in 1..Len(wire') : wire'[i] = talk'[Len(talk') - Len(wire') + i]
  <2> SUFFICES ASSUME NEW i \in 1..Len(wire')
               PROVE  wire'[i] = talk'[Len(talk') - Len(wire') + i]
    OBVIOUS
  <2>1. /\ i \in 1..(Len(wire) - n) /\ n + i \in 1..Len(wire)
        /\ Len(talk') - Len(wire') + i = Len(talk) - Len(wire) + (n + i)
    BY <1>1, <1>2, <1>4
  <2> QED
    BY <1>2, <1>4, <2>1 DEF Script
<1> QED
  BY <1>1, <1>2, <1>4, <1>5, <1>6 DEF Script

LEMMA DispatchKeepsScript ==
    ASSUME Script, dispatch
    PROVE  /\ Script' /\ current' = current + 1
           /\ Head(chunk) \in Line /\ Head(chunk) = talk[current']
<1>1. /\ Len(talk) \in Nat /\ Len(wire) \in Nat /\ Len(chunk) \in Nat
      /\ current = Len(talk) - Len(wire) - Len(chunk) /\ current \in Nat
      /\ current' = Len(talk') - Len(wire') - Len(chunk')
  BY LengthsAreNat DEF current
<1>2. talk' = talk /\ wire' = wire /\ chunk # <<>> /\ chunk' = Tail(chunk)
  BY DEF dispatch, rest
<1>3. /\ Head(chunk) \in Line
      /\ chunk' \in Seq(Line) /\ Len(chunk') = Len(chunk) - 1
      /\ \A i \in 1..Len(chunk') : chunk'[i] = chunk[i + 1]
  BY <1>2, HeadTailProperties DEF Script
<1>4. Len(chunk) > 0 /\ Head(chunk) = chunk[1]
  BY <1>1, <1>2, EmptySeq DEF Script
<1>5. current' = current + 1
  BY <1>1, <1>2, <1>3
<1>6. \A i \in 1..Len(chunk') : chunk'[i] = talk'[current' + i]
  <2> SUFFICES ASSUME NEW i \in 1..Len(chunk')
               PROVE  chunk'[i] = talk'[current' + i]
    OBVIOUS
  <2>1. Len(chunk') = Len(chunk) - 1 /\ Len(chunk) \in Nat /\ current \in Nat
    BY <1>1, <1>3
  <2>2. i + 1 \in 1..Len(chunk)
    BY <2>1
  <2>3. current' + i = current + (i + 1)
    BY <1>5, <2>1
  <2> QED
    BY <1>2, <1>3, <2>2, <2>3 DEF Script
<1>7. chunk[1] = talk[current + 1]
  <2>1. 1 \in 1..Len(chunk)
    BY <1>1, <1>4
  <2> QED
    BY <2>1 DEF Script
<1> QED
  BY <1>1, <1>2, <1>3, <1>4, <1>5, <1>6, <1>7 DEF Script

(* All the steps that leave the lines alone.                                  *)
LEMMA OtherSteps ==
    ASSUME [BotNext]_botVars
    PROVE  recv \/ reconnect \/ dispatch \/ UNCHANGED lines
  BY DEF BotNext, thread, wait, wakeUp, send, linkLost, tick, botVars

LEMMA NextKeepsScript == Script /\ [BotNext]_botVars => Script'
  BY OtherSteps, StillKeepsScript, RecvKeepsScript, ReconnectKeepsScript, DispatchKeepsScript

LEMMA GameStep == Script /\ [BotNext]_botVars => [Oj!Next]_Oj!vars
<1> SUFFICES ASSUME Script, [BotNext]_botVars PROVE [Oj!Next]_Oj!vars
  OBVIOUS
<1>1. CASE dispatch
  <2>1. Head(chunk) \in Line
    BY <1>1, DispatchKeepsScript
  <2>2. command(Head(chunk)) \/ UNCHANGED oj
    BY <1>1 DEF dispatch
  <2>3. command(Head(chunk)) => Oj!Next
    BY <2>1, CommandIsAStep
  <2>4. UNCHANGED oj => UNCHANGED Oj!vars
    BY DEF oj, Oj!vars
  <2> QED
    BY <2>2, <2>3, <2>4
<1>2. CASE recv \/ reconnect \/ wait \/ wakeUp \/ send \/ linkLost \/ tick \/ UNCHANGED botVars
  BY <1>2 DEF recv, reconnect, wait, wakeUp, send, linkLost, tick, botVars, oj, Oj!vars
<1> QED
  BY <1>1, <1>2 DEF BotNext, thread

(* The bot implements the game: pacing, sending and a lost link take nothing  *)
(* from it and put nothing between.                                           *)
THEOREM GameIsImplemented == BotSpec => Oj!Spec
<1>1. BotInit => Oj!Init
  BY DEF BotInit
<1> QED
  BY <1>1, InitScript, NextKeepsScript, GameStep, PTL DEF BotSpec, Oj!Spec

-----------------------------------------------------------------------------
(* The order of the answers to one command.                                   *)

LEMMA Places ==
    ASSUME Oj!IInv, Oj!Next, NEW r \in replies'
    PROVE  /\ place(r) \in Nat
           /\ r.kind = "payout_leader" => place(r) = 0
           /\ r.kind = "payout" => place(r) \in 1..Len(registeredTeamMembers)
           /\ r.kind \notin Oj!Payouts => place(r) = Len(registeredTeamMembers) + 1
<1> DEFINE members == registeredTeamMembers
           found == Oj!array_find_member(members, r.about)
<1>1. members \in Seq(Oj!Member) /\ Len(members) \in Nat
  BY LenProperties DEF Oj!IInv, Oj!TypeOK
<1>2. CASE r.kind = "payout"
  <2>1. PICK i \in 1..Len(members) : r.about = members[i].user
    <3>1. Oj!OneAnswer
      BY Oj!EveryCommandAnswersOnce, BotAssumption
    <3> QED
      BY <1>2, <3>1 DEF Oj!OneAnswer
  <2>2. members[i].user \in Users
    <3>1. members[i] \in Oj!Member
      BY <1>1, <2>1, ElementOfSeq
    <3> QED
      BY <3>1 DEF Oj!Member
  <2>3. found \in 0..Len(members)
    BY <1>1, <2>1, <2>2, Oj!FindMember, BotAssumption DEF Oj!IInv, Oj!OneSlotPerUser
  <2>4. found # 0
    BY <1>1, <2>1, <2>2, Oj!FindMember, BotAssumption DEF Oj!IInv, Oj!OneSlotPerUser
  <2>5. place(r) = found
    BY <1>2 DEF place
  <2> HIDE DEF found
  <2> QED
    BY <1>1, <1>2, <2>3, <2>4, <2>5 DEF Oj!Payouts
<1>3. CASE r.kind # "payout"
  BY <1>1, <1>3 DEF place, Oj!Payouts
<1> QED
  BY <1>2, <1>3

(* The answers left to send: none twice, only payouts in front of others, and *)
(* no leader's behind another.                                                *)
Ranked(answers) ==
    \A i, j \in 1..Len(answers) : i < j =>
        /\ answers[i] # answers[j]
        /\ answers[i].kind \in {"payout_leader", "payout"}
        /\ answers[j].kind # "payout_leader"

LEMMA SameCardinality == \A S : Oj!Cardinality(S) = Cardinality(S)
  BY DEF Cardinality, Oj!Cardinality

LEMMA InOrderIsDefined ==
    ASSUME Oj!IInv, Oj!Next
    PROVE  /\ Cardinality(replies') \in Nat
           /\ inOrder(replies') \in [1..Cardinality(replies') -> replies']
           /\ \A i, j \in 1..Cardinality(replies') : i < j =>
                 /\ inOrder(replies')[i] # inOrder(replies')[j]
                 /\ place(inOrder(replies')[i]) <= place(inOrder(replies')[j])
<1> DEFINE p == [r \in replies' |-> place(r)]
           s == inOrder(replies')
           n == Cardinality(replies')
<1>1. Oj!OneAnswer
  BY Oj!EveryCommandAnswersOnce, BotAssumption
<1>2. p \in [replies' -> Nat]
  BY Places
<1>3. n \in Nat /\ \E t : Oj!Ordered(replies', p, t)
  <2>1. n = Oj!Cardinality(replies')
    BY SameCardinality
  <2> HIDE DEF p, n
  <2> QED
    BY <1>1, <1>2, <2>1, Oj!AnswersHaveOrder, BotAssumption
<1>4. \E t \in [1..n -> replies'] : \A i, j \in DOMAIN t :
         i < j => t[i] # t[j] /\ place(t[i]) <= place(t[j])
  <2>1. n = Oj!Cardinality(replies')
    BY SameCardinality
  <2>2. PICK t : Oj!Ordered(replies', p, t)
    BY <1>3
  <2> HIDE DEF n
  <2>3. /\ t \in [1..n -> replies']
        /\ \A i, j \in 1..n : i < j => t[i] # t[j] /\ p[t[i]] <= p[t[j]]
    BY <2>1, <2>2 DEF Oj!Ordered
  <2>4. /\ DOMAIN t = 1..n
        /\ \A i \in 1..n : p[t[i]] = place(t[i])
    BY <2>3
  <2> HIDE DEF p
  <2> QED
    BY <2>3, <2>4
<1>5. /\ s \in [1..n -> replies']
      /\ \A i, j \in 1..n : i < j => s[i] # s[j] /\ place(s[i]) <= place(s[j])
  BY <1>4 DEF inOrder
<1> QED
  BY <1>3, <1>5

LEMMA AnswersAreRanked ==
    ASSUME Oj!IInv, Oj!Next
    PROVE  inOrder(replies') \in Seq(replies') /\ Ranked(inOrder(replies'))
<1> DEFINE s == inOrder(replies')
           n == Cardinality(replies')
<1>1. Oj!OneAnswer
  BY Oj!EveryCommandAnswersOnce, BotAssumption
<1>3. n \in Nat
  BY InOrderIsDefined
<1>5. /\ s \in [1..n -> replies']
      /\ \A i, j \in 1..n : i < j => s[i] # s[j] /\ place(s[i]) <= place(s[j])
  BY InOrderIsDefined
<1>6. s \in Seq(replies') /\ Len(s) = n
  BY <1>3, <1>5
<1>7. ASSUME NEW i \in 1..n, NEW j \in 1..n, i < j
      PROVE  /\ s[i] # s[j]
             /\ s[i].kind \in {"payout_leader", "payout"}
             /\ s[j].kind # "payout_leader"
  <2> DEFINE a == s[i]
             b == s[j]
             last == Len(registeredTeamMembers) + 1
  <2>1. a \in replies' /\ b \in replies' /\ a # b /\ place(a) <= place(b)
    BY <1>5, <1>7
  <2>2. /\ Len(registeredTeamMembers) \in Nat
        /\ place(a) \in Nat /\ place(b) \in Nat
    BY <2>1, Places, LenProperties DEF Oj!IInv, Oj!TypeOK
  <2>3. /\ a.kind = "payout" => place(a) # 0 
        /\ a.kind \notin Oj!Payouts => place(a) = last
        /\ b.kind = "payout_leader" => place(b) = 0
        /\ b.kind = "payout" => place(b) < last
    BY <2>1, <2>2, Places
  <2>4. /\ a.kind = "payout_leader" => b.kind # "payout_leader"
        /\ a.kind \notin Oj!Payouts => b.kind \in Oj!Payouts
    BY <1>1, <2>1 DEF Oj!OneAnswer
  <2> HIDE DEF a, b
  <2>5. b.kind # "payout_leader"
    BY <2>1, <2>2, <2>3, <2>4 DEF Oj!Payouts
  <2>6. a.kind \in {"payout_leader", "payout"}
    BY <2>1, <2>2, <2>3, <2>4, <2>5 DEF Oj!Payouts
  <2> QED
    BY <2>1, <2>5, <2>6 DEF a, b
<1> QED
  BY <1>6, <1>7 DEF Ranked

-----------------------------------------------------------------------------
(* The inductive invariant: beside what the parts keep and the place in the   *)
(* conversation, what is left to send and what was said.                      *)

Sending ==
    /\ outbox \in Seq(Answer) /\ said \in Seq(Said)
    /\ link \in {"up", "lost"} /\ session \in 1..(MaxLosses + 1)
    /\ link = "lost" => session <= MaxLosses
    /\ pc # "idle" => outbox # <<>>
    /\ outbox # <<>> => current > 0
    /\ \A i \in 1..Len(said) : said[i].to \in 1..current /\ said[i].on \in 1..session
    /\ Len(said) <= Len(sends)

(* What was said to the line under way is a payout, said on this connection,  *)
(* and not left to send; what is left goes on where it stopped.               *)
Continued ==
    outbox # <<>> => \A i \in 1..Len(said) : said[i].to = current =>
        /\ said[i].on = session
        /\ said[i].what.kind \in {"payout_leader", "payout"}
        /\ \A j \in 1..Len(outbox) :
              said[i].what # outbox[j] /\ outbox[j].kind # "payout_leader"

BotIInv ==
    /\ IInv
    /\ Oj!IInv
    /\ Script
    /\ Sending
    /\ Ranked(outbox)
    /\ Continued
    /\ AnswersInOrder

LEMMA InitBotIInv == BotInit => BotIInv
<1> SUFFICES ASSUME BotInit PROVE BotIInv
  OBVIOUS
<1>1. IInv /\ Oj!IInv /\ Script
  BY InitIInv, Oj!InitIInv, InitScript, BotAssumption DEF BotInit
<1>2. outbox = <<>> /\ said = <<>> /\ link = "up" /\ session = 1 /\ pc = "idle" /\ sends = <<>>
  BY DEF BotInit, Init
<1>3. /\ outbox \in Seq(Answer) /\ Len(outbox) = 0
      /\ said \in Seq(Said) /\ Len(said) = 0 /\ Len(sends) = 0
  BY <1>2, EmptySeq
<1>4. Sending
  BY <1>2, <1>3, BotAssumption DEF Sending
<1>5. Ranked(outbox) /\ Continued /\ AnswersInOrder
  BY <1>2, <1>3 DEF Ranked, Continued, AnswersInOrder
<1> QED
  BY <1>1, <1>4, <1>5 DEF BotIInv

LEMMA NothingSaid ==
    ASSUME BotIInv, UNCHANGED <<outbox, session, said, sends>>, current' = current,
           link' = link \/ (link' = "lost" /\ session <= MaxLosses),
           pc' # "idle" => outbox # <<>>
    PROVE  Sending' /\ Ranked(outbox)' /\ Continued' /\ AnswersInOrder'
<1>1. Sending'
  BY DEF BotIInv, Sending
<1>2. Ranked(outbox)'
  BY DEF BotIInv, Ranked
<1>3. Continued'
  BY DEF BotIInv, Continued
<1>4. AnswersInOrder'
  BY DEF BotIInv, AnswersInOrder
<1> QED
  BY <1>1, <1>2, <1>3, <1>4

LEMMA ReconnectKeepsOrder ==
    ASSUME BotIInv, reconnect
    PROVE  Sending' /\ Ranked(outbox)' /\ Continued' /\ AnswersInOrder'
<1>1. /\ UNCHANGED <<outbox, said, sends, pc>> /\ outbox = <<>> /\ pc = "idle"
      /\ link' = "up" /\ session' = session + 1 /\ link = "lost"
  BY DEF reconnect, atRecv, pacer
<1>2. current' \in Nat /\ current' >= current /\ current \in Nat
  BY ReconnectKeepsScript, LengthsAreNat DEF BotIInv
<1>3. Sending'
  BY <1>1, <1>2, BotAssumption DEF BotIInv, Sending
<1>4. Ranked(outbox)' /\ Continued'
  BY <1>1, EmptySeq DEF BotIInv, Ranked, Continued
<1>5. AnswersInOrder'
  BY <1>1 DEF BotIInv, AnswersInOrder
<1> QED
  BY <1>3, <1>4, <1>5

(* A line that is dispatched is answered by nobody yet.                       *)
LEMMA DispatchKeepsOrder ==
    ASSUME BotIInv, dispatch
    PROVE  Sending' /\ Ranked(outbox)' /\ Continued' /\ AnswersInOrder'
<1>1. /\ UNCHANGED <<said, sends, pc, link, session>> /\ pc = "idle"
  BY DEF dispatch, pacer
<1>2. current' = current + 1 /\ current \in Nat /\ Head(chunk) \in Line
  BY DispatchKeepsScript, LengthsAreNat DEF BotIInv
<1>3. outbox' \in Seq(Answer) /\ Ranked(outbox')
  <2>1. CASE outbox' = <<Pong>>
    <3>1. Pong \in Answer
      BY BotAssumption DEF Pong, Oj!Reply, Answer
    <3>2. outbox' \in Seq(Answer) /\ Len(outbox') = 1
      BY <2>1, <3>1
    <3> QED
      BY <3>2 DEF Ranked
  <2>2. CASE outbox' = <<>>
    <3>1. outbox' \in Seq(Answer) /\ Len(outbox') = 0
      BY <2>2, EmptySeq
    <3> QED
      BY <3>1 DEF Ranked
  <2>3. CASE command(Head(chunk)) /\ outbox' = inOrder(replies')
    <3>1. Oj!Next
      BY <1>2, <2>3, CommandIsAStep
    <3>2. replies' \subseteq Oj!Messages
      BY <3>1, Oj!NextKeepsIInv, BotAssumption DEF BotIInv, Oj!IInv, Oj!TypeOK
    <3>3. Oj!Messages \subseteq Answer
      BY DEF Oj!Messages, Answer
    <3>4. inOrder(replies') \in Seq(replies') /\ Ranked(inOrder(replies'))
      BY <3>1, AnswersAreRanked DEF BotIInv
    <3>5. inOrder(replies') \in Seq(Answer)
      BY <3>2, <3>3, <3>4, SeqMonotonic
    <3> QED
      BY <2>3, <3>4, <3>5
  <2> QED
    BY <2>1, <2>2, <2>3 DEF dispatch
<1>4. Sending'
  BY <1>1, <1>2, <1>3 DEF BotIInv, Sending
<1>5. Ranked(outbox)'
  BY <1>3 DEF Ranked
<1>6. Continued'
  <2>1. \A i \in 1..Len(said) : said[i].to # current'
    BY <1>2 DEF BotIInv, Sending
  <2> QED
    BY <1>1, <2>1 DEF Continued
<1>7. AnswersInOrder'
  BY <1>1 DEF BotIInv, AnswersInOrder
<1> QED
  BY <1>4, <1>5, <1>6, <1>7

LEMMA SendKeepsOrder ==
    ASSUME BotIInv, send
    PROVE  Sending' /\ Ranked(outbox)' /\ Continued' /\ AnswersInOrder'
<1> DEFINE n == Len(said)
           item == [what |-> Head(outbox), on |-> session, to |-> current]
<1>1. /\ outbox # <<>> /\ outbox' = Tail(outbox) /\ UNCHANGED <<link, session>>
      /\ pc' = "idle" /\ current' = current
      /\ said' = IF link = "up" THEN Append(said, item) ELSE said
      /\ sends' = Append(sends, now)
  BY DEF send, left, win32_send, lines, current, BotIInv, Sending
<1>2. /\ current \in Nat \ {0} /\ session \in Nat /\ session \in 1..(MaxLosses + 1)
      /\ n \in Nat /\ Len(sends) \in Nat /\ n <= Len(sends)
  BY <1>1, LengthsAreNat, LenProperties, BotAssumption DEF BotIInv, Sending, IInv, TypeOK
<1>3. /\ Head(outbox) \in Answer /\ Head(outbox) = outbox[1]
      /\ outbox' \in Seq(Answer) /\ Len(outbox') = Len(outbox) - 1
      /\ Len(outbox) \in Nat \ {0}
      /\ \A j \in 1..Len(outbox') : outbox'[j] = outbox[j + 1]
  BY <1>1, HeadTailProperties, EmptySeq DEF BotIInv, Sending
<1>4. item \in Said
  BY <1>2, <1>3 DEF Said
<1>5. Len(sends') = Len(sends) + 1
  <2>1. now \in Nat /\ sends \in Seq(Nat)
    BY DEF BotIInv, IInv, TypeOK
  <2>2. Len(Append(sends, now)) = Len(sends) + 1
    BY <2>1, AppendProperties
  <2> QED
    BY <1>1, <2>2
<1>6. Ranked(outbox)'
  <2> SUFFICES ASSUME NEW i \in 1..Len(outbox'), NEW j \in 1..Len(outbox'), i < j
               PROVE  /\ outbox'[i] # outbox'[j]
                      /\ outbox'[i].kind \in {"payout_leader", "payout"}
                      /\ outbox'[j].kind # "payout_leader"
    BY DEF Ranked
  <2>1. i + 1 \in 1..Len(outbox) /\ j + 1 \in 1..Len(outbox) /\ i + 1 < j + 1
    BY <1>3
  <2>2. outbox'[i] = outbox[i + 1] /\ outbox'[j] = outbox[j + 1]
    BY <1>3
  <2>3. Ranked(outbox)
    BY DEF BotIInv
  <2> QED
    BY <2>1, <2>2, <2>3 DEF Ranked
<1>7. CASE link # "up"
  <2>1. said' = said
    BY <1>1, <1>7
  <2>2. Sending'
    <3> HIDE DEF item
    <3>1. \A i \in 1..Len(said') : said'[i].to \in 1..current' /\ said'[i].on \in 1..session'
      BY <1>1, <2>1 DEF BotIInv, Sending
    <3>2. /\ said' \in Seq(Said)
          /\ link' \in {"up", "lost"} /\ session' \in 1..(MaxLosses + 1)
          /\ link' = "lost" => session' <= MaxLosses
      BY <1>1, <2>1 DEF BotIInv, Sending
    <3>3. current' > 0 /\ Len(said') <= Len(sends')
      BY <1>1, <1>2, <1>5, <2>1
    <3> QED
      BY <1>1, <1>3, <3>1, <3>2, <3>3 DEF Sending
  <2>3. Continued'
    BY <1>1, <1>3, <2>1 DEF BotIInv, Continued
  <2>4. AnswersInOrder'
    BY <2>1 DEF BotIInv, AnswersInOrder
  <2> QED
    BY <1>6, <2>2, <2>3, <2>4
<1>8. CASE link = "up"
  <2> HIDE DEF item
  <2>1. /\ said' \in Seq(Said) /\ Len(said') = n + 1
        /\ said'[n + 1] = item
        /\ \A i \in 1..n : said'[i] = said[i]
    BY <1>1, <1>4, <1>8, AppendProperties DEF BotIInv, Sending
  <2>2. item.what = outbox[1] /\ item.on = session /\ item.to = current
    BY <1>3 DEF item
  <2>3. \A i \in 1..n : said[i].to \in 1..current /\ said[i].on \in 1..session
    BY DEF BotIInv, Sending
  <2>4. Sending'
    <3>1. \A i \in 1..Len(said') : said'[i].to \in 1..current' /\ said'[i].on \in 1..session'
      BY <1>1, <1>2, <2>1, <2>2, <2>3
    <3> QED
      BY <1>1, <1>2, <1>3, <1>5, <2>1, <3>1 DEF BotIInv, Sending
  <2>5. \A i \in 1..n : said[i].to = current =>
           /\ said[i].on = session
           /\ said[i].what.kind \in {"payout_leader", "payout"}
           /\ \A j \in 1..Len(outbox) :
                 said[i].what # outbox[j] /\ outbox[j].kind # "payout_leader"
    BY <1>1 DEF BotIInv, Continued
  <2>6. Continued'
    <3> SUFFICES ASSUME NEW i \in 1..Len(said'), said'[i].to = current, NEW j \in 1..Len(outbox')
                 PROVE  /\ said'[i].on = session
                        /\ said'[i].what.kind \in {"payout_leader", "payout"}
                        /\ said'[i].what # outbox'[j] /\ outbox'[j].kind # "payout_leader"
      BY <1>1 DEF Continued
    <3>1. j + 1 \in 1..Len(outbox) /\ 1 \in 1..Len(outbox) /\ 1 < j + 1
      BY <1>3
    <3>2. CASE i = n + 1
      <4>1. said'[i].on = session /\ said'[i].what = outbox[1] /\ outbox'[j] = outbox[j + 1]
        BY <1>3, <2>1, <2>2, <3>2
      <4>2. Ranked(outbox)
        BY DEF BotIInv
      <4> QED
        BY <3>1, <4>1, <4>2 DEF Ranked
    <3>3. CASE i \in 1..n
      BY <1>3, <2>1, <2>5, <3>1, <3>3
    <3> QED
      BY <1>2, <2>1, <3>2, <3>3
  <2>7. AnswersInOrder'
    <3> SUFFICES ASSUME NEW i \in 1..(n + 1), NEW j \in 1..(n + 1), i < j
                 PROVE  /\ said'[i].to <= said'[j].to
                        /\ said'[i].on <= said'[j].on
                        /\ said'[i].to = said'[j].to =>
                              /\ said'[i].on = said'[j].on
                              /\ said'[i].what # said'[j].what
                              /\ said'[i].what.kind \in {"payout_leader", "payout"}
                              /\ said'[j].what.kind # "payout_leader"
      BY <2>1 DEF AnswersInOrder
    <3>1. CASE j \in 1..n
      <4>1. i \in 1..n /\ said'[i] = said[i] /\ said'[j] = said[j]
        BY <1>2, <2>1, <3>1
      <4> QED
        BY <3>1, <4>1 DEF BotIInv, AnswersInOrder
    <3>2. CASE j = n + 1
      <4>1. i \in 1..n /\ said'[i] = said[i] /\ said'[j] = item /\ 1 \in 1..Len(outbox)
        BY <1>2, <1>3, <2>1, <3>2
      <4> QED
        BY <1>2, <2>2, <2>3, <2>5, <4>1
    <3> QED
      BY <1>2, <3>1, <3>2
  <2> QED
    BY <1>6, <2>4, <2>6, <2>7
<1> QED
  BY <1>7, <1>8

LEMMA NextKeepsBotIInv == BotIInv /\ [BotNext]_botVars => BotIInv'
<1> SUFFICES ASSUME BotIInv, [BotNext]_botVars PROVE BotIInv'
  OBVIOUS
<1>1. IInv' /\ Oj!IInv' /\ Script'
  BY PacerStep, NextKeepsIInv, GameStep, Oj!NextKeepsIInv, NextKeepsScript, BotAssumption
     DEF BotIInv
<1>2. Sending' /\ Ranked(outbox)' /\ Continued' /\ AnswersInOrder'
  <2>1. CASE recv
    <3>1. current' = current
      BY <2>1, RecvKeepsScript DEF BotIInv
    <3>2. UNCHANGED <<outbox, session, said, sends>> /\ link' = link /\ pc' = "idle"
      BY <2>1 DEF recv, atRecv, pacer
    <3> QED
      BY <3>1, <3>2, NothingSaid
  <2>2. CASE wait \/ wakeUp \/ linkLost \/ tick \/ UNCHANGED botVars
    <3>1. UNCHANGED lines
      BY <2>2 DEF wait, wakeUp, linkLost, tick, botVars
    <3>2. current' = current
      BY <3>1, StillKeepsScript DEF BotIInv
    <3>3. /\ UNCHANGED <<outbox, session, said, sends>>
          /\ link' = link \/ (link' = "lost" /\ session <= MaxLosses)
          /\ pc' # "idle" => outbox # <<>>
      <4>1. CASE wait
        BY <4>1 DEF wait, twitch_wait_to_not_get_banned
      <4>2. CASE wakeUp
        BY <4>2 DEF wakeUp, Wake, BotIInv, Sending
      <4>3. CASE linkLost \/ UNCHANGED botVars
        BY <4>3 DEF linkLost, botVars, pacer, BotIInv, Sending
      <4>4. CASE tick
        <5>1. Tick /\ UNCHANGED <<outbox, link, session, said>>
          BY <4>4 DEF tick
        <5> QED
          BY <5>1 DEF Tick, BotIInv, Sending
      <4> QED
        BY <2>2, <4>1, <4>2, <4>3, <4>4
    <3> QED
      BY <3>2, <3>3, NothingSaid DEF BotIInv, Sending
  <2>3. CASE reconnect \/ dispatch \/ send
    BY <2>3, ReconnectKeepsOrder, DispatchKeepsOrder, SendKeepsOrder
  <2> QED
    BY <2>1, <2>2, <2>3 DEF BotNext, thread
<1> QED
  BY <1>1, <1>2 DEF BotIInv

(* The chat hears the answers in the order of the lines, each once and on one *)
(* connection, and those to a !winner in their order, wherever the link is    *)
(* lost in between.                                                           *)
THEOREM AlwaysAnswersInOrder == BotSpec => []AnswersInOrder
<1>1. BotIInv => AnswersInOrder
  BY DEF BotIInv
<1> QED
  BY <1>1, InitBotIInv, NextKeepsBotIInv, PTL DEF BotSpec

LEMMA ScriptIsCut ==
    ASSUME Script
    PROVE  /\ wire = SubSeq(talk, Len(talk) - Len(wire) + 1, Len(talk))
           /\ chunk = SubSeq(talk, current + 1, current + Len(chunk))
<1>1. /\ Len(talk) \in Nat /\ Len(wire) \in Nat /\ Len(chunk) \in Nat
      /\ current \in Nat /\ current + Len(chunk) + Len(wire) = Len(talk)
  BY LengthsAreNat
<1>2. wire = SubSeq(talk, Len(talk) - Len(wire) + 1, Len(talk))
  <2> DEFINE n == Len(talk) - Len(wire)
             part == SubSeq(talk, n + 1, Len(talk))
  <2>1. n \in 0..Len(talk) /\ Len(talk) - n = Len(wire)
    BY <1>1
  <2>2. talk \in Seq(Line) /\ wire \in Seq(Line)
    BY DEF Script
  <2>3. \A i \in 1..Len(wire) : wire[i] = talk[n + i]
    BY DEF Script
  <2> HIDE DEF n
  <2>4. /\ part \in Seq(Line) /\ Len(part) = Len(wire)
        /\ \A i \in 1..Len(wire) : part[i] = talk[n + i]
    BY <2>1, <2>2, BackPart
  <2>5. \A i \in 1..Len(wire) : wire[i] = part[i]
    BY <2>3, <2>4
  <2> HIDE DEF part
  <2>6. wire = part
    BY <2>2, <2>4, <2>5, SeqEqual
  <2> QED
    BY <2>6 DEF n, part
<1>3. chunk = SubSeq(talk, current + 1, current + Len(chunk))
  <2> DEFINE n == current
             k == Len(chunk)
             part == SubSeq(talk, n + 1, n + k)
  <2>1. talk \in Seq(Line) /\ chunk \in Seq(Line) /\ n \in Nat /\ k \in Nat /\ n + k <= Len(talk)
    BY <1>1 DEF Script
  <2>2. \A i \in 1..k : chunk[i] = talk[n + i]
    BY DEF Script
  <2> HIDE DEF n, k
  <2>3. \A i \in (n + 1)..(n + k) : talk[i] \in Line
    BY <1>1, <2>1, ElementOfSeq
  <2>4. /\ part \in Seq(Line)
        /\ Len(part) = IF n + 1 <= n + k THEN n + k - (n + 1) + 1 ELSE 0
        /\ \A i \in 1..(n + k - (n + 1) + 1) : part[i] = talk[(n + 1) + i - 1]
    BY <2>1, <2>3, SubSeqProperties
  <2>5. Len(part) = k /\ \A i \in 1..k : part[i] = talk[n + i]
    BY <2>1, <2>4
  <2>6. \A i \in 1..k : chunk[i] = part[i]
    BY <2>2, <2>5
  <2> HIDE DEF part
  <2>7. chunk = part
    BY <2>1, <2>4, <2>5, <2>6, SeqEqual DEF k
  <2> QED
    BY <2>7 DEF n, k, part
<1> QED
  BY <1>2, <1>3

(* What the parts keep, they keep together, whatever line comes when and      *)
(* whenever the link is lost; the thread never sends for no line.             *)
THEOREM BotTypeCorrect == BotSpec => []BotTypeOK
<1>1. BotIInv => BotTypeOK
  BY ScriptIsCut DEF BotIInv, BotTypeOK, IInv, Oj!IInv, Sending
<1> QED
  BY <1>1, InitBotIInv, NextKeepsBotIInv, PTL DEF BotSpec

-----------------------------------------------------------------------------
(* What a viewer was told is what he is paid.                                 *)

Told(r) == r.kind \in {"team", "already_on_team"}

(* Since line k was answered, the round has not ended.                        *)
SameRound(k) == \A l \in (k + 1)..current : ~endsRound(talk[l])

(* Whoever is told his team, or was told in this round, is on it.             *)
OnHisTeam ==
    session = 1 =>
        /\ \A j \in 1..Len(outbox) : Told(outbox[j]) =>
              state = "IN_PROGRESS" /\ Oj!OnTeam(registeredTeamMembers, outbox[j].about, outbox[j].n)
        /\ \A i \in 1..Len(said) : Told(said[i].what) /\ SameRound(said[i].to) =>
              state = "IN_PROGRESS" /\ Oj!OnTeam(registeredTeamMembers, said[i].what.about, said[i].what.n)

IsPayout(r, user) == r.kind = "payout" /\ r.about = user

(* When his team wins, the payout is said or still to be sent.                *)
PayoutIsDue ==
    session = 1 /\ link = "up" =>
        \A i \in 1..Len(said) : \A k \in (said[i].to + 1)..current :
            (/\ Told(said[i].what)
             /\ talk[k].kind = "winner" /\ talk[k].n = said[i].what.n
             /\ \A l \in (said[i].to + 1)..(k - 1) : ~endsRound(talk[l]))
            => \/ \E j \in 1..Len(said) : said[j].to = k /\ IsPayout(said[j].what, said[i].what.about)
               \/ k = current /\ \E j \in 1..Len(outbox) : IsPayout(outbox[j], said[i].what.about)

PaidIInv == BotIInv /\ OnHisTeam /\ PayoutIsDue

(* inOrder leaves out no answer.                                              *)
LEMMA AllAreSent ==
    ASSUME Oj!IInv, Oj!Next, NEW r \in replies'
    PROVE  \E j \in 1..Len(inOrder(replies')) : inOrder(replies')[j] = r
<1> DEFINE s == inOrder(replies')
           n == Cardinality(replies')
<1>1. Oj!OneAnswer
  BY Oj!EveryCommandAnswersOnce, BotAssumption
<1>2. n \in Nat /\ s \in [1..n -> replies'] /\ \A i, j \in 1..n : i < j => s[i] # s[j]
  BY InOrderIsDefined
<1>3. n = Oj!Cardinality(replies')
  BY SameCardinality
<1> HIDE DEF s, n
<1>4. \E j \in 1..n : s[j] = r
  BY <1>1, <1>2, <1>3, Oj!OrderIsComplete, BotAssumption
<1>5. Len(s) = n
  BY <1>2
<1> QED
  BY <1>4, <1>5 DEF s

LEMMA CommandWithinRound ==
    ASSUME NEW line \in Line, command(line), ~endsRound(line)
    PROVE  Oj!WithinRound
<1>1. CASE Oj!highp_github \/ Oj!highp_nextround \/ Oj!highp_queue
  BY <1>1 DEF Oj!WithinRound
<1>2. CASE line.kind = "commands" /\ Oj!highp_commands(line.roles)
  BY <1>2, LineParts DEF Oj!WithinRound
<1>3. line.kind # "open"
  BY DEF endsRound
<1>4. CASE line.kind = "play" /\ Oj!highp_play(line.user, line.roles)
  BY <1>4, LineParts DEF Oj!WithinRound
<1>5. CASE line.kind = "d4" /\ Oj!highp_d4(line.user)
  BY <1>5, LineParts DEF Oj!WithinRound
<1>6. CASE line.kind = "teams" /\ Oj!highp_teams(line.roles, line.words)
  BY <1>6, LineParts DEF Oj!WithinRound
<1>7. CASE line.kind = "winner" /\ Oj!highp_winner(line.n)
  <2>1. line.n \in (0..(NumTeams + 1)) \ Oj!Teams
    BY <1>7, LineParts DEF endsRound
  <2> QED
    BY <1>7, <2>1 DEF Oj!WithinRound
<1>8. CASE line.kind = "remove" /\ Oj!highp_remove(line.text)
  BY <1>8, LineParts DEF Oj!WithinRound
<1> QED
  BY <1>1, <1>2, <1>3, <1>4, <1>5, <1>6, <1>7, <1>8 DEF command

(* Those who are told their team in answer to a line are on it, and those who *)
(* were on a team stay on it unless the line ends the round.                  *)
LEMMA DispatchKeepsTeams ==
    ASSUME Oj!EverybodyFits, PaidIInv, dispatch, session = 1
    PROVE  OnHisTeam'
<1> DEFINE c == current + 1
<1>1. /\ UNCHANGED <<said, session>> /\ talk' = talk
      /\ current' = c /\ current \in Nat /\ Head(chunk) \in Line /\ Head(chunk) = talk[c]
  BY DispatchKeepsScript, LengthsAreNat DEF dispatch, PaidIInv, BotIInv
<1>2. \/ /\ Head(chunk).kind = "PING" /\ outbox' = <<Pong>> /\ UNCHANGED oj
      \/ command(Head(chunk)) /\ outbox' = inOrder(replies')
  BY DEF dispatch, understood
<1>3. ASSUME NEW j \in 1..Len(outbox'), Told(outbox'[j])
      PROVE  state' = "IN_PROGRESS" /\ Oj!OnTeam(registeredTeamMembers', outbox'[j].about, outbox'[j].n)
  <2>1. CASE outbox' = <<Pong>>
    <3>1. Len(outbox') = 1 /\ outbox'[1] = Pong
      BY <2>1
    <3>2. ~Told(Pong)
      BY DEF Told, Pong, Oj!Reply
    <3> QED
      BY <1>3, <3>1, <3>2
  <2>2. CASE command(Head(chunk)) /\ outbox' = inOrder(replies')
    <3>1. Oj!Next
      BY <1>1, <2>2, CommandIsAStep
    <3>2. outbox' \in Seq(replies')
      BY <2>2, <3>1, AnswersAreRanked DEF PaidIInv, BotIInv
    <3>3. outbox'[j] \in replies'
      BY <3>2, ElementOfSeq
    <3> QED
      BY <1>3, <3>1, <3>3, Oj!ToldIsOnTeam, BotAssumption DEF Told, PaidIInv, BotIInv
  <2> QED
    BY <1>2, <2>1, <2>2
<1>4. ASSUME NEW i \in 1..Len(said), Told(said[i].what), SameRound(said[i].to)'
      PROVE  state' = "IN_PROGRESS" /\ Oj!OnTeam(registeredTeamMembers', said[i].what.about, said[i].what.n)
  <2>1. said[i].to \in 1..current
    BY DEF PaidIInv, BotIInv, Sending
  <2>2. \A l \in (said[i].to + 1)..c : ~endsRound(talk[l])
    BY <1>1, <1>4 DEF SameRound
  <2>3. SameRound(said[i].to) /\ ~endsRound(talk[c])
    BY <1>1, <2>1, <2>2 DEF SameRound
  <2>4. state = "IN_PROGRESS" /\ Oj!OnTeam(registeredTeamMembers, said[i].what.about, said[i].what.n)
    BY <1>4, <2>3 DEF PaidIInv, OnHisTeam
  <2>5. CASE UNCHANGED oj
    BY <2>4, <2>5 DEF oj
  <2>6. CASE command(Head(chunk))
    <3>1. Oj!WithinRound
      BY <1>1, <2>3, <2>6, CommandWithinRound
    <3> QED
      BY <2>4, <3>1, Oj!RoundGoesOn, BotAssumption DEF PaidIInv, BotIInv
  <2> QED
    BY <1>2, <2>5, <2>6
<1> QED
  BY <1>1, <1>3, <1>4 DEF OnHisTeam

(* The winner of the round is paid with the answers to the line that names    *)
(* it; what was said before stays said.                                       *)
LEMMA DispatchKeepsPayouts ==
    ASSUME Oj!EverybodyFits, PaidIInv, dispatch
    PROVE  PayoutIsDue'
<1> DEFINE c == current + 1
           Wins(k, i) == /\ Told(said[i].what)
                         /\ talk[k].kind = "winner" /\ talk[k].n = said[i].what.n
                         /\ \A l \in (said[i].to + 1)..(k - 1) : ~endsRound(talk[l])
           Paid(k, i) == \E j \in 1..Len(said) :
                            said[j].to = k /\ IsPayout(said[j].what, said[i].what.about)
<1>1. /\ UNCHANGED <<said, session, link>> /\ talk' = talk /\ outbox = <<>>
      /\ current' = c /\ current \in Nat /\ Head(chunk) \in Line /\ Head(chunk) = talk[c]
  BY DispatchKeepsScript, LengthsAreNat DEF dispatch, PaidIInv, BotIInv
<1> SUFFICES ASSUME session = 1, link = "up", NEW i \in 1..Len(said),
                    NEW k \in (said[i].to + 1)..c, Wins(k, i)
             PROVE  \/ Paid(k, i)
                    \/ k = c /\ \E j \in 1..Len(outbox') : IsPayout(outbox'[j], said[i].what.about)
  BY <1>1 DEF PayoutIsDue
<1>2. said[i].to \in 1..current
  BY DEF PaidIInv, BotIInv, Sending
<1>3. CASE k # c
  <2>1. k \in (said[i].to + 1)..current
    BY <1>1, <1>2, <1>3
  <2>2. Len(outbox) = 0
    BY <1>1, EmptySeq
  <2>3. Paid(k, i) \/ \E j \in 1..Len(outbox) : IsPayout(outbox[j], said[i].what.about)
    BY <2>1 DEF PaidIInv, PayoutIsDue
  <2> QED
    BY <2>2, <2>3
<1>4. CASE k = c
  <2> DEFINE user == said[i].what.about
             line == Head(chunk)
  <2>1. SameRound(said[i].to)
    BY <1>1, <1>4 DEF SameRound
  <2>2. state = "IN_PROGRESS" /\ Oj!OnTeam(registeredTeamMembers, user, line.n)
    BY <1>1, <1>4, <2>1 DEF PaidIInv, OnHisTeam
  <2>3. line.n \in Oj!Teams
    <3>1. PICK x \in 1..Len(registeredTeamMembers) : registeredTeamMembers[x].team = line.n
      BY <2>2 DEF Oj!OnTeam
    <3>2. registeredTeamMembers[x] \in Oj!Member
      BY <3>1, ElementOfSeq DEF PaidIInv, BotIInv, Oj!IInv, Oj!TypeOK
    <3> QED
      BY <3>1, <3>2 DEF Oj!Member
  <2>4. line.kind = "winner" /\ command(line) /\ outbox' = inOrder(replies')
    BY <1>1, <1>4 DEF dispatch, understood
  <2>5. Oj!highp_winner(line.n)
    BY <2>4 DEF command
  <2>6. Oj!Next
    BY <1>1, <2>4, CommandIsAStep
  <2>7. PICK r \in replies' : IsPayout(r, user)
    <3> HIDE DEF user, line
    <3> QED
      BY <2>2, <2>3, <2>5, Oj!TeamOfWinnerIsPaid, BotAssumption DEF PaidIInv, BotIInv, IsPayout
  <2>8. \E j \in 1..Len(outbox') : outbox'[j] = r
    BY <2>4, <2>6, AllAreSent DEF PaidIInv, BotIInv
  <2> QED
    BY <1>4, <2>7, <2>8
<1> QED
  BY <1>3, <1>4

(* What is sent over a link that is up is said.                               *)
LEMMA SendKeepsPaid ==
    ASSUME PaidIInv, send
    PROVE  OnHisTeam' /\ PayoutIsDue'
<1> DEFINE n == Len(said)
           item == [what |-> Head(outbox), on |-> session, to |-> current]
<1>1. /\ outbox # <<>> /\ outbox' = Tail(outbox) /\ UNCHANGED <<link, session>>
      /\ current' = current /\ talk' = talk
      /\ UNCHANGED <<state, registeredTeamMembers>>
      /\ said' = IF link = "up" THEN Append(said, item) ELSE said
  BY DEF send, left, win32_send, lines, current, oj, PaidIInv, BotIInv, Sending
<1>2. /\ current \in Nat \ {0} /\ session \in Nat /\ n \in Nat
  BY <1>1, LengthsAreNat, LenProperties, BotAssumption DEF PaidIInv, BotIInv, Sending
<1>3. /\ Head(outbox) \in Answer /\ Head(outbox) = outbox[1]
      /\ Len(outbox') = Len(outbox) - 1
      /\ Len(outbox) \in Nat \ {0}
      /\ \A j \in 1..Len(outbox') : outbox'[j] = outbox[j + 1]
  BY <1>1, HeadTailProperties, EmptySeq DEF PaidIInv, BotIInv, Sending
<1>4. item \in Said /\ item.what = outbox[1] /\ item.to = current
  BY <1>2, <1>3 DEF Said
<1> HIDE DEF item
<1>5. link = "up" => /\ Len(said') = n + 1 /\ said'[n + 1] = item
                     /\ \A i \in 1..n : said'[i] = said[i]
  BY <1>1, <1>4, AppendProperties DEF PaidIInv, BotIInv, Sending
<1>6. \A i \in 1..Len(said') : \/ i \in 1..n /\ said'[i] = said[i]
                               \/ i = n + 1 /\ said'[i] = item
  <2> SUFFICES ASSUME NEW i \in 1..Len(said')
               PROVE  \/ i \in 1..n /\ said'[i] = said[i]
                      \/ i = n + 1 /\ said'[i] = item
    OBVIOUS
  <2>1. CASE link = "up"
    <3>1. Len(said') = n + 1
      BY <1>5, <2>1
    <3>2. i \in 1..n \/ i = n + 1
      BY <1>2, <3>1
    <3> QED
      BY <1>5, <2>1, <3>2
  <2>2. CASE link # "up"
    <3>1. said' = said
      BY <1>1, <2>2
    <3> QED
      BY <3>1
  <2> QED
    BY <2>1, <2>2
<1>7. \A j \in 1..Len(outbox') : j + 1 \in 1..Len(outbox) /\ outbox'[j] = outbox[j + 1]
  BY <1>3
<1>8. ASSUME session = 1, NEW i \in 1..Len(said'), Told(said'[i].what), SameRound(said'[i].to)
      PROVE  /\ state = "IN_PROGRESS"
             /\ Oj!OnTeam(registeredTeamMembers, said'[i].what.about, said'[i].what.n)
  <2>1. CASE i \in 1..n /\ said'[i] = said[i]
    BY <1>8, <2>1 DEF PaidIInv, OnHisTeam
  <2>2. CASE said'[i] = item
    BY <1>3, <1>4, <1>8, <2>2 DEF PaidIInv, OnHisTeam
  <2> QED
    BY <1>6, <2>1, <2>2
<1>9. \A i \in 1..Len(said') : SameRound(said[i].to)' => SameRound(said'[i].to)
  BY <1>1 DEF SameRound, endsRound
<1>10. OnHisTeam'
  <2>1. ASSUME session = 1, NEW j \in 1..Len(outbox'), Told(outbox'[j])
        PROVE  /\ state = "IN_PROGRESS"
               /\ Oj!OnTeam(registeredTeamMembers, outbox'[j].about, outbox'[j].n)
    BY <1>7, <2>1 DEF PaidIInv, OnHisTeam
  <2> QED
    BY <1>1, <1>8, <1>9, <2>1 DEF OnHisTeam
<1>11. PayoutIsDue'
  <2> DEFINE Wins(k, r, to) == /\ Told(r)
                               /\ talk[k].kind = "winner" /\ talk[k].n = r.n
                               /\ \A l \in (to + 1)..(k - 1) : ~endsRound(talk[l])
  <2> SUFFICES ASSUME session = 1, link = "up", NEW i \in 1..Len(said'),
                      NEW k \in (said'[i].to + 1)..current, Wins(k, said'[i].what, said'[i].to)
               PROVE  \/ \E j \in 1..Len(said') :
                            said'[j].to = k /\ IsPayout(said'[j].what, said'[i].what.about)
                      \/ /\ k = current
                         /\ \E j \in 1..Len(outbox') : IsPayout(outbox'[j], said'[i].what.about)
    BY <1>1 DEF PayoutIsDue
  <2> DEFINE user == said'[i].what.about
  <2>1. i \in 1..n /\ said'[i] = said[i]
    BY <1>2, <1>4, <1>6
  <2>2. \/ \E j \in 1..n : said[j].to = k /\ IsPayout(said[j].what, user)
        \/ k = current /\ \E j \in 1..Len(outbox) : IsPayout(outbox[j], user)
    BY <2>1 DEF PaidIInv, PayoutIsDue
  <2>3. CASE \E j \in 1..n : said[j].to = k /\ IsPayout(said[j].what, user)
    <3>1. 1..n \subseteq 1..Len(said')
      BY <1>2, <1>5
    <3> QED
      BY <1>5, <2>3, <3>1
  <2>4. ASSUME k = current, NEW j \in 1..Len(outbox), IsPayout(outbox[j], user)
        PROVE  \/ \E x \in 1..Len(said') : said'[x].to = k /\ IsPayout(said'[x].what, user)
               \/ \E x \in 1..Len(outbox') : IsPayout(outbox'[x], user)
    <3>1. CASE j = 1
      <4>1. n + 1 \in 1..Len(said') /\ said'[n + 1] = item
        BY <1>2, <1>5
      <4> QED
        BY <1>4, <2>4, <3>1, <4>1
    <3>2. CASE j # 1
      <4>1. j - 1 \in 1..Len(outbox') /\ outbox'[j - 1] = outbox[j]
        BY <1>3, <3>2
      <4> QED
        BY <2>4, <4>1
    <3> QED
      BY <3>1, <3>2
  <2> QED
    BY <2>2, <2>3, <2>4
<1> QED
  BY <1>10, <1>11

LEMMA OtherStepsKeepPaid ==
    ASSUME PaidIInv, UNCHANGED <<outbox, session, said, state, registeredTeamMembers, talk>>,
           current' = current, link' = "up" => link = "up"
    PROVE  OnHisTeam' /\ PayoutIsDue'
<1>1. OnHisTeam'
  BY DEF PaidIInv, OnHisTeam, SameRound
<1>2. PayoutIsDue'
  BY DEF PaidIInv, PayoutIsDue
<1> QED
  BY <1>1, <1>2

LEMMA NextKeepsPaid ==
    ASSUME Oj!EverybodyFits, PaidIInv, [BotNext]_botVars
    PROVE  PaidIInv'
<1>1. BotIInv'
  BY NextKeepsBotIInv DEF PaidIInv
<1>2. OnHisTeam' /\ PayoutIsDue'
  <2>1. CASE recv
    <3>1. current' = current
      BY <2>1, RecvKeepsScript DEF PaidIInv, BotIInv
    <3>2. UNCHANGED <<outbox, session, said, state, registeredTeamMembers, talk, link>>
      BY <2>1 DEF recv, oj
    <3> QED
      BY <3>1, <3>2, OtherStepsKeepPaid
  <2>2. CASE wait \/ wakeUp \/ linkLost \/ tick \/ UNCHANGED botVars
    <3>1. UNCHANGED <<outbox, session, said, state, registeredTeamMembers, talk, lines>>
      BY <2>2 DEF wait, wakeUp, linkLost, tick, botVars, oj, lines
    <3>2. current' = current
      BY <3>1, StillKeepsScript DEF PaidIInv, BotIInv
    <3>3. link' = "up" => link = "up"
      BY <2>2 DEF wait, wakeUp, linkLost, tick, botVars
    <3> QED
      BY <3>1, <3>2, <3>3, OtherStepsKeepPaid
  <2>3. CASE reconnect
    <3>1. session' = session + 1 /\ session \in Nat \ {0}
      BY <2>3, BotAssumption DEF reconnect, PaidIInv, BotIInv, Sending
    <3>2. session' # 1
      BY <3>1
    <3> QED
      BY <3>2 DEF OnHisTeam, PayoutIsDue
  <2>4. CASE dispatch
    <3>1. session = 1 => OnHisTeam'
      BY <2>4, DispatchKeepsTeams
    <3>2. session' = session
      BY <2>4 DEF dispatch
    <3>3. OnHisTeam'
      BY <3>1, <3>2 DEF OnHisTeam
    <3> QED
      BY <2>4, <3>3, DispatchKeepsPayouts
  <2>5. CASE send
    BY <2>5, SendKeepsPaid
  <2> QED
    BY <2>1, <2>2, <2>3, <2>4, <2>5 DEF BotNext, thread
<1> QED
  BY <1>1, <1>2 DEF PaidIInv

(* Where everybody fits the registration, a viewer who heard that he is on a  *)
(* team is heard to be paid when that team wins the round, unless the link is *)
(* lost: his registration, the shares, the order of the answers, the pacing   *)
(* and the sends of everyone in front of him lie in between.                  *)
THEOREM AlwaysPaidAsTold ==
    ASSUME Oj!EverybodyFits
    PROVE  BotSpec => []PaidAsTold
<1>1. BotInit => PaidIInv
  <2> SUFFICES ASSUME BotInit PROVE PaidIInv
    OBVIOUS
  <2>1. Len(outbox) = 0 /\ Len(said) = 0
    BY EmptySeq DEF BotInit
  <2> QED
    BY <2>1, InitBotIInv DEF PaidIInv, OnHisTeam, PayoutIsDue
<1>2. PaidIInv /\ [BotNext]_botVars => PaidIInv'
  BY NextKeepsPaid
<1>3. PaidIInv => PaidAsTold
  <2> SUFFICES ASSUME PaidIInv, session = 1, link = "up",
                      NEW i \in 1..Len(said), NEW k \in (said[i].to + 1)..current,
                      Told(said[i].what),
                      talk[k].kind = "winner" /\ talk[k].n = said[i].what.n,
                      \A l \in (said[i].to + 1)..(k - 1) : ~endsRound(talk[l]),
                      answered(k)
               PROVE  \E j \in 1..Len(said) :
                         said[j].to = k /\ IsPayout(said[j].what, said[i].what.about)
    BY DEF PaidAsTold, Told, IsPayout
  <2>1. \/ \E j \in 1..Len(said) : said[j].to = k /\ IsPayout(said[j].what, said[i].what.about)
        \/ k = current /\ \E j \in 1..Len(outbox) : IsPayout(outbox[j], said[i].what.about)
    BY DEF PaidIInv, PayoutIsDue
  <2>2. k = current => Len(outbox) = 0
    <3>1. ~(current < current)
      BY LengthsAreNat DEF PaidIInv, BotIInv
    <3> QED
      BY <3>1, EmptySeq DEF answered
  <2> QED
    BY <2>1, <2>2
<1> QED
  BY <1>1, <1>2, <1>3, PTL DEF BotSpec
=============================================================================
