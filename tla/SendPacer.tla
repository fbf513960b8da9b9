------------------------------ MODULE SendPacer ------------------------------
(* The pacing of chat messages: twitch_wait_to_not_get_banned of              *)
(* src/twitch.cpp, called by win32_send_text and win32_send_message before    *)
(* each send.  Time is counted in ticks, several to a millisecond, because    *)
(* the code reads a clock finer than the milliseconds it sleeps in.  The      *)
(* variable that matters is lastTime: it is set to the clock as sampled       *)
(* BEFORE the sleep.                                                          *)
EXTENDS Naturals, Sequences

CONSTANTS
    SpacingMs,     \* 300 in the code
    TicksPerMs,    \* resolution of the clock
    MaxTime,       \* bound on the clock
    MaxSends,      \* bound on the sends considered
    Budget         \* messages allowed in Budget spacings: 100 in 30 s

ASSUME SendPacerAssumption ==
    /\ SpacingMs \in Nat
    /\ TicksPerMs \in Nat \ {0}
    /\ MaxTime \in Nat
    /\ MaxSends \in Nat
    /\ Budget \in Nat \ {0}

VARIABLES
    now,        \* QueryPerformanceCounter
    lastTime,   \* the static of twitch_wait_to_not_get_banned
    pc,         \* where the client is: "idle", "asleep" or "ready" to send
    wake,       \* when the sleep ends at the earliest
    sends       \* history: the times of the sends

vars == <<now, lastTime, pc, wake, sends>>

Spacing == SpacingMs * TicksPerMs

Init ==
    /\ now \in 0..MaxTime
    /\ lastTime = 0
    /\ pc = "idle"
    /\ wake = 0
    /\ sends = <<>>

Tick ==
    /\ now < MaxTime
    /\ now' = now + 1
    /\ UNCHANGED <<lastTime, pc, wake, sends>>

(* Ticks slept after a wait of diff: (s32)(300.0 - diffMs) + 1 milliseconds.  *)
sleepTime_Mutant(diff) == ((Spacing - diff) \div TicksPerMs) * TicksPerMs   \* no + 1

sleepTime(diff) == ((Spacing - diff) \div TicksPerMs + 1) * TicksPerMs

twitch_wait_to_not_get_banned_Mutant ==   \* remembers when the sleep will end
    /\ pc = "idle"
    /\ Len(sends) < MaxSends
    /\ IF now - lastTime < Spacing
       THEN wake' = now + sleepTime(now - lastTime) /\ pc' = "asleep" /\ lastTime' = wake'
       ELSE pc' = "ready" /\ lastTime' = now /\ UNCHANGED wake
    /\ UNCHANGED <<now, sends>>

(* From the sample of the clock to the decision whether to sleep.             *)
twitch_wait_to_not_get_banned ==
    /\ pc = "idle"
    /\ Len(sends) < MaxSends
    /\ \/ /\ now - lastTime < Spacing
          /\ wake' = now + sleepTime(now - lastTime)
          /\ pc' = "asleep"
       \/ /\ now - lastTime >= Spacing
          /\ pc' = "ready"
          /\ UNCHANGED wake
    /\ lastTime' = now
    /\ UNCHANGED <<now, sends>>

Wake ==
    /\ pc = "asleep"
    /\ now >= wake
    /\ pc' = "ready"
    /\ UNCHANGED <<now, lastTime, wake, sends>>

(* win32_send_text, win32_send_message: whatever send returns, the message    *)
(* counts against the limit.                                                  *)
win32_send ==
    /\ pc = "ready"
    /\ sends' = Append(sends, now)
    /\ pc' = "idle"
    /\ UNCHANGED <<now, lastTime, wake>>

Next == Tick \/ twitch_wait_to_not_get_banned \/ Wake \/ win32_send

Spec == Init /\ [][Next]_vars

-----------------------------------------------------------------------------
(* Properties                                                                 *)

(* The static, the clock and the sends are times the clock has shown.         *)
TypeOK ==
    /\ now \in Nat /\ lastTime \in Nat /\ wake \in Nat
    /\ lastTime <= now
    /\ pc \in {"idle", "asleep", "ready"}
    /\ sends \in Seq(Nat)
    /\ \A i \in 1..Len(sends) : sends[i] <= now

(* Twice the intended rate is never exceeded: of 2k + 1 messages in a row,    *)
(* the first and the last are at least k spacings apart.  (Two in a row may   *)
(* be closer than one: the static remembers the sample, not the send.)        *)
HalfTheRateHolds ==
    \A i, k \in 1..Len(sends) :
        i + 2 * k <= Len(sends) => sends[i + 2 * k] - sends[i] >= k * Spacing

(* "300 bc mods can send 100 msgs in 30s": one message more than the budget   *)
(* takes the 30 seconds.                                                      *)
WithinTheLimit ==
    \A i \in 1..Len(sends) :
        i + Budget <= Len(sends) => sends[i + Budget] - sends[i] >= Budget * Spacing
=============================================================================
