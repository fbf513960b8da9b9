---------------------------- MODULE OjGameProofs ----------------------------
(* Proofs about OjGame, for every value of its constants: the invariants of   *)
(* its state, then what it tells the chat and what the chat may rely on from  *)
(* one command to the next.                                                   *)
EXTENDS OjGame, TLAPS, SequenceTheorems, FiniteSetTheorems

(* The inductive invariant.                                                   *)
IInv == TypeOK /\ OneSlotPerUser /\ UpNextIsHead

-----------------------------------------------------------------------------
(* drac_array.h                                                               *)

(* array_remove_index_ordered closes the gap: what stood in front of i keeps  *)
(* its index, what stood behind it moves up by one.                           *)
LEMMA RemoveOrdered ==
    ASSUME NEW S, NEW array \in Seq(S), NEW i \in 1..Len(array)
    PROVE  /\ array_remove_index_ordered(array, i) \in Seq(S)
           /\ Len(array_remove_index_ordered(array, i)) = Len(array) - 1
           /\ \A j \in 1..(Len(array) - 1) :
                 array_remove_index_ordered(array, i)[j] =
                    IF j < i THEN array[j] ELSE array[j + 1]
<1> DEFINE front == SubSeq(array, 1, i - 1)
           back  == SubSeq(array, i + 1, Len(array))
<1>1. /\ front \in Seq(S) /\ Len(front) = i - 1
      /\ \A j \in 1..(i - 1) : front[j] = array[j]
  <2>1. \A j \in 1..(i - 1) : array[j] \in S
    BY ElementOfSeq
  <2> QED
    BY <2>1, SubSeqProperties
<1>2. /\ back \in Seq(S) /\ Len(back) = Len(array) - i
      /\ \A j \in 1..(Len(array) - i) : back[j] = array[i + j]
  <2>1. \A j \in (i + 1)..Len(array) : array[j] \in S
    BY ElementOfSeq
  <2>2. /\ back \in Seq(S)
        /\ Len(back) = IF i + 1 <= Len(array) THEN Len(array) - (i + 1) + 1 ELSE 0
        /\ \A j \in 1..(Len(array) - (i + 1) + 1) : back[j] = array[(i + 1) + j - 1]
    BY <2>1, SubSeqProperties
  <2> QED
    BY <2>2
<1> HIDE DEF front, back
<1>3. /\ front \o back \in Seq(S)
      /\ Len(front \o back) = Len(front) + Len(back)
      /\ \A j \in 1..(Len(front) + Len(back)) :
            (front \o back)[j] = IF j <= Len(front) THEN front[j] ELSE back[j - Len(front)]
  BY <1>1, <1>2, ConcatProperties
<1>4. array_remove_index_ordered(array, i) = front \o back
  BY DEF array_remove_index_ordered, front, back
<1>5. Len(array) \in Nat
  BY LenProperties
<1>6. ASSUME NEW j \in 1..(Len(array) - 1)
      PROVE  (front \o back)[j] = IF j < i THEN array[j] ELSE array[j + 1]
  <2>1. CASE j < i
    BY <1>1, <1>2, <1>3, <1>5, <2>1
  <2>2. CASE ~(j < i)
    <3>1. j - (i - 1) \in 1..(Len(array) - i) /\ i + (j - (i - 1)) = j + 1
      BY <1>5, <2>2
    <3>2. (front \o back)[j] = back[j - (i - 1)]
      BY <1>1, <1>2, <1>3, <1>5, <2>2
    <3> QED
      BY <1>2, <2>2, <3>1, <3>2
  <2> QED
    BY <2>1, <2>2
<1>7. Len(front \o back) = Len(array) - 1
  BY <1>1, <1>2, <1>3, <1>5
<1> QED
  BY <1>3, <1>4, <1>6, <1>7

(* array_add of an item to an array with room appends it; to a full one, it   *)
(* does nothing.                                                              *)
LEMMA AddBounded ==
    ASSUME NEW S, NEW array \in Seq(S), NEW item \in S, NEW capacity \in Nat,
           Len(array) <= capacity
    PROVE  /\ array_add(array, capacity, item) \in Seq(S)
           /\ Len(array_add(array, capacity, item)) <= capacity
           /\ \/ array_add(array, capacity, item) = array
              \/ /\ Len(array_add(array, capacity, item)) = Len(array) + 1
                 /\ array_add(array, capacity, item)[Len(array) + 1] = item
                 /\ \A j \in 1..Len(array) :
                       array_add(array, capacity, item)[j] = array[j]
  BY AppendProperties DEF array_add

(* array_find over an array without two items of one id: a position returned  *)
(* holds the id looked for, and 0 says that nobody has it.                    *)
LEMMA FindUser ==
    ASSUME NEW users \in Seq(Users), NEW u \in Users,
           \A i, j \in 1..Len(users) : userId[users[i]] = userId[users[j]] => i = j
    PROVE  /\ array_find_user(users, u) \in 0..Len(users)
           /\ array_find_user(users, u) # 0 =>
                 userId[users[array_find_user(users, u)]] = userId[u]
           /\ array_find_user(users, u) = 0 =>
                 \A i \in 1..Len(users) : userId[users[i]] # userId[u]
<1> DEFINE hits == {i \in 1..Len(users) : userId[users[i]] = userId[u]}
           Least(i) == \A j \in hits : i <= j
<1>1. CASE hits = {}
  BY <1>1 DEF array_find_user
<1>2. CASE hits # {}
  <2>1. \E i \in hits : Least(i)
    BY <1>2
  <2>2. (CHOOSE i \in hits : Least(i)) \in hits
    BY <2>1
  <2>3. array_find_user(users, u) = CHOOSE i \in hits : Least(i)
    BY <1>2 DEF array_find_user
  <2> QED
    BY <2>2, <2>3
<1> QED
  BY <1>1, <1>2

LEMMA FindMember ==
    ASSUME NEW members \in Seq(Member), NEW u \in Users,
           \A i, j \in 1..Len(members) :
              userId[members[i].user] = userId[members[j].user] => i = j
    PROVE  /\ array_find_member(members, u) \in 0..Len(members)
           /\ array_find_member(members, u) # 0 =>
                 userId[members[array_find_member(members, u)].user] = userId[u]
           /\ array_find_member(members, u) = 0 =>
                 \A i \in 1..Len(members) : userId[members[i].user] # userId[u]
<1> DEFINE hits == {i \in 1..Len(members) : userId[members[i].user] = userId[u]}
           Least(i) == \A j \in hits : i <= j
<1>1. CASE hits = {}
  BY <1>1 DEF array_find_member
<1>2. CASE hits # {}
  <2>1. \E i \in hits : Least(i)
    BY <1>2
  <2>2. (CHOOSE i \in hits : Least(i)) \in hits
    BY <2>1
  <2>3. array_find_member(members, u) = CHOOSE i \in hits : Least(i)
    BY <1>2 DEF array_find_member
  <2>4. array_find_member(members, u) \in hits
    BY <2>2, <2>3, Zenon
  <2> QED
    BY <2>4
<1> QED
  BY <1>1, <1>2

-----------------------------------------------------------------------------
(* The inductive invariant.                                                   *)

LEMMA InitIInv == Init => IInv
<1> SUFFICES ASSUME Init PROVE IInv
  OBVIOUS
<1>1. TypeOK
  <2>1. teamLeaders \in [Teams -> Names \cup {NoName}]
    BY DEF Init, unset
  <2>2. /\ registeredTeamMembers = <<>> /\ registeredTeamMembers \in Seq(Member)
        /\ Len(registeredTeamMembers) = 0
    BY EmptySeq DEF Init
  <2>3. queue = <<>> /\ queue \in Seq(Users) /\ Len(queue) = 0
    BY EmptySeq DEF Init
  <2>4. /\ state \in States /\ replies \subseteq Messages
        /\ upNext \in Users \cup {NoUser} /\ running \in BOOLEAN
    BY DEF Init, States
  <2> QED
    BY <2>1, <2>2, <2>3, <2>4, OjGameAssumption DEF TypeOK
<1>2. OneSlotPerUser /\ UpNextIsHead
  <2>1. Len(queue) = 0 /\ Len(registeredTeamMembers) = 0
    BY EmptySeq DEF Init
  <2> QED
    BY <2>1 DEF Init, OneSlotPerUser, UpNextIsHead
<1> QED
  BY <1>1, <1>2 DEF IInv

(* A message about somebody or something the bot knows is well formed.        *)
LEMMA SayTyped ==
    ASSUME NEW kind \in ReplyKinds, NEW n \in Nat,
           NEW about \in Users \cup Names \cup Texts \cup {NoUser},
           say(kind, about, n)
    PROVE  replies' \subseteq Messages
  BY DEF say, Reply, Messages

(* A handler that only replies.                                               *)
LEMMA OnlyReplies ==
    ASSUME IInv, UNCHANGED game, replies' \subseteq Messages
    PROVE  IInv'
<1>1. TypeOK'
  BY DEF IInv, TypeOK, game
<1>2. OneSlotPerUser' /\ UpNextIsHead'
  BY DEF IInv, OneSlotPerUser, UpNextIsHead, game
<1> QED
  BY <1>1, <1>2 DEF IInv

LEMMA RepliersKeepIInv ==
    ASSUME IInv, NEW roles \in Roles, highp_commands(roles) \/ highp_github \/ highp_queue
    PROVE  IInv'
<1>2. CASE highp_commands(roles)
  BY <1>2, SayTyped, OnlyReplies DEF highp_commands, silent, ReplyKinds
<1>3. CASE highp_github
  BY <1>3, SayTyped, OnlyReplies DEF highp_github, ReplyKinds
<1>4. CASE highp_queue
  BY <1>4, SayTyped, OnlyReplies DEF highp_queue, silent, ReplyKinds
<1> QED
  BY <1>2, <1>3, <1>4

LEMMA OpenKeepsIInv ==
    ASSUME IInv, NEW roles \in Roles, highp_open(roles)
    PROVE  IInv'
<1>1. replies' \subseteq Messages
  BY SayTyped DEF highp_open, silent, ReplyKinds
<1>2. TypeOK'
  BY <1>1 DEF IInv, TypeOK, highp_open, States
<1>3. OneSlotPerUser' /\ UpNextIsHead'
  BY DEF IInv, OneSlotPerUser, UpNextIsHead, highp_open
<1> QED
  BY <1>2, <1>3 DEF IInv

LEMMA TeamsKeepsIInv ==
    ASSUME IInv, NEW roles \in Roles, NEW words \in TeamWords, highp_teams(roles, words)
    PROVE  IInv'
<1>1. replies' \subseteq Messages
  BY SayTyped DEF highp_teams, silent, ReplyKinds
<1>2. Len(words) >= NumTeams => [t \in Teams |-> words[t]] \in [Teams -> Names \cup {NoName}]
  <2>1. words \in Seq(Names)
    BY OjGameAssumption
  <2>2. Len(words) \in Nat /\ \A i \in 1..Len(words) : words[i] \in Names
    BY <2>1, LenProperties, ElementOfSeq
  <2> QED
    BY <2>2, OjGameAssumption DEF Teams
<1>3. teamLeaders' \in [Teams -> Names \cup {NoName}]
  BY <1>2 DEF highp_teams, IInv, TypeOK
<1>4. TypeOK'
  BY <1>1, <1>3 DEF IInv, TypeOK, highp_teams
<1>5. OneSlotPerUser' /\ UpNextIsHead'
  BY DEF IInv, OneSlotPerUser, UpNextIsHead, highp_teams
<1> QED
  BY <1>4, <1>5 DEF IInv
(* !play puts the viewer behind everybody else, and only if array_find did    *)
(* not find his id.                                                           *)
LEMMA PlayKeepsIInv ==
    ASSUME IInv, NEW user \in Users, NEW roles \in Roles, highp_play(user, roles)
    PROVE  IInv'
<1> DEFINE found == array_find_user(queue, user)
<1>1. queue \in Seq(Users) /\ Len(queue) \in Nat /\ Len(queue) <= ojMaxQueueLength
  BY LenProperties DEF IInv, TypeOK
<1>2. /\ found \in 0..Len(queue)
      /\ found = 0 => \A i \in 1..Len(queue) : userId[queue[i]] # userId[user]
  BY <1>1, FindUser DEF IInv, OneSlotPerUser
<1> HIDE DEF found
<1>3. CASE UNCHANGED queue /\ replies' \subseteq Messages
  <2>1. UNCHANGED game
    BY <1>3 DEF highp_play, game
  <2> QED
    BY <1>3, <2>1, OnlyReplies
<1>4. CASE /\ found = 0
           /\ queue' = array_add(queue, ojMaxQueueLength, user)
           /\ say("position", user, array_add_index(queue, ojMaxQueueLength))
  <2>1. array_add_index(queue, ojMaxQueueLength) \in Nat
    BY <1>1 DEF array_add_index
  <2>2. replies' \subseteq Messages
    BY <1>4, <2>1, SayTyped DEF ReplyKinds
  <2>3. /\ queue' \in Seq(Users) /\ Len(queue') <= ojMaxQueueLength
        /\ \/ queue' = queue
           \/ /\ Len(queue') = Len(queue) + 1
              /\ queue'[Len(queue) + 1] = user
              /\ \A j \in 1..Len(queue) : queue'[j] = queue[j]
    <3>1. user \in Users /\ ojMaxQueueLength \in Nat
      BY OjGameAssumption
    <3>2. queue \in Seq(Users) /\ Len(queue) <= ojMaxQueueLength
      BY <1>1
    <3>3. queue' = array_add(queue, ojMaxQueueLength, user)
      BY <1>4
    <3> QED
      BY <3>1, <3>2, <3>3, AddBounded
  <2>4. TypeOK'
    BY <2>2, <2>3 DEF IInv, TypeOK, highp_play
  <2>5. OneSlotPerUser'
    <3>1. CASE queue' = queue
      BY <3>1 DEF IInv, OneSlotPerUser, highp_play
    <3>2. CASE queue' # queue
      <4>1. ASSUME NEW i \in 1..Len(queue'), NEW j \in 1..Len(queue'),
                   userId[queue'[i]] = userId[queue'[j]]
            PROVE  i = j
        <5>1. CASE i \in 1..Len(queue) /\ j \in 1..Len(queue)
          BY <2>3, <3>2, <4>1, <5>1 DEF IInv, OneSlotPerUser
        <5>2. CASE i = Len(queue) + 1 /\ j \in 1..Len(queue)
          BY <1>2, <1>4, <2>3, <3>2, <4>1, <5>2
        <5>3. CASE i \in 1..Len(queue) /\ j = Len(queue) + 1
          BY <1>2, <1>4, <2>3, <3>2, <4>1, <5>3
        <5> QED
          BY <1>1, <2>3, <3>2, <5>1, <5>2, <5>3
      <4> QED
        BY <4>1 DEF IInv, OneSlotPerUser, highp_play
    <3> QED
      BY <3>1, <3>2
  <2>6. UpNextIsHead'
    <3>1. queue # <<>> => Len(queue) >= 1
      BY <1>1, EmptySeq
    <3>2. Len(queue') # 0 => queue' # <<>>
      BY EmptySeq
    <3> QED
      BY <1>1, <2>3, <3>1, <3>2 DEF IInv, UpNextIsHead, highp_play
  <2> QED
    BY <2>4, <2>5, <2>6 DEF IInv
<1>5. \/ UNCHANGED queue /\ replies' \subseteq Messages
      \/ /\ found = 0
         /\ queue' = array_add(queue, ojMaxQueueLength, user)
         /\ say("position", user, array_add_index(queue, ojMaxQueueLength))
  BY <1>1, <1>2, SayTyped DEF highp_play, enqueue, found, ReplyKinds
<1> QED
  BY <1>3, <1>4, <1>5

(* !d4 gives a team only to a viewer whose id array_find did not find.        *)
LEMMA D4KeepsIInv ==
    ASSUME IInv, NEW user \in Users, highp_d4(user)
    PROVE  IInv'
<1> DEFINE members == registeredTeamMembers
           found == array_find_member(members, user)
<1>1. members \in Seq(Member) /\ Len(members) \in Nat /\ Len(members) <= ojMaxRegisteredTeamMembers
  BY LenProperties DEF IInv, TypeOK
<1>2. /\ found \in 0..Len(members)
      /\ found = 0 => \A i \in 1..Len(members) : userId[members[i].user] # userId[user]
  BY <1>1, FindMember DEF IInv, OneSlotPerUser
<1>3. found # 0 => members[found].team \in Nat
  <2>1. \A m \in Member : m.team \in Nat
    BY OjGameAssumption DEF Member, Teams
  <2>2. found # 0 => members[found] \in Member
    BY <1>1, <1>2, ElementOfSeq
  <2> QED
    BY <2>1, <2>2
<1>4. UNCHANGED <<state, teamLeaders, queue, upNext>>
  BY DEF highp_d4
<1>5. ASSUME found = 0, NEW team \in Teams, roll(user, team)
      PROVE  IInv'
  <2>1. CASE UNCHANGED members /\ silent /\ running' = FALSE
    <3>1. TypeOK'
      BY <1>4, <2>1 DEF IInv, TypeOK, silent
    <3>2. OneSlotPerUser' /\ UpNextIsHead'
      BY <1>4, <2>1 DEF IInv, OneSlotPerUser, UpNextIsHead
    <3> QED
      BY <3>1, <3>2 DEF IInv
  <2>2. CASE /\ members' = array_add(members, ojMaxRegisteredTeamMembers,
                                     [user |-> user, team |-> team])
             /\ say("team", user, team)
             /\ UNCHANGED running
    <3>1. replies' \subseteq Messages
      BY <2>2, SayTyped, OjGameAssumption DEF ReplyKinds, Teams
    <3>2. [user |-> user, team |-> team] \in Member
      BY DEF Member
    <3>3. /\ members' \in Seq(Member) /\ Len(members') <= ojMaxRegisteredTeamMembers
          /\ \/ members' = members
             \/ /\ Len(members') = Len(members) + 1
                /\ members'[Len(members) + 1] = [user |-> user, team |-> team]
                /\ \A j \in 1..Len(members) : members'[j] = members[j]
      BY <1>1, <2>2, <3>2, AddBounded, OjGameAssumption
    <3>4. TypeOK'
      BY <1>4, <2>2, <3>1, <3>3 DEF IInv, TypeOK
    <3>5. ASSUME NEW i \in 1..Len(members'), NEW j \in 1..Len(members'),
                 userId[members'[i].user] = userId[members'[j].user]
          PROVE  i = j
      <4>1. CASE members' = members
        BY <3>5, <4>1 DEF IInv, OneSlotPerUser
      <4>2. CASE members' # members
        <5>1. CASE i \in 1..Len(members) /\ j \in 1..Len(members)
          BY <3>3, <3>5, <4>2, <5>1 DEF IInv, OneSlotPerUser
        <5>2. CASE i = Len(members) + 1 /\ j \in 1..Len(members)
          BY <1>2, <1>5, <3>3, <3>5, <4>2, <5>2
        <5>3. CASE i \in 1..Len(members) /\ j = Len(members) + 1
          BY <1>2, <1>5, <3>3, <3>5, <4>2, <5>3
        <5> QED
          BY <1>1, <3>3, <4>2, <5>1, <5>2, <5>3
      <4> QED
        BY <4>1, <4>2
    <3>6. OneSlotPerUser' /\ UpNextIsHead'
      BY <1>4, <3>5 DEF IInv, OneSlotPerUser, UpNextIsHead
    <3> QED
      BY <3>4, <3>6 DEF IInv
  <2> QED
    BY <1>5, <2>1, <2>2 DEF roll
<1>6. CASE UNCHANGED <<members, running>> /\ replies' \subseteq Messages
  <2>1. UNCHANGED game
    BY <1>4, <1>6 DEF game
  <2> QED
    BY <1>6, <2>1, OnlyReplies
<1>7. \/ UNCHANGED <<members, running>> /\ replies' \subseteq Messages
      \/ found = 0 /\ \E team \in Teams : roll(user, team)
  BY <1>3, SayTyped DEF highp_d4, ReplyKinds
<1> QED
  BY <1>5, <1>6, <1>7

(* !winner empties the registration and calls up the front of the queue.      *)
LEMMA WinnerKeepsIInv ==
    ASSUME IInv, NEW n \in 0..(NumTeams + 1), highp_winner(n)
    PROVE  IInv'
<1>1. CASE UNCHANGED game /\ replies' \subseteq Messages
  BY <1>1, OnlyReplies
<1>2. CASE /\ n \in Teams
           /\ replies' = payouts(n) \cup {announcement}
           /\ teamLeaders' = unset
           /\ registeredTeamMembers' = <<>>
           /\ state' = "INTERMISSION"
           /\ upNext' = IF queue = <<>> THEN NoUser ELSE queue[1]
           /\ UNCHANGED <<queue, running>>
  <2>1. queue # <<>> => queue[1] \in Users
    BY EmptySeq, ElementOfSeq DEF IInv, TypeOK
  <2>2. share(n) \in Nat
    <3>1. Len(registeredTeamMembers) \in Nat
      BY LenProperties DEF IInv, TypeOK
    <3>2. membersOf(n) \in SUBSET (1..Len(registeredTeamMembers))
      BY DEF membersOf
    <3>3. IsFiniteSet(1..Len(registeredTeamMembers))
      BY <3>1, FS_Interval
    <3>4. Cardinality(membersOf(n)) \in Nat
      BY <3>2, <3>3, FS_Subset, FS_CardinalityType
    <3>5. \A d \in Nat \ {0} : Prize \div d \in Nat
      BY OjGameAssumption
    <3>6. \A c \in Nat : (IF c < 1 THEN 1 ELSE c) \in Nat \ {0}
      OBVIOUS
    <3> QED
      BY <3>4, <3>5, <3>6 DEF share
  <2>3. payouts(n) \subseteq Messages
    <3>1. \A i \in membersOf(n) : registeredTeamMembers[i].user \in Users
      <4>1. registeredTeamMembers \in Seq(Member)
        BY DEF IInv, TypeOK
      <4>2. \A i \in 1..Len(registeredTeamMembers) : registeredTeamMembers[i] \in Member
        BY <4>1, ElementOfSeq
      <4> QED
        BY <4>2 DEF Member, membersOf
    <3>2. teamLeaders[n] # NoName => teamLeaders[n] \in Names
      BY <1>2 DEF IInv, TypeOK
    <3> QED
      BY <2>2, <3>1, <3>2, OjGameAssumption DEF payouts, Reply, Messages, ReplyKinds
  <2>4. announcement \in Messages
    BY <2>1 DEF announcement, Reply, Messages, ReplyKinds
  <2>5. registeredTeamMembers' \in Seq(Member) /\ Len(registeredTeamMembers') = 0
    BY <1>2, EmptySeq
  <2>6. TypeOK'
    BY <1>2, <2>1, <2>3, <2>4, <2>5, OjGameAssumption DEF IInv, TypeOK, unset, States
  <2>7. OneSlotPerUser'
    BY <1>2, <2>5 DEF IInv, OneSlotPerUser
  <2>8. UpNextIsHead'
    BY <1>2 DEF UpNextIsHead
  <2> QED
    BY <2>6, <2>7, <2>8 DEF IInv
<1> QED
  BY <1>1, <1>2, SayTyped DEF highp_winner, game, silent, ReplyKinds

(* What leaves the queue leaves no gap and makes nobody wait twice.           *)
LEMMA RemovalKeepsSlots ==
    ASSUME IInv, NEW k \in 1..Len(queue), queue' = array_remove_index_ordered(queue, k),
           UNCHANGED registeredTeamMembers
    PROVE  /\ queue' \in Seq(Users) /\ Len(queue') <= ojMaxQueueLength
           /\ OneSlotPerUser'
           /\ Len(queue) > 1 => queue' # <<>> /\ (k # 1 => queue'[1] = queue[1])
<1>1. queue \in Seq(Users) /\ Len(queue) \in Nat /\ Len(queue) <= ojMaxQueueLength
  BY LenProperties DEF IInv, TypeOK
<1>2. /\ queue' \in Seq(Users)
      /\ Len(queue') = Len(queue) - 1
      /\ \A j \in 1..(Len(queue) - 1) : queue'[j] = IF j < k THEN queue[j] ELSE queue[j + 1]
  BY <1>1, RemoveOrdered
<1>3. ASSUME NEW i \in 1..Len(queue'), NEW j \in 1..Len(queue'),
             userId[queue'[i]] = userId[queue'[j]]
      PROVE  i = j
  <2> DEFINE old(x) == IF x < k THEN x ELSE x + 1
  <2>1. /\ old(i) \in 1..Len(queue) /\ queue'[i] = queue[old(i)]
        /\ old(j) \in 1..Len(queue) /\ queue'[j] = queue[old(j)]
    BY <1>1, <1>2
  <2>2. old(i) = old(j)
    BY <1>3, <2>1 DEF IInv, OneSlotPerUser
  <2> QED
    BY <2>2
<1>4. OneSlotPerUser'
  BY <1>3 DEF IInv, OneSlotPerUser
<1>5. Len(queue) > 1 => queue' # <<>> /\ (k # 1 => queue'[1] = queue[1])
  BY <1>1, <1>2, EmptySeq
<1> QED
  BY <1>1, <1>2, <1>4, <1>5, OjGameAssumption

LEMMA NextroundKeepsIInv ==
    ASSUME IInv, highp_nextround
    PROVE  IInv'
<1>1. CASE state = "IN_PROGRESS"
  BY <1>1, OnlyReplies DEF highp_nextround, silent, game
<1>2. CASE state # "IN_PROGRESS"
  <2>1. replies' \subseteq Messages
    BY <1>2, SayTyped DEF highp_nextround, ReplyKinds
  <2>2. queue' \in Seq(Users) /\ Len(queue') <= ojMaxQueueLength /\ OneSlotPerUser'
    <3>1. CASE queue = <<>>
      BY <1>2, <3>1 DEF highp_nextround, IInv, TypeOK, OneSlotPerUser
    <3>2. CASE queue # <<>>
      <4>1. 1 \in 1..Len(queue)
        BY <3>2, EmptySeq DEF IInv, TypeOK
      <4> QED
        BY <1>2, <3>2, <4>1, RemovalKeepsSlots DEF highp_nextround
    <3> QED
      BY <3>1, <3>2
  <2>3. TypeOK'
    BY <1>2, <2>1, <2>2 DEF highp_nextround, IInv, TypeOK, States
  <2>4. UpNextIsHead'
    BY <1>2 DEF highp_nextround, UpNextIsHead
  <2> QED
    BY <2>2, <2>3, <2>4 DEF IInv
<1> QED
  BY <1>1, <1>2

LEMMA RemoveKeepsIInv ==
    ASSUME IInv, NEW text \in Texts, highp_remove(text)
    PROVE  IInv'
<1>1. CASE silent /\ UNCHANGED <<queue, upNext>>
  BY <1>1, OnlyReplies DEF highp_remove, silent, game
<1>2. CASE say("not_in_queue", NoUser, 0) /\ UNCHANGED <<queue, upNext>>
  BY <1>2, OnlyReplies, SayTyped DEF highp_remove, game, ReplyKinds
<1>3. ASSUME NEW k \in mentioned(text),
             queue' = array_remove_index_ordered(queue, k),
             upNext' = IF queue[k] = upNext THEN NoUser ELSE upNext,
             say("removed", text, 0)
      PROVE  IInv'
  <2>1. k \in 1..Len(queue)
    BY DEF mentioned
  <2>2. /\ queue' \in Seq(Users) /\ Len(queue') <= ojMaxQueueLength /\ OneSlotPerUser'
        /\ Len(queue) > 1 => queue' # <<>> /\ (k # 1 => queue'[1] = queue[1])
    BY <1>3, <2>1, RemovalKeepsSlots DEF highp_remove
  <2>3. replies' \subseteq Messages
    BY <1>3, SayTyped DEF ReplyKinds
  <2>4. TypeOK'
    BY <1>3, <2>2, <2>3 DEF highp_remove, IInv, TypeOK
  <2>5. UpNextIsHead'
    <3>1. Len(queue) \in Nat
      BY LenProperties DEF IInv, TypeOK
    <3>2. CASE k = 1
      BY <1>3, <3>2 DEF IInv, UpNextIsHead
    <3>3. CASE k # 1
      BY <1>3, <2>1, <2>2, <3>1, <3>3 DEF IInv, UpNextIsHead
    <3> QED
      BY <3>2, <3>3
  <2> QED
    BY <2>2, <2>4, <2>5 DEF IInv
<1> QED
  BY <1>1, <1>2, <1>3 DEF highp_remove

-----------------------------------------------------------------------------
LEMMA NextKeepsIInv == IInv /\ [Next]_vars => IInv'
<1> SUFFICES ASSUME IInv, [Next]_vars PROVE IInv'
  OBVIOUS
<1>1. CASE UNCHANGED vars
  BY <1>1, OnlyReplies DEF vars, game, IInv, TypeOK
<1>2. CASE Next
  <2>1. {} \in Roles
    BY DEF Roles
  <2>2. CASE highp_github \/ highp_queue
    BY <2>1, <2>2, RepliersKeepIInv
  <2>3. CASE highp_nextround
    BY <2>3, NextroundKeepsIInv
  <2>4. ASSUME NEW roles \in Roles, highp_commands(roles) \/ highp_open(roles)
        PROVE  IInv'
    BY <2>4, RepliersKeepIInv, OpenKeepsIInv
  <2>5. ASSUME NEW roles \in Roles, NEW words \in TeamWords, highp_teams(roles, words)
        PROVE  IInv'
    BY <2>5, TeamsKeepsIInv
  <2>6. ASSUME NEW user \in Users, NEW roles \in Roles, highp_play(user, roles)
        PROVE  IInv'
    BY <2>6, PlayKeepsIInv
  <2>7. ASSUME NEW user \in Users, highp_d4(user)
        PROVE  IInv'
    BY <2>7, D4KeepsIInv
  <2>8. ASSUME NEW n \in 0..(NumTeams + 1), highp_winner(n)
        PROVE  IInv'
    BY <2>8, WinnerKeepsIInv
  <2>9. ASSUME NEW text \in Texts, highp_remove(text)
        PROVE  IInv'
    BY <2>9, RemoveKeepsIInv
  <2> QED
    BY <1>2, <2>2, <2>3, <2>4, <2>5, <2>6, <2>7, <2>8, <2>9 DEF Next
<1> QED
  BY <1>1, <1>2

(* Every variable keeps its type, a queue or registration that is full        *)
(* included.                                                                  *)
THEOREM TypeCorrect == Spec => []TypeOK
<1>1. IInv => TypeOK
  BY DEF IInv
<1> QED
  BY <1>1, InitIInv, NextKeepsIInv, PTL DEF Spec

(* No viewer ever holds two places of the queue or sits on two teams.         *)
THEOREM AlwaysOneSlotPerUser == Spec => []OneSlotPerUser
<1>1. IInv => OneSlotPerUser
  BY DEF IInv
<1> QED
  BY <1>1, InitIInv, NextKeepsIInv, PTL DEF Spec

(* The player !winner called up stays at the front until !nextround admits    *)
(* him or !remove takes him out.                                              *)
THEOREM AlwaysUpNextIsHead == Spec => []UpNextIsHead
<1>1. IInv => UpNextIsHead
  BY DEF IInv
<1> QED
  BY <1>1, InitIInv, NextKeepsIInv, PTL DEF Spec

-----------------------------------------------------------------------------
(* OjGame implements PlayQueue.                                               *)

Ids == {userId[u] : u \in Users}

LEMMA IdOfSeq ==
    ASSUME NEW line \in Seq(Users)
    PROVE  /\ IdOf(line) \in Seq(Ids)
           /\ Len(IdOf(line)) = Len(line)
           /\ \A i \in 1..Len(line) : IdOf(line)[i] = userId[line[i]]
<1>1. Len(line) \in Nat /\ \A i \in 1..Len(line) : userId[line[i]] \in Ids
  BY LenProperties, ElementOfSeq DEF Ids
<1>2. IdOf(line) \in [1..Len(line) -> Ids]
  BY <1>1 DEF IdOf
<1>3. IdOf(line) \in Seq(Ids) /\ Len(IdOf(line)) = Len(line)
  BY <1>1, <1>2
<1> QED
  BY <1>3 DEF IdOf

(* Taking the ids of a line commutes with joining it and with leaving it.     *)
LEMMA IdOfJoin ==
    ASSUME NEW line \in Seq(Users), NEW more \in Seq(Users), NEW u \in Users,
           Len(more) = Len(line) + 1, more[Len(line) + 1] = u,
           \A i \in 1..Len(line) : more[i] = line[i]
    PROVE  IdOf(more) = Append(IdOf(line), userId[u])
<1> DEFINE joined == Append(IdOf(line), userId[u])
<1>1. Len(line) \in Nat /\ userId[u] \in Ids
  BY LenProperties DEF Ids
<1>2. /\ joined \in Seq(Ids) /\ Len(joined) = Len(line) + 1
      /\ joined[Len(line) + 1] = userId[u]
      /\ \A i \in 1..Len(line) : joined[i] = userId[line[i]]
  BY <1>1, IdOfSeq, AppendProperties
<1>3. /\ IdOf(more) \in Seq(Ids) /\ Len(IdOf(more)) = Len(line) + 1
      /\ \A i \in 1..(Len(line) + 1) : IdOf(more)[i] = userId[more[i]]
  BY IdOfSeq
<1> HIDE DEF joined
<1>4. \A i \in 1..(Len(line) + 1) : IdOf(more)[i] = joined[i]
  BY <1>1, <1>2, <1>3
<1>5. IdOf(more) = joined
  BY <1>2, <1>3, <1>4, SeqEqual
<1> QED
  BY <1>5 DEF joined

LEMMA IdOfRemove ==
    ASSUME NEW line \in Seq(Users), NEW k \in 1..Len(line)
    PROVE  IdOf(array_remove_index_ordered(line, k)) =
           array_remove_index_ordered(IdOf(line), k)
<1> DEFINE rest == array_remove_index_ordered(line, k)
           left == array_remove_index_ordered(IdOf(line), k)
<1>1. Len(line) \in Nat
  BY LenProperties
<1>2. /\ IdOf(line) \in Seq(Ids) /\ Len(IdOf(line)) = Len(line)
      /\ \A i \in 1..Len(line) : IdOf(line)[i] = userId[line[i]]
  BY IdOfSeq
<1>3. /\ left \in Seq(Ids) /\ Len(left) = Len(line) - 1
      /\ \A j \in 1..(Len(line) - 1) :
            left[j] = IF j < k THEN IdOf(line)[j] ELSE IdOf(line)[j + 1]
  <2>1. k \in 1..Len(IdOf(line))
    BY <1>2
  <2> QED
    BY <1>2, <2>1, RemoveOrdered
<1>4. /\ rest \in Seq(Users) /\ Len(rest) = Len(line) - 1
      /\ \A j \in 1..(Len(line) - 1) : rest[j] = IF j < k THEN line[j] ELSE line[j + 1]
  BY RemoveOrdered
<1> HIDE DEF rest, left
<1>5. /\ IdOf(rest) \in Seq(Ids) /\ Len(IdOf(rest)) = Len(rest)
      /\ \A j \in 1..Len(rest) : IdOf(rest)[j] = userId[rest[j]]
  BY <1>4, IdOfSeq
<1>6. ASSUME NEW j \in 1..(Len(line) - 1)
      PROVE  IdOf(rest)[j] = left[j]
  <2>1. j \in 1..Len(line) /\ j + 1 \in 1..Len(line)
    BY <1>1
  <2>2. IdOf(rest)[j] = userId[rest[j]]
    BY <1>4, <1>5
  <2>3. CASE j < k
    <3>1. rest[j] = line[j] /\ left[j] = IdOf(line)[j]
      BY <1>3, <1>4, <2>3
    <3> QED
      BY <1>2, <2>1, <2>2, <3>1
  <2>4. CASE ~(j < k)
    <3>1. rest[j] = line[j + 1] /\ left[j] = IdOf(line)[j + 1]
      BY <1>3, <1>4, <2>4
    <3> QED
      BY <1>2, <2>1, <2>2, <3>1
  <2> QED
    BY <2>3, <2>4
<1>7. IdOf(rest) = left
  BY <1>3, <1>4, <1>5, <1>6, SeqEqual
<1> QED
  BY <1>7 DEF rest, left

(* Until it is opened the queue is empty.                                     *)
ClosedIsEmpty == state = "NOT_STARTED" => queue = <<>>

LEMMA NextKeepsClosedIsEmpty == ClosedIsEmpty /\ [Next]_vars => ClosedIsEmpty'
<1> SUFFICES ASSUME ClosedIsEmpty, [Next]_vars PROVE ClosedIsEmpty'
  OBVIOUS
<1> USE DEF ClosedIsEmpty
<1>1. CASE UNCHANGED vars
  BY <1>1 DEF vars
<1>2. CASE highp_github \/ highp_queue \/ \E roles \in Roles : highp_commands(roles)
  BY <1>2 DEF highp_github, highp_queue, highp_commands, game
<1>3. CASE highp_nextround
  BY <1>3 DEF highp_nextround
<1>4. ASSUME NEW roles \in Roles, highp_open(roles) PROVE ClosedIsEmpty'
  BY <1>4 DEF highp_open
<1>5. ASSUME NEW roles \in Roles, NEW words \in TeamWords, highp_teams(roles, words)
      PROVE  ClosedIsEmpty'
  BY <1>5 DEF highp_teams
<1>6. ASSUME NEW user \in Users, NEW roles \in Roles, highp_play(user, roles)
      PROVE  ClosedIsEmpty'
  BY <1>6 DEF highp_play
<1>7. ASSUME NEW user \in Users, highp_d4(user) PROVE ClosedIsEmpty'
  BY <1>7 DEF highp_d4
<1>8. ASSUME NEW n \in 0..(NumTeams + 1), highp_winner(n) PROVE ClosedIsEmpty'
  BY <1>8 DEF highp_winner
<1>9. ASSUME NEW text \in Texts, highp_remove(text) PROVE ClosedIsEmpty'
  BY <1>9 DEF highp_remove
<1> QED
  BY <1>1, <1>2, <1>3, <1>4, <1>5, <1>6, <1>7, <1>8, <1>9 DEF Next

LEMMA PlayRefines ==
    ASSUME IInv, NEW user \in Users, NEW roles \in Roles, highp_play(user, roles)
    PROVE  [PQ!Next]_PQ!vars
<1> DEFINE found == array_find_user(queue, user)
<1>1. queue \in Seq(Users) /\ Len(queue) \in Nat /\ Len(queue) <= ojMaxQueueLength
  BY LenProperties DEF IInv, TypeOK
<1>2. /\ found \in 0..Len(queue)
      /\ found = 0 => \A i \in 1..Len(queue) : userId[queue[i]] # userId[user]
  BY <1>1, FindUser DEF IInv, OneSlotPerUser
<1> HIDE DEF found
<1>3. CASE UNCHANGED queue
  BY <1>3 DEF highp_play, PQ!vars
<1>4. CASE /\ state # "NOT_STARTED" /\ found = 0 /\ queue' # queue
           /\ queue' = array_add(queue, ojMaxQueueLength, user)
  <2>1. queue' = Append(queue, user) /\ Len(queue) < ojMaxQueueLength
    BY <1>4 DEF array_add
  <2>2. IdOf(queue') = Append(IdOf(queue), userId[user])
    <3>1. /\ queue' \in Seq(Users) /\ Len(queue') = Len(queue) + 1
          /\ queue'[Len(queue) + 1] = user
          /\ \A i \in 1..Len(queue) : queue'[i] = queue[i]
      BY <1>1, <2>1, AppendProperties
    <3> QED
      BY <1>1, <3>1, IdOfJoin
  <2>3. ~PQ!Waits(userId[user], IdOf(queue)) /\ Len(IdOf(queue)) < ojMaxQueueLength
    BY <1>1, <1>2, <1>4, <2>1, IdOfSeq DEF PQ!Waits
  <2>4. PQ!Join(userId[user])
    BY <1>4, <2>2, <2>3 DEF PQ!Join, highp_play
  <2> QED
    BY <2>4 DEF PQ!Next
<1> QED
  BY <1>3, <1>4 DEF highp_play, enqueue, found

(* Whoever leaves the queue, by !nextround or by !remove, leaves a line that  *)
(* is open.                                                                   *)
LEMMA LeaveRefines ==
    ASSUME IInv, NEW k \in 1..Len(queue), queue' = array_remove_index_ordered(queue, k),
           state # "NOT_STARTED", state' # "NOT_STARTED"
    PROVE  [PQ!Next]_PQ!vars
<1>1. queue \in Seq(Users)
  BY DEF IInv, TypeOK
<1>2. IdOf(queue') = array_remove_index_ordered(IdOf(queue), k) /\ k \in 1..Len(IdOf(queue))
  BY <1>1, IdOfRemove, IdOfSeq
<1>3. PQ!Leave(k)
  BY <1>2 DEF PQ!Leave, array_remove_index_ordered
<1> QED
  BY <1>2, <1>3 DEF PQ!Next

LEMMA NextRefines ==
    IInv /\ ClosedIsEmpty /\ [Next]_vars => [PQ!Next]_PQ!vars
<1> SUFFICES ASSUME IInv, ClosedIsEmpty, [Next]_vars PROVE [PQ!Next]_PQ!vars
  OBVIOUS
<1>1. CASE UNCHANGED <<state, queue>>
  BY <1>1 DEF PQ!vars
<1>2. CASE UNCHANGED queue /\ state' # "NOT_STARTED"
  <2>1. PQ!Open
    BY <1>2 DEF PQ!Open
  <2> QED
    BY <2>1 DEF PQ!Next
<1>3. CASE highp_nextround
  <2>1. CASE queue = <<>> \/ state = "IN_PROGRESS"
    BY <1>1, <1>2, <1>3, <2>1 DEF highp_nextround
  <2>2. CASE queue # <<>> /\ state # "IN_PROGRESS"
    <3>1. 1 \in 1..Len(queue)
      BY <2>2, EmptySeq DEF IInv, TypeOK
    <3> QED
      BY <1>3, <2>2, <3>1, LeaveRefines DEF highp_nextround, ClosedIsEmpty
  <2> QED
    BY <2>1, <2>2
<1>4. ASSUME NEW text \in Texts, highp_remove(text)
      PROVE  [PQ!Next]_PQ!vars
  <2>1. CASE UNCHANGED queue
    BY <1>1, <1>4, <2>1 DEF highp_remove
  <2>2. ASSUME NEW k \in mentioned(text), queue' = array_remove_index_ordered(queue, k),
               state # "NOT_STARTED"
        PROVE  [PQ!Next]_PQ!vars
    BY <1>4, <2>2, LeaveRefines DEF highp_remove, mentioned
  <2> QED
    BY <1>4, <2>1, <2>2 DEF highp_remove
<1>5. ASSUME NEW user \in Users, NEW roles \in Roles, highp_play(user, roles)
      PROVE  [PQ!Next]_PQ!vars
  BY <1>5, PlayRefines
<1>6. CASE UNCHANGED vars \/ highp_github \/ highp_queue
  BY <1>1, <1>6 DEF vars, highp_github, highp_queue, game
<1>7. ASSUME NEW roles \in Roles, highp_commands(roles) \/ highp_open(roles)
      PROVE  [PQ!Next]_PQ!vars
  BY <1>1, <1>2, <1>7 DEF highp_commands, highp_open, game
<1>8. ASSUME NEW roles \in Roles, NEW words \in TeamWords, highp_teams(roles, words)
      PROVE  [PQ!Next]_PQ!vars
  BY <1>1, <1>8 DEF highp_teams
<1>9. ASSUME NEW user \in Users, highp_d4(user)
      PROVE  [PQ!Next]_PQ!vars
  BY <1>1, <1>9 DEF highp_d4
<1>10. ASSUME NEW n \in 0..(NumTeams + 1), highp_winner(n)
       PROVE  [PQ!Next]_PQ!vars
  BY <1>1, <1>2, <1>10 DEF highp_winner
<1> QED
  BY <1>3, <1>4, <1>5, <1>6, <1>7, <1>8, <1>9, <1>10 DEF Next

(* The chat commands, in any order and by anybody, only ever move the queue   *)
(* as a bounded first-come-first-served line.                                 *)
THEOREM GameImplementsPlayQueue == Spec => ImplementsPlayQueue
<1>1. Init => PQ!Init /\ ClosedIsEmpty
  BY EmptySeq DEF Init, PQ!Init, IdOf, ClosedIsEmpty
<1>2. [](IInv /\ ClosedIsEmpty) /\ [][Next]_vars => [][PQ!Next]_PQ!vars
  BY NextRefines, PTL
<1>3. Spec => [](IInv /\ ClosedIsEmpty)
  BY <1>1, InitIInv, NextKeepsIInv, NextKeepsClosedIsEmpty, PTL DEF Spec
<1> QED
  BY <1>1, <1>2, <1>3, PTL DEF Spec, ImplementsPlayQueue, PQ!Spec

-----------------------------------------------------------------------------
(* The registration and the payouts.                                          *)

(* The payouts of one !winner are those of the members of one team.           *)
LEMMA PaidAreMembers ==
    ASSUME NEW n \in Teams, replies' = payouts(n) \cup {announcement}
    PROVE  /\ {x \in replies' : x.kind = "payout"} =
              {Reply("payout", registeredTeamMembers[i].user, share(n)) : i \in membersOf(n)}
           /\ {x \in replies' : x.kind = "payout_leader"} =
              {Reply("payout_leader", teamLeaders[n], Prize) :
                  t \in {x \in {n} : teamLeaders[x] # NoName}}
<1> DEFINE paid == {Reply("payout", registeredTeamMembers[i].user, share(n)) : i \in membersOf(n)}
           ledBy == {Reply("payout_leader", teamLeaders[n], Prize) :
                       t \in {x \in {n} : teamLeaders[x] # NoName}}
<1>1. replies' = ledBy \cup paid \cup {announcement}
  BY DEF payouts
<1>2. \A x \in paid : x.kind = "payout"
  BY DEF Reply
<1>3. \A x \in ledBy : x.kind = "payout_leader"
  BY DEF Reply
<1>4. announcement.kind \notin {"payout", "payout_leader"}
  BY DEF announcement, Reply
<1> HIDE DEF paid, ledBy
<1>5. {x \in replies' : x.kind = "payout"} = paid
  BY <1>1, <1>2, <1>3, <1>4
<1>6. {x \in replies' : x.kind = "payout_leader"} = ledBy
  BY <1>1, <1>2, <1>3, <1>4
<1> QED
  BY <1>5, <1>6 DEF paid, ledBy

(* The registration grows at its end, or a whole team is paid, and its leader,*)
(* and all of it is cleared.                                                  *)
MembersKept ==
    /\ Len(registeredTeamMembers') >= Len(registeredTeamMembers)
    /\ \A i \in 1..Len(registeredTeamMembers) :
          registeredTeamMembers'[i] = registeredTeamMembers[i]

TeamPaid ==
    /\ registeredTeamMembers' = <<>>
    /\ \E r \in replies' : r.kind \in {"up_next", "no_one_left"}
    /\ \E team \in Teams :
          /\ recipients("payout") = {registeredTeamMembers[i].user : i \in membersOf(team)}
          /\ recipients("payout_leader") = {teamLeaders[team]} \ {NoName}

LEMMA NextKeepsMembers == IInv /\ [Next]_vars => MembersKept \/ TeamPaid
<1> SUFFICES ASSUME IInv, [Next]_vars PROVE MembersKept \/ TeamPaid
  OBVIOUS
<1>1. registeredTeamMembers \in Seq(Member) /\ Len(registeredTeamMembers) \in Nat
  BY LenProperties DEF IInv, TypeOK
<1>2. CASE UNCHANGED registeredTeamMembers
  BY <1>1, <1>2 DEF MembersKept
<1>3. ASSUME NEW user \in Users, highp_d4(user)
      PROVE  MembersKept
  <2>1. ASSUME NEW team \in Teams, roll(user, team), ~UNCHANGED registeredTeamMembers
        PROVE  MembersKept
    <3>1. [user |-> user, team |-> team] \in Member
      BY DEF Member
    <3>2. registeredTeamMembers' = Append(registeredTeamMembers, [user |-> user, team |-> team])
      BY <2>1 DEF roll, array_add
    <3> QED
      BY <1>1, <3>1, <3>2, AppendProperties DEF MembersKept
  <2>2. CASE UNCHANGED registeredTeamMembers
    BY <1>1, <2>2 DEF MembersKept
  <2> QED
    BY <1>3, <2>1, <2>2 DEF highp_d4
<1>4. ASSUME NEW n \in 0..(NumTeams + 1), highp_winner(n)
      PROVE  MembersKept \/ TeamPaid
  <2>1. CASE UNCHANGED registeredTeamMembers
    BY <1>2, <2>1
  <2>2. CASE /\ n \in Teams /\ replies' = payouts(n) \cup {announcement}
             /\ registeredTeamMembers' = <<>>
    <3>1. {x \in replies' : x.kind = "payout"} =
          {Reply("payout", registeredTeamMembers[i].user, share(n)) : i \in membersOf(n)}
      BY <2>2, PaidAreMembers
    <3>2. recipients("payout") = {registeredTeamMembers[i].user : i \in membersOf(n)}
      <4>1. \A i \in membersOf(n) :
               Reply("payout", registeredTeamMembers[i].user, share(n)).about =
               registeredTeamMembers[i].user
        BY DEF Reply
      <4>2. {r.about : r \in {Reply("payout", registeredTeamMembers[i].user, share(n)) :
                                 i \in membersOf(n)}} =
            {registeredTeamMembers[i].user : i \in membersOf(n)}
        BY <4>1
      <4> QED
        BY <3>1, <4>2 DEF recipients
    <3>3. recipients("payout_leader") = {teamLeaders[n]} \ {NoName}
      <4>1. {x \in replies' : x.kind = "payout_leader"} =
            {Reply("payout_leader", teamLeaders[n], Prize) :
                t \in {x \in {n} : teamLeaders[x] # NoName}}
        BY <2>2, PaidAreMembers
      <4>2. Reply("payout_leader", teamLeaders[n], Prize).about = teamLeaders[n]
        BY DEF Reply
      <4>3. CASE teamLeaders[n] # NoName
        BY <4>1, <4>2, <4>3 DEF recipients
      <4>4. CASE teamLeaders[n] = NoName
        BY <4>1, <4>4 DEF recipients
      <4> QED
        BY <4>3, <4>4
    <3>4. announcement \in replies' /\ announcement.kind \in {"up_next", "no_one_left"}
      BY <2>2 DEF announcement, Reply
    <3> QED
      BY <2>2, <3>2, <3>3, <3>4 DEF TeamPaid
  <2> QED
    BY <1>4, <2>1, <2>2 DEF highp_winner
<1>5. CASE UNCHANGED vars \/ highp_github \/ highp_queue \/ highp_nextround
  BY <1>2, <1>5 DEF vars, highp_github, highp_queue, highp_nextround, game
<1>6. ASSUME NEW roles \in Roles, highp_commands(roles) \/ highp_open(roles)
      PROVE  MembersKept
  BY <1>1, <1>6 DEF highp_commands, highp_open, game, MembersKept
<1>7. ASSUME NEW roles \in Roles, NEW words \in TeamWords, highp_teams(roles, words)
      PROVE  MembersKept
  BY <1>1, <1>7 DEF highp_teams, MembersKept
<1>8. ASSUME NEW user \in Users, NEW roles \in Roles, highp_play(user, roles)
      PROVE  MembersKept
  BY <1>1, <1>8 DEF highp_play, MembersKept
<1>9. ASSUME NEW text \in Texts, highp_remove(text)
      PROVE  MembersKept
  BY <1>1, <1>9 DEF highp_remove, MembersKept
<1> QED
  BY <1>3, <1>4, <1>5, <1>6, <1>7, <1>8, <1>9 DEF Next

(* Who has rolled a team stays on it until a !winner pays one whole team and  *)
(* nobody else.                                                               *)
THEOREM AlwaysMembersStayUntilPayout == Spec => MembersStayUntilPayout
<1>1. []IInv /\ [][Next]_vars => MembersStayUntilPayout
  BY NextKeepsMembers, PTL DEF MembersStayUntilPayout, MembersKept, TeamPaid
<1> QED
  BY <1>1, InitIInv, NextKeepsIInv, PTL DEF Spec

-----------------------------------------------------------------------------
(* What the chat is told.                                                     *)

(* The kinds of reply whose content a property is about.                      *)
Promises == {"position", "team", "already_on_team", "payout"}

(* A command that promises nothing: it is silent or says something else.      *)
PromisesNothing == \A r \in replies' : r.kind \notin Promises

LEMMA SaysOther ==
    ASSUME NEW kind \in ReplyKinds \ Promises, NEW about, NEW n, say(kind, about, n)
    PROVE  PromisesNothing
  BY DEF say, Reply, PromisesNothing

(* Only !play, !d4 and !winner promise anything.                              *)
LEMMA WhoPromises ==
    ASSUME Next
    PROVE  \/ PromisesNothing
           \/ \E user \in Users, roles \in Roles : highp_play(user, roles)
           \/ \E user \in Users : highp_d4(user)
           \/ \E n \in Teams : highp_winner(n) /\ replies' = payouts(n) \cup {announcement}
<1>1. CASE highp_github \/ highp_nextround \/ highp_queue
  BY <1>1, SaysOther DEF highp_github, highp_nextround, highp_queue, silent,
                         PromisesNothing, Promises, ReplyKinds
<1>2. ASSUME NEW roles \in Roles, highp_commands(roles) \/ highp_open(roles)
      PROVE  PromisesNothing
  BY <1>2, SaysOther DEF highp_commands, highp_open, silent,
                         PromisesNothing, Promises, ReplyKinds
<1>3. ASSUME NEW roles \in Roles, NEW words \in TeamWords, highp_teams(roles, words)
      PROVE  PromisesNothing
  BY <1>3, SaysOther DEF highp_teams, silent, PromisesNothing, Promises, ReplyKinds
<1>4. ASSUME NEW text \in Texts, highp_remove(text)
      PROVE  PromisesNothing
  BY <1>4, SaysOther DEF highp_remove, silent, PromisesNothing, Promises, ReplyKinds
<1>5. ASSUME NEW n \in 0..(NumTeams + 1), highp_winner(n)
      PROVE  \/ PromisesNothing
             \/ n \in Teams /\ replies' = payouts(n) \cup {announcement}
  BY <1>5, SaysOther DEF highp_winner, silent, PromisesNothing, Promises, ReplyKinds
<1> QED
  BY <1>1, <1>2, <1>3, <1>4, <1>5 DEF Next

(* The replies of a !winner are payouts and an announcement.                  *)
LEMMA WinnerKinds ==
    ASSUME NEW n \in Teams, replies' = payouts(n) \cup {announcement}
    PROVE  \A r \in replies' : r.kind \in {"payout_leader", "payout", "no_one_left", "up_next"}
  BY DEF payouts, announcement, Reply

LEMMA D4Kinds ==
    ASSUME NEW user \in Users, highp_d4(user)
    PROVE  \A r \in replies' : r.kind \in {"no_game", "leader", "already_on_team", "team"}
<1>1. \/ silent
      \/ \E n : \/ say("no_game", user, n) \/ say("leader", user, n)
                \/ say("already_on_team", user, n) \/ say("team", user, n)
  BY DEF highp_d4, roll
<1> QED
  BY <1>1 DEF silent, say, Reply

-----------------------------------------------------------------------------
(* The position told by !play.                                                *)

LEMMA PlayTellsPosition ==
    ASSUME IInv, NEW user \in Users, NEW roles \in Roles, highp_play(user, roles)
    PROVE  ToldPosition'
<1> DEFINE found == array_find_user(queue, user)
<1>1. queue \in Seq(Users) /\ Len(queue) \in Nat /\ Len(queue) <= ojMaxQueueLength
  BY LenProperties DEF IInv, TypeOK
<1>2. /\ found \in 0..Len(queue)
      /\ found # 0 => userId[queue[found]] = userId[user]
      /\ found = 0 => \A i \in 1..Len(queue) : userId[queue[i]] # userId[user]
  BY <1>1, FindUser DEF IInv, OneSlotPerUser
<1>3. CASE say("not_open", user, 0) \/ say("subscribe", user, 0)
  BY <1>3 DEF say, Reply, ToldPosition
<1>4. CASE found # 0 /\ say("position", user, found) /\ UNCHANGED queue
  <2>1. replies' = {Reply("position", user, found)}
    BY <1>4 DEF say
  <2> HIDE DEF found
  <2> QED
    BY <1>1, <1>2, <1>4, <2>1 DEF Reply, ToldPosition
<1>5. CASE /\ found = 0
           /\ queue' = array_add(queue, ojMaxQueueLength, user)
           /\ say("position", user, array_add_index(queue, ojMaxQueueLength))
  <2>1. CASE Len(queue) < ojMaxQueueLength
    <3>1. replies' = {Reply("position", user, Len(queue) + 1)}
      BY <1>5, <2>1 DEF say, array_add_index
    <3>2. queue' = Append(queue, user)
      BY <1>5, <2>1 DEF array_add
    <3>3. Len(queue') = Len(queue) + 1 /\ queue'[Len(queue) + 1] = user
      BY <1>1, <3>2, AppendProperties
    <3> QED
      BY <1>1, <3>1, <3>3 DEF Reply, ToldPosition
  <2>2. CASE ~(Len(queue) < ojMaxQueueLength)
    <3>1. replies' = {Reply("position", user, 0)}
      BY <1>5, <2>2 DEF say, array_add_index
    <3>2. UNCHANGED queue
      BY <1>5, <2>2 DEF array_add
    <3>3. Len(queue) = ojMaxQueueLength
      BY <1>1, <2>2, OjGameAssumption
    <3>4. array_find_user(queue', user) = 0
      BY <1>5, <3>2
    <3> QED
      BY <3>1, <3>2, <3>3, <3>4 DEF Reply, ToldPosition
  <2> QED
    BY <2>1, <2>2
<1> QED
  BY <1>3, <1>4, <1>5 DEF highp_play, enqueue

(* !play tells a viewer the place in the queue that he has from then on, and  *)
(* 0 only if he has none in a queue that is full.                             *)
THEOREM AlwaysToldPosition == Spec => []ToldPosition
<1>1. Init => ToldPosition
  BY DEF Init, ToldPosition
<1>2. IInv /\ ToldPosition /\ [Next]_vars => ToldPosition'
  <2> SUFFICES ASSUME IInv, ToldPosition, [Next]_vars PROVE ToldPosition'
    OBVIOUS
  <2>1. CASE UNCHANGED vars
    BY <2>1 DEF vars, ToldPosition, array_find_user
  <2>2. CASE PromisesNothing
    BY <2>2 DEF PromisesNothing, Promises, ToldPosition
  <2>3. ASSUME NEW user \in Users, NEW roles \in Roles, highp_play(user, roles)
        PROVE  ToldPosition'
    BY <2>3, PlayTellsPosition
  <2>4. ASSUME NEW user \in Users, highp_d4(user) PROVE ToldPosition'
    BY <2>4, D4Kinds DEF ToldPosition
  <2>5. ASSUME NEW n \in Teams, replies' = payouts(n) \cup {announcement}
        PROVE  ToldPosition'
    BY <2>5, WinnerKinds DEF ToldPosition
  <2> QED
    BY <2>1, <2>2, <2>3, <2>4, <2>5, WhoPromises
<1> QED
  BY <1>1, <1>2, InitIInv, NextKeepsIInv, PTL DEF Spec

-----------------------------------------------------------------------------
(* The team told by !d4.                                                      *)

LEMMA D4TellsTeam ==
    ASSUME IInv, NEW user \in Users, highp_d4(user)
    PROVE  ToldTeam'
<1> DEFINE members == registeredTeamMembers
           found == array_find_member(members, user)
<1>1. members \in Seq(Member) /\ Len(members) \in Nat /\ Len(members) <= ojMaxRegisteredTeamMembers
  BY LenProperties DEF IInv, TypeOK
<1>2. /\ found \in 0..Len(members)
      /\ found # 0 => userId[members[found].user] = userId[user]
  BY <1>1, FindMember DEF IInv, OneSlotPerUser
<1>3. CASE say("no_game", user, 0) \/ say("leader", user, 0)
  BY <1>3 DEF say, Reply, ToldTeam
<1>4. ASSUME NEW k \in 1..Len(members), userId[members[k].user] = userId[user],
             say("already_on_team", user, members[k].team), UNCHANGED members
      PROVE  ToldTeam'
  <2>1. replies' = {Reply("already_on_team", user, members[k].team)}
    BY <1>4 DEF say
  <2>2. \A t : members[k].team = t => k \in membersOf(t)'
    BY <1>4 DEF membersOf
  <2> QED
    BY <1>4, <2>1, <2>2 DEF Reply, ToldTeam
<1>5. ASSUME NEW team \in Teams, roll(user, team), found = 0
      PROVE  ToldTeam'
  <2>1. CASE silent
    BY <2>1 DEF silent, ToldTeam
  <2>2. CASE /\ members' = array_add(members, ojMaxRegisteredTeamMembers,
                                     [user |-> user, team |-> team])
             /\ say("team", user, team)
    <3>1. replies' = {Reply("team", user, team)}
      BY <2>2 DEF say
    <3>2. CASE Len(members) < ojMaxRegisteredTeamMembers
      <4>1. [user |-> user, team |-> team] \in Member
        BY DEF Member
      <4>2. members' = Append(members, [user |-> user, team |-> team])
        BY <2>2, <3>2 DEF array_add
      <4>3. /\ Len(members') = Len(members) + 1
            /\ members'[Len(members) + 1] = [user |-> user, team |-> team]
        BY <1>1, <4>1, <4>2, AppendProperties
      <4>4. Len(members) + 1 \in membersOf(team)'
        BY <1>1, <4>3 DEF membersOf
      <4> QED
        BY <3>1, <4>3, <4>4 DEF Reply, ToldTeam
    <3>3. CASE ~(Len(members) < ojMaxRegisteredTeamMembers)
      <4>1. members' = members /\ Len(members) = ojMaxRegisteredTeamMembers
        BY <1>1, <2>2, <3>3, OjGameAssumption DEF array_add
      <4>2. array_find_member(members', user) = 0
        BY <1>5, <4>1
      <4>3. Reply("team", user, team) = [kind |-> "team", about |-> user, n |-> team]
        BY DEF Reply
      <4> HIDE DEF members
      <4> QED
        BY <3>1, <4>1, <4>2, <4>3 DEF ToldTeam, members
    <3> QED
      BY <3>2, <3>3
  <2> QED
    BY <1>5, <2>1, <2>2 DEF roll
<1>6. CASE /\ found # 0
           /\ say("already_on_team", user, members[found].team)
           /\ UNCHANGED members
  <2> HIDE DEF found
  <2> QED
    BY <1>1, <1>2, <1>4, <1>6
<1> QED
  BY <1>3, <1>5, <1>6 DEF highp_d4

(* !d4 tells a viewer the team that he is registered for, unless there was no *)
(* room to register him.                                                      *)
THEOREM AlwaysToldTeam == Spec => []ToldTeam
<1>1. Init => ToldTeam
  BY DEF Init, ToldTeam
<1>2. IInv /\ ToldTeam /\ [Next]_vars => ToldTeam'
  <2> SUFFICES ASSUME IInv, ToldTeam, [Next]_vars PROVE ToldTeam'
    OBVIOUS
  <2>1. CASE UNCHANGED vars
    BY <2>1 DEF vars, ToldTeam, membersOf
  <2>2. CASE PromisesNothing
    BY <2>2 DEF PromisesNothing, Promises, ToldTeam
  <2>3. ASSUME NEW user \in Users, NEW roles \in Roles, highp_play(user, roles)
        PROVE  ToldTeam'
    <3>1. \A r \in replies' : r.kind \notin {"team", "already_on_team"}
      BY <2>3 DEF highp_play, enqueue, say, Reply
    <3> QED
      BY <3>1 DEF ToldTeam
  <2>4. ASSUME NEW user \in Users, highp_d4(user) PROVE ToldTeam'
    BY <2>4, D4TellsTeam
  <2>5. ASSUME NEW n \in Teams, replies' = payouts(n) \cup {announcement}
        PROVE  ToldTeam'
    BY <2>5, WinnerKinds DEF ToldTeam
  <2> QED
    BY <2>1, <2>2, <2>3, <2>4, <2>5, WhoPromises
<1> QED
  BY <1>1, <1>2, InitIInv, NextKeepsIInv, PTL DEF Spec

-----------------------------------------------------------------------------
(* The shares of a !winner.                                                   *)

LEMMA SharesAddUp ==
    ASSUME IInv, NEW n \in Teams, replies' = payouts(n) \cup {announcement}
    PROVE  PayoutsWithinPrize'
<1> DEFINE pay == [i \in membersOf(n) |-> Reply("payout", registeredTeamMembers[i].user, share(n))]
           paid == {pay[i] : i \in membersOf(n)}
           count == Cardinality(membersOf(n))
<1>1. IsFiniteSet(membersOf(n)) /\ count \in Nat
  <2>1. Len(registeredTeamMembers) \in Nat
    BY LenProperties DEF IInv, TypeOK
  <2>2. membersOf(n) \in SUBSET (1..Len(registeredTeamMembers))
    BY DEF membersOf
  <2>3. IsFiniteSet(1..Len(registeredTeamMembers))
    BY <2>1, FS_Interval
  <2>4. IsFiniteSet(membersOf(n))
    BY <2>2, <2>3, FS_Subset
  <2> QED
    BY <2>4, FS_CardinalityType
<1>2. {x \in replies' : x.kind = "payout"} = paid
  BY PaidAreMembers
<1>3. IsFiniteSet(paid) /\ Cardinality(paid) \in Nat /\ Cardinality(paid) <= count
  <2>1. pay \in Surjection(membersOf(n), paid)
    BY DEF Surjection
  <2> QED
    BY <1>1, <2>1, FS_Surjection, FS_CardinalityType
<1>4. ASSUME NEW r \in paid
      PROVE  r.n * Cardinality(paid) <= Prize
  <2>1. r.n = share(n)
    BY DEF Reply
  <2>2. count >= 1
    <3>1. membersOf(n) # {}
      OBVIOUS
    <3>2. count # 0
      BY <1>1, <3>1, FS_EmptySet
    <3> HIDE DEF count
    <3> QED
      BY <1>1, <3>2
  <2>3. share(n) = Prize \div count
    BY <1>1, <2>2 DEF share
  <2>4. \A p \in Nat, c \in Nat \ {0} : p \div c \in Nat /\ (p \div c) * c <= p
    OBVIOUS
  <2>5. (Prize \div count) \in Nat /\ (Prize \div count) * count <= Prize
    BY <1>1, <2>2, <2>4, OjGameAssumption
  <2>6. \A a, b, c \in Nat : b <= c => a * b <= a * c
    OBVIOUS
  <2> DEFINE q == Prize \div count
             m == Cardinality(paid)
  <2>7. q \in Nat /\ m \in Nat /\ count \in Nat /\ m <= count /\ q * count <= Prize
    BY <1>1, <1>3, <2>5
  <2>8. r.n = q
    BY <2>1, <2>3
  <2> HIDE DEF q, m, count, paid
  <2>9. q * m <= q * count /\ q * m \in Nat /\ q * count \in Nat
    BY <2>6, <2>7
  <2>10. q * m <= Prize
    BY <2>7, <2>9, OjGameAssumption
  <2> QED
    BY <2>8, <2>10 DEF m
<1> HIDE DEF paid
<1> QED
  BY <1>2, <1>4 DEF PayoutsWithinPrize

(* What one !winner hands out to the members of a team is no more than the    *)
(* prize, however many they are and whether or not they divide it.            *)
THEOREM AlwaysPayoutsWithinPrize == Spec => []PayoutsWithinPrize
<1>1. Init => PayoutsWithinPrize
  BY DEF Init, PayoutsWithinPrize
<1>2. IInv /\ PayoutsWithinPrize /\ [Next]_vars => PayoutsWithinPrize'
  <2> SUFFICES ASSUME IInv, PayoutsWithinPrize, [Next]_vars PROVE PayoutsWithinPrize'
    OBVIOUS
  <2>1. CASE UNCHANGED vars
    BY <2>1 DEF vars, PayoutsWithinPrize
  <2>2. CASE PromisesNothing
    BY <2>2 DEF PromisesNothing, Promises, PayoutsWithinPrize
  <2>3. ASSUME NEW user \in Users, NEW roles \in Roles, highp_play(user, roles)
        PROVE  PayoutsWithinPrize'
    <3>1. \A r \in replies' : r.kind # "payout"
      BY <2>3 DEF highp_play, enqueue, say, Reply
    <3> QED
      BY <3>1 DEF PayoutsWithinPrize
  <2>4. ASSUME NEW user \in Users, highp_d4(user) PROVE PayoutsWithinPrize'
    BY <2>4, D4Kinds DEF PayoutsWithinPrize
  <2>5. ASSUME NEW n \in Teams, replies' = payouts(n) \cup {announcement}
        PROVE  PayoutsWithinPrize'
    BY <2>5, SharesAddUp
  <2> QED
    BY <2>1, <2>2, <2>3, <2>4, <2>5, WhoPromises
<1> QED
  BY <1>1, <1>2, InitIInv, NextKeepsIInv, PTL DEF Spec

-----------------------------------------------------------------------------
(* Leaders and members.                                                       *)

(* An account has one display name.                                           *)
OneNamePerAccount ==
    \A u, v \in Users : userId[u] = userId[v] => displayName[u] = displayName[v]

RollsNoLeader ==
    \/ registeredTeamMembers' = registeredTeamMembers
    \/ \A user \in Users : BothRoles(user)' => BothRoles(user)

LEMMA D4RollsNoLeader ==
    ASSUME OneNamePerAccount, IInv, NEW user \in Users, highp_d4(user)
    PROVE  RollsNoLeader
<1> DEFINE members == registeredTeamMembers
<1>1. members \in Seq(Member) /\ Len(members) \in Nat
  BY LenProperties DEF IInv, TypeOK
<1>2. CASE members' = members
  BY <1>2 DEF RollsNoLeader
<1>3. ASSUME members' # members, NEW team \in Teams, roll(user, team)
      PROVE  /\ Len(members') = Len(members) + 1
             /\ members'[Len(members) + 1].user = user
             /\ \A i \in 1..Len(members) : members'[i] = members[i]
  <2>1. members' = Append(members, [user |-> user, team |-> team])
    BY <1>3 DEF roll, array_add
  <2>2. [user |-> user, team |-> team] \in Member
    BY DEF Member
  <2> QED
    BY <1>1, <2>1, <2>2, AppendProperties
<1>4. CASE members' # members
  <2>1. /\ Len(members') = Len(members) + 1
        /\ members'[Len(members) + 1].user = user
        /\ \A i \in 1..Len(members) : members'[i] = members[i]
    BY <1>3, <1>4 DEF highp_d4
  <2>2. ~leads(user) /\ UNCHANGED teamLeaders
    BY <1>4 DEF highp_d4
  <2>3. ASSUME NEW other \in Users, BothRoles(other)'
        PROVE  BothRoles(other)
    <3>1. leads(other)
      BY <2>2, <2>3 DEF BothRoles, leads
    <3>2. PICK i \in 1..(Len(members) + 1) : userId[members'[i].user] = userId[other]
      BY <2>1, <2>3 DEF BothRoles
    <3>3. i # Len(members) + 1
      <4>1. userId[other] # userId[user]
        BY <2>2, <3>1 DEF OneNamePerAccount, leads
      <4> QED
        BY <2>1, <3>2, <4>1
    <3>4. i \in 1..Len(members) /\ userId[members[i].user] = userId[other]
      BY <1>1, <2>1, <3>2, <3>3
    <3> QED
      BY <3>1, <3>4 DEF BothRoles, leads
  <2> QED
    BY <2>3 DEF RollsNoLeader
<1> QED
  BY <1>2, <1>4

(* Where an account has one name, !d4 gives no team to a viewer who leads     *)
(* one: he comes to have both roles by a later !teams alone.                  *)
THEOREM AlwaysNoLeaderRolls ==
    ASSUME OneNamePerAccount
    PROVE  Spec => NoLeaderRolls
<1>1. IInv /\ [Next]_vars => RollsNoLeader
  <2> SUFFICES ASSUME IInv, [Next]_vars PROVE RollsNoLeader
    OBVIOUS
  <2>1. CASE UNCHANGED registeredTeamMembers
    BY <2>1 DEF RollsNoLeader
  <2>2. ASSUME NEW user \in Users, highp_d4(user) PROVE RollsNoLeader
    BY <2>2, D4RollsNoLeader
  <2>3. ASSUME NEW n \in 0..(NumTeams + 1), highp_winner(n) PROVE RollsNoLeader
    <3>1. CASE registeredTeamMembers' = <<>>
      <4>1. Len(registeredTeamMembers') = 0
        BY <3>1, EmptySeq
      <4> QED
        BY <4>1 DEF RollsNoLeader, BothRoles
    <3> QED
      BY <2>1, <2>3, <3>1 DEF highp_winner
  <2>4. CASE UNCHANGED vars \/ highp_github \/ highp_nextround \/ highp_queue
    BY <2>1, <2>4 DEF vars, highp_github, highp_nextround, highp_queue, game
  <2>5. ASSUME NEW roles \in Roles, highp_commands(roles) \/ highp_open(roles)
        PROVE  RollsNoLeader
    BY <2>1, <2>5 DEF highp_commands, highp_open, game
  <2>6. ASSUME NEW roles \in Roles, NEW words \in TeamWords, highp_teams(roles, words)
        PROVE  RollsNoLeader
    BY <2>1, <2>6 DEF highp_teams
  <2>7. ASSUME NEW user \in Users, NEW roles \in Roles, highp_play(user, roles)
        PROVE  RollsNoLeader
    BY <2>1, <2>7 DEF highp_play
  <2>8. ASSUME NEW text \in Texts, highp_remove(text) PROVE RollsNoLeader
    BY <2>1, <2>8 DEF highp_remove
  <2> QED
    BY <2>2, <2>3, <2>4, <2>5, <2>6, <2>7, <2>8 DEF Next
<1>2. []IInv /\ [][Next]_vars => NoLeaderRolls
  BY <1>1, PTL DEF NoLeaderRolls, RollsNoLeader
<1> QED
  BY <1>2, InitIInv, NextKeepsIInv, PTL DEF Spec

-----------------------------------------------------------------------------
(* Those who leave the queue.                                                 *)

Told(i) ==
    \/ i = 1 /\ \E r \in replies' : r.kind = "started"
    \/ \E r \in replies' :
          /\ r.kind = "removed"
          /\ \A j \in 1..i : <<r.about, displayName[queue[j]]>> \in Mentions <=> j = i

NoneVanishes ==
    \/ queue' = queue
    \/ \A i \in 1..Len(queue) : GoneFrom(queue', i) => Told(i)

(* Of an array that an item was removed from, only that item is gone.         *)
LEMMA OnlyOneGone ==
    ASSUME IInv, NEW k \in 1..Len(queue), queue' = array_remove_index_ordered(queue, k),
           NEW i \in 1..Len(queue), GoneFrom(queue', i)
    PROVE  i = k
<1>1. queue \in Seq(Users) /\ Len(queue) \in Nat
  BY LenProperties DEF IInv, TypeOK
<1>2. /\ Len(queue') = Len(queue) - 1
      /\ \A j \in 1..(Len(queue) - 1) : queue'[j] = IF j < k THEN queue[j] ELSE queue[j + 1]
  BY <1>1, RemoveOrdered
<1>3. \A j \in 1..(Len(queue) - 1) : queue'[j] # queue[i]
  BY <1>2 DEF GoneFrom
<1>4. CASE i < k
  <2>1. i \in 1..(Len(queue) - 1) /\ queue'[i] = queue[i]
    BY <1>1, <1>2, <1>4
  <2> QED
    BY <1>3, <2>1
<1>5. CASE i > k
  <2>1. i - 1 \in 1..(Len(queue) - 1) /\ queue'[i - 1] = queue[i]
    BY <1>1, <1>2, <1>5
  <2> QED
    BY <1>3, <2>1
<1> QED
  BY <1>4, <1>5

(* No viewer is missing from the queue but the one admitted by a !nextround   *)
(* the chat was told of, or the first whom the text of a !remove names.       *)
THEOREM AlwaysNobodyVanishes == Spec => NobodyVanishes
<1>1. IInv /\ [Next]_vars => NoneVanishes
  <2> SUFFICES ASSUME IInv, [Next]_vars PROVE NoneVanishes
    OBVIOUS
  <2>1. CASE UNCHANGED queue
    BY <2>1 DEF NoneVanishes
  <2>2. ASSUME NEW user \in Users, NEW roles \in Roles, highp_play(user, roles)
        PROVE  NoneVanishes
    <3>1. CASE queue' = array_add(queue, ojMaxQueueLength, user)
      <4>1. queue \in Seq(Users) /\ Len(queue) \in Nat
        BY LenProperties DEF IInv, TypeOK
      <4>2. CASE queue' = Append(queue, user)
        <5>1. /\ Len(queue') = Len(queue) + 1
              /\ \A i \in 1..Len(queue) : queue'[i] = queue[i]
          BY <4>1, <4>2, AppendProperties
        <5>2. \A i \in 1..Len(queue) : ~GoneFrom(queue', i)
          BY <4>1, <5>1 DEF GoneFrom
        <5> QED
          BY <5>2 DEF NoneVanishes
      <4> QED
        BY <2>1, <3>1, <4>2 DEF array_add
    <3> QED
      BY <2>1, <2>2, <3>1 DEF highp_play, enqueue
  <2>3. CASE highp_nextround
    <3>1. CASE queue # <<>> /\ state # "IN_PROGRESS"
      <4>1. 1 \in 1..Len(queue) /\ queue' = array_remove_index_ordered(queue, 1)
        BY <2>3, <3>1, EmptySeq DEF highp_nextround, IInv, TypeOK
      <4>2. \E r \in replies' : r.kind = "started"
        <5>1. replies' = {Reply("started", NoUser, 0)}
          BY <2>3, <3>1 DEF highp_nextround, say
        <5> QED
          BY <5>1 DEF Reply
      <4>3. \A i \in 1..Len(queue) : GoneFrom(queue', i) => i = 1
        BY <4>1, OnlyOneGone
      <4> QED
        BY <4>2, <4>3 DEF NoneVanishes, Told
    <3> QED
      BY <2>1, <2>3, <3>1 DEF highp_nextround
  <2>4. ASSUME NEW text \in Texts, highp_remove(text) PROVE NoneVanishes
    <3>1. ASSUME NEW k \in mentioned(text), \A j \in mentioned(text) : k <= j,
                 queue' = array_remove_index_ordered(queue, k), say("removed", text, 0)
          PROVE  NoneVanishes
      <4>1. k \in 1..Len(queue) /\ Len(queue) \in Nat
        BY LenProperties DEF mentioned, IInv, TypeOK
      <4>2. \A j \in 1..k : <<text, displayName[queue[j]]>> \in Mentions <=> j = k
        BY <3>1, <4>1 DEF mentioned
      <4>3. Told(k)
        BY <3>1, <4>2 DEF say, Reply, Told
      <4>4. \A i \in 1..Len(queue) : GoneFrom(queue', i) => i = k
        BY <3>1, <4>1, OnlyOneGone
      <4> QED
        BY <4>3, <4>4 DEF NoneVanishes
    <3> QED
      BY <2>1, <2>4, <3>1 DEF highp_remove
  <2>5. CASE UNCHANGED vars \/ highp_github \/ highp_queue
    BY <2>1, <2>5 DEF vars, highp_github, highp_queue, game
  <2>6. ASSUME NEW roles \in Roles, highp_commands(roles) \/ highp_open(roles)
        PROVE  NoneVanishes
    BY <2>1, <2>6 DEF highp_commands, highp_open, game
  <2>7. ASSUME NEW roles \in Roles, NEW words \in TeamWords, highp_teams(roles, words)
        PROVE  NoneVanishes
    BY <2>1, <2>7 DEF highp_teams
  <2>8. ASSUME NEW user \in Users, highp_d4(user) PROVE NoneVanishes
    BY <2>1, <2>8 DEF highp_d4
  <2>9. ASSUME NEW n \in 0..(NumTeams + 1), highp_winner(n) PROVE NoneVanishes
    BY <2>1, <2>9 DEF highp_winner
  <2> QED
    BY <2>2, <2>3, <2>4, <2>5, <2>6, <2>7, <2>8, <2>9 DEF Next
<1>2. []IInv /\ [][Next]_vars => NobodyVanishes
  BY <1>1, PTL DEF NobodyVanishes, NoneVanishes, Told
<1> QED
  BY <1>2, InitIInv, NextKeepsIInv, PTL DEF Spec

-----------------------------------------------------------------------------
(* Nobody overtakes.                                                          *)

Behind(old, new) ==
    \A j \in 1..Len(new) :
        PQ!Waits(new[j], old) => \A i \in 1..(j - 1) : PQ!Ahead(old, new[i], new[j])

(* Whoever joins stands behind all others.                                    *)
LEMMA JoinKeepsOrder ==
    ASSUME NEW line \in Seq(Ids), NEW p \in Ids, ~PQ!Waits(p, line)
    PROVE  Behind(line, Append(line, p))
<1> DEFINE more == Append(line, p)
<1>1. /\ Len(line) \in Nat /\ Len(more) = Len(line) + 1
      /\ more[Len(line) + 1] = p
      /\ \A i \in 1..Len(line) : more[i] = line[i]
  BY AppendProperties, LenProperties
<1> HIDE DEF more
<1> SUFFICES ASSUME NEW j \in 1..Len(more), PQ!Waits(more[j], line), NEW i \in 1..(j - 1)
             PROVE  PQ!Ahead(line, more[i], more[j])
  BY DEF Behind, more
<1>2. j # Len(line) + 1
  BY <1>1
<1>3. i \in 1..Len(line) /\ j \in 1..Len(line) /\ i < j
  BY <1>1, <1>2
<1>4. line[i] = more[i] /\ line[j] = more[j]
  BY <1>1, <1>3
<1> QED
  BY <1>3, <1>4 DEF PQ!Ahead

(* A line somebody left has the others in the order they had.                 *)
LEMMA LeaveKeepsOrder ==
    ASSUME NEW line \in Seq(Ids), NEW k \in 1..Len(line)
    PROVE  Behind(line, array_remove_index_ordered(line, k))
<1> DEFINE rest == array_remove_index_ordered(line, k)
           old(x) == IF x < k THEN x ELSE x + 1
<1>1. /\ Len(line) \in Nat /\ Len(rest) = Len(line) - 1
      /\ \A j \in 1..(Len(line) - 1) : rest[j] = IF j < k THEN line[j] ELSE line[j + 1]
  BY RemoveOrdered, LenProperties
<1> HIDE DEF rest
<1> SUFFICES ASSUME NEW j \in 1..Len(rest), NEW i \in 1..(j - 1)
             PROVE  PQ!Ahead(line, rest[i], rest[j])
  BY DEF Behind, rest
<1>2. i \in 1..(Len(line) - 1) /\ j \in 1..(Len(line) - 1) /\ i < j
  BY <1>1
<1>3. /\ old(i) \in 1..Len(line) /\ old(j) \in 1..Len(line) /\ old(i) < old(j)
      /\ line[old(i)] = rest[i] /\ line[old(j)] = rest[j]
  BY <1>1, <1>2
<1> HIDE DEF old
<1> QED
  BY <1>3 DEF PQ!Ahead

LEMMA StepKeepsOrder ==
    ASSUME IInv, [PQ!Next]_PQ!vars, IdOf(queue)' # IdOf(queue)
    PROVE  Behind(IdOf(queue), IdOf(queue)')
<1> DEFINE line == IdOf(queue)
<1>1. line \in Seq(Ids)
  BY IdOfSeq DEF IInv, TypeOK
<1>2. ASSUME NEW p \in Ids, PQ!Join(p) PROVE Behind(line, line')
  <2>1. line' = Append(line, p) /\ ~PQ!Waits(p, line)
    BY <1>2 DEF PQ!Join
  <2> HIDE DEF line
  <2> QED
    BY <1>1, <2>1, JoinKeepsOrder
<1>3. ASSUME NEW k \in 1..Len(line), line' = array_remove_index_ordered(line, k)
      PROVE  Behind(line, line')
  <2> HIDE DEF line
  <2> QED
    BY <1>1, <1>3, LeaveKeepsOrder
<1>4. ASSUME NEW k \in 1..Len(line), PQ!Leave(k) PROVE Behind(line, line')
  BY <1>3, <1>4 DEF PQ!Leave, array_remove_index_ordered
<1>5. CASE PQ!Admit
  <2>1. line # <<>> /\ line' = Tail(line)
    BY <1>5 DEF PQ!Admit
  <2> HIDE DEF line
  <2>2. 1 \in 1..Len(line) /\ Len(line) \in Nat
    BY <1>1, <2>1, EmptySeq
  <2>3. Tail(line) = array_remove_index_ordered(line, 1)
    <3>1. SubSeq(line, 1, 0) = <<>>
      BY SubSeqEmpty
    <3>2. Tail(line) = SubSeq(line, 2, Len(line)) /\ Tail(line) \in Seq(Ids)
      BY <1>1, <2>1, TailIsSubSeq, HeadTailProperties
    <3> QED
      BY <3>1, <3>2, ConcatEmptySeq DEF array_remove_index_ordered
  <2> QED
    BY <1>3, <2>1, <2>2, <2>3 DEF line
<1>6. ~PQ!Open /\ ~UNCHANGED PQ!vars
  BY DEF PQ!Open, PQ!vars
<1> QED
  BY <1>2, <1>4, <1>5, <1>6 DEF PQ!Next, Ids

(* Whatever the chat types, a viewer who waits is passed by nobody.           *)
THEOREM AlwaysNoOvertaking == Spec => NoOvertaking
<1>1. IInv /\ ClosedIsEmpty /\ [Next]_vars =>
         [Behind(IdOf(queue), IdOf(queue)')]_(IdOf(queue))
  BY NextRefines, StepKeepsOrder
<1>2. [](IInv /\ ClosedIsEmpty) /\ [][Next]_vars => NoOvertaking
  BY <1>1, PTL DEF NoOvertaking, PQ!NoOvertaking, Behind
<1>3. Init => ClosedIsEmpty
  BY DEF Init, ClosedIsEmpty
<1> QED
  BY <1>2, <1>3, InitIInv, NextKeepsIInv, NextKeepsClosedIsEmpty, PTL DEF Spec

-----------------------------------------------------------------------------
(* What one command has the client send: nothing, one message, or the payouts *)
(* of a team and one message more.                                            *)

Payouts == {"payout_leader", "payout"}

OneAnswer ==
    /\ IsFiniteSet(replies')
    /\ \A r, s \in replies' :
          /\ r.kind = "payout_leader" /\ s.kind = "payout_leader" => r = s
          /\ r.kind \notin Payouts /\ s.kind \notin Payouts => r = s
    /\ \A r \in replies' : r.kind = "payout" =>
          \E i \in 1..Len(registeredTeamMembers) : r.about = registeredTeamMembers[i].user

LEMMA OneMessage ==
    ASSUME NEW kind \in ReplyKinds \ Payouts, NEW about, NEW n, say(kind, about, n) \/ silent
    PROVE  OneAnswer
<1>1. IsFiniteSet(replies')
  BY FS_EmptySet, FS_Singleton DEF say, silent
<1>2. \A r \in replies' : r = Reply(kind, about, n)
  BY DEF say, silent
<1>3. Reply(kind, about, n).kind = kind
  BY DEF Reply
<1> QED
  BY <1>1, <1>2, <1>3 DEF OneAnswer, Payouts

LEMMA TeamIsPaid ==
    ASSUME IInv, NEW team \in Teams, replies' = payouts(team) \cup {announcement}
    PROVE  OneAnswer
<1> DEFINE pay == [i \in membersOf(team) |->
                      Reply("payout", registeredTeamMembers[i].user, share(team))]
           paid == {pay[i] : i \in membersOf(team)}
           led == {x \in {team} : teamLeaders[x] # NoName}
           toLeader == {Reply("payout_leader", teamLeaders[team], Prize) : t \in led}
<1>1. replies' = (toLeader \cup paid) \cup {announcement}
  BY DEF payouts
<1>2. IsFiniteSet(paid)
  <2>1. Len(registeredTeamMembers) \in Nat
    BY LenProperties DEF IInv, TypeOK
  <2>2. membersOf(team) \in SUBSET (1..Len(registeredTeamMembers))
    BY DEF membersOf
  <2>3. IsFiniteSet(1..Len(registeredTeamMembers))
    BY <2>1, FS_Interval
  <2>4. IsFiniteSet(membersOf(team))
    BY <2>2, <2>3, FS_Subset
  <2>5. pay \in Surjection(membersOf(team), paid)
    BY DEF Surjection
  <2> QED
    BY <2>4, <2>5, FS_Surjection
<1>3. toLeader \in SUBSET {Reply("payout_leader", teamLeaders[team], Prize)}
  OBVIOUS
<1>4. IsFiniteSet(toLeader)
  <2>1. IsFiniteSet({Reply("payout_leader", teamLeaders[team], Prize)})
    BY FS_Singleton
  <2> HIDE DEF toLeader
  <2> QED
    BY <1>3, <2>1, FS_Subset
<1>5. /\ \A r \in toLeader : /\ r = Reply("payout_leader", teamLeaders[team], Prize)
                             /\ r.kind = "payout_leader"
      /\ \A r \in paid : /\ r.kind = "payout"
                         /\ \E i \in 1..Len(registeredTeamMembers) :
                               r.about = registeredTeamMembers[i].user
      /\ announcement.kind \notin Payouts
  <2>1. \A r \in toLeader : r = Reply("payout_leader", teamLeaders[team], Prize)
    OBVIOUS
  <2>2. \A i \in membersOf(team) : /\ i \in 1..Len(registeredTeamMembers)
                                   /\ pay[i] = Reply("payout", registeredTeamMembers[i].user, share(team))
    BY DEF membersOf
  <2>3. \A kind, about, n : Reply(kind, about, n).kind = kind /\ Reply(kind, about, n).about = about
    BY DEF Reply
  <2>4. announcement.kind \notin Payouts
    BY <2>3 DEF announcement, Payouts
  <2> QED
    BY <2>1, <2>2, <2>3, <2>4
<1> HIDE DEF toLeader, paid
<1>6. IsFiniteSet(replies')
  <2>1. IsFiniteSet(toLeader \cup paid)
    BY <1>2, <1>4, FS_Union
  <2> QED
    BY <1>1, <2>1, FS_AddElement
<1> QED
  BY <1>1, <1>5, <1>6 DEF OneAnswer, Payouts

LEMMA EveryCommandAnswersOnce ==
    ASSUME IInv, Next
    PROVE  OneAnswer
<1>1. CASE highp_github \/ highp_nextround \/ highp_queue
  BY <1>1, OneMessage DEF highp_github, highp_nextround, highp_queue, ReplyKinds, Payouts
<1>2. ASSUME NEW roles \in Roles, highp_commands(roles) \/ highp_open(roles)
      PROVE  OneAnswer
  BY <1>2, OneMessage DEF highp_commands, highp_open, ReplyKinds, Payouts
<1>3. ASSUME NEW roles \in Roles, NEW words \in TeamWords, highp_teams(roles, words)
      PROVE  OneAnswer
  BY <1>3, OneMessage DEF highp_teams, ReplyKinds, Payouts
<1>4. ASSUME NEW user \in Users, NEW roles \in Roles, highp_play(user, roles)
      PROVE  OneAnswer
  BY <1>4, OneMessage DEF highp_play, enqueue, ReplyKinds, Payouts
<1>5. ASSUME NEW user \in Users, highp_d4(user)
      PROVE  OneAnswer
  <2>1. \/ silent
        \/ \E n : \/ say("no_game", user, n) \/ say("leader", user, n)
                  \/ say("already_on_team", user, n) \/ say("team", user, n)
    BY <1>5 DEF highp_d4, roll
  <2>2. {"no_game", "leader", "already_on_team", "team"} \subseteq ReplyKinds \ Payouts
    BY DEF ReplyKinds, Payouts
  <2> QED
    BY <2>1, <2>2, OneMessage
<1>6. ASSUME NEW n \in 0..(NumTeams + 1), highp_winner(n)
      PROVE  OneAnswer
  <2>1. CASE n \in Teams /\ replies' = payouts(n) \cup {announcement}
    BY <2>1, TeamIsPaid
  <2>2. CASE silent \/ say("proper_team", NoUser, 0)
    BY <2>2, OneMessage DEF ReplyKinds, Payouts
  <2> QED
    BY <1>6, <2>1, <2>2 DEF highp_winner
<1>7. ASSUME NEW text \in Texts, highp_remove(text)
      PROVE  OneAnswer
  BY <1>7, OneMessage DEF highp_remove, ReplyKinds, Payouts
<1> QED
  BY <1>1, <1>2, <1>3, <1>4, <1>5, <1>6, <1>7 DEF Next

LEMMA LeastExists ==
    ASSUME NEW T \in SUBSET Nat, T # {}
    PROVE  \E n \in T : \A m \in T : n <= m
<1> DEFINE below == {0..n : n \in T}
<1>1. below \subseteq FiniteSubsetsOf(Nat) /\ below # {}
  <2>1. ASSUME NEW n \in T PROVE 0..n \in SUBSET Nat /\ IsFiniteSet(0..n)
    BY FS_Interval
  <2> QED
    BY <2>1 DEF FiniteSubsetsOf
<1>2. \E x \in below : \A y \in below : ~(<<y, x>> \in StrictSubsetOrdering(Nat))
  <2>1. IsWellFoundedOn(StrictSubsetOrdering(Nat), FiniteSubsetsOf(Nat))
    BY FS_StrictSubsetOrderingWellFounded
  <2> HIDE DEF below
  <2> QED
    BY <1>1, <2>1, WFMin
<1>3. PICK n \in T : \A m \in T : <<0..m, 0..n>> \notin StrictSubsetOrdering(Nat)
  BY <1>2
<1>4. ASSUME NEW m \in T, m < n PROVE FALSE
  <2>1. 0..m \subseteq 0..n /\ n \in 0..n /\ n \notin 0..m /\ 0..n \subseteq Nat
    BY <1>4
  <2> QED
    BY <1>3, <2>1 DEF StrictSubsetOrdering
<1> QED
  BY <1>4

(* A finite set can be put in order: least place first, nothing twice.        *)
Ordered(A, p, s) ==
    /\ s \in [1..Cardinality(A) -> A]
    /\ \A i, j \in 1..Cardinality(A) : i < j => s[i] # s[j] /\ p[s[i]] <= p[s[j]]

LEMMA OrderExists ==
    ASSUME NEW A, IsFiniteSet(A), NEW p \in [A -> Nat]
    PROVE  \E s : Ordered(A, p, s)
<1> DEFINE Sortable(B) == \E s : Ordered(B, p, s)
           Bad == {n \in Nat : \E B \in SUBSET A : Cardinality(B) = n /\ ~Sortable(B)}
<1>1. Bad = {}
  <2> SUFFICES ASSUME Bad # {} PROVE FALSE
    OBVIOUS
  <2>1. PICK n \in Bad : \A m \in Bad : n <= m
    BY LeastExists
  <2>2. PICK B \in SUBSET A : Cardinality(B) = n /\ ~Sortable(B)
    BY <2>1
  <2>3. IsFiniteSet(B) /\ n \in Nat
    BY <2>1, <2>2, FS_Subset
  <2>4. CASE n = 0
    <3>1. B = {}
      BY <2>2, <2>3, <2>4, FS_EmptySet
    <3>2. Ordered(B, p, [i \in 1..0 |-> i])
      BY <2>2, <2>4, <3>1 DEF Ordered
    <3> QED
      BY <2>2, <3>2
  <2>5. CASE n # 0
    <3>1. B # {}
      BY <2>2, <2>3, <2>5, FS_EmptySet
    <3>2. PICK b \in B : \A c \in B : p[b] <= p[c]
      <4> DEFINE places == {p[c] : c \in B}
      <4>1. places \in SUBSET Nat /\ places # {}
        BY <3>1
      <4>2. PICK k \in places : \A m \in places : k <= m
        BY <4>1, LeastExists
      <4> QED
        BY <4>2
    <3> DEFINE C == B \ {b}
    <3>3. Cardinality(C) = n - 1
      BY <2>2, <2>3, FS_RemoveElement
    <3>4. Sortable(C)
      <4>1. n - 1 \in Nat /\ ~(n <= n - 1)
        BY <2>3, <2>5
      <4>2. C \in SUBSET A
        OBVIOUS
      <4> QED
        BY <2>1, <3>3, <4>1, <4>2
    <3>5. PICK t : Ordered(C, p, t)
      BY <3>4
    <3>6. /\ t \in [1..(n - 1) -> C]
          /\ \A i, j \in 1..(n - 1) : i < j => t[i] # t[j] /\ p[t[i]] <= p[t[j]]
      BY <3>3, <3>5 DEF Ordered
    <3> DEFINE s == [i \in 1..n |-> IF i = 1 THEN b ELSE t[i - 1]]
    <3>7. \A i \in 1..n : i # 1 => i - 1 \in 1..(n - 1) /\ s[i] = t[i - 1] /\ t[i - 1] \in C
      BY <2>3, <3>6
    <3>8. 1 \in 1..n /\ s[1] = b
      BY <2>3, <2>5
    <3>9. s \in [1..n -> B]
      BY <3>7
    <3>10. ASSUME NEW i \in 1..n, NEW j \in 1..n, i < j
           PROVE  s[i] # s[j] /\ p[s[i]] <= p[s[j]]
      <4>1. j # 1 /\ s[j] \in C
        BY <3>7, <3>10
      <4>2. CASE i = 1
        BY <3>2, <3>8, <4>1, <4>2
      <4>3. CASE i # 1
        <5>1. i - 1 < j - 1
          BY <3>10
        <5> HIDE DEF s, C
        <5> QED
          BY <3>6, <3>7, <4>1, <4>3, <5>1
      <4> QED
        BY <4>2, <4>3
    <3> HIDE DEF s
    <3>11. Ordered(B, p, s)
      BY <2>2, <3>9, <3>10 DEF Ordered
    <3> QED
      BY <2>2, <3>11
  <2> QED
    BY <2>4, <2>5
<1>2. Cardinality(A) \in Nat
  BY FS_CardinalityType
<1> QED
  BY <1>1, <1>2

(* So the answers to a command can be put in order, whatever place each has.  *)
LEMMA AnswersHaveOrder ==
    ASSUME OneAnswer, NEW p \in [replies' -> Nat]
    PROVE  Cardinality(replies') \in Nat /\ \E s : Ordered(replies', p, s)
  BY OrderExists, FS_CardinalityType DEF OneAnswer

(* Put in order, none of them is left out.                                    *)
LEMMA OrderIsComplete ==
    ASSUME OneAnswer, NEW s \in [1..Cardinality(replies') -> replies'],
           \A i, j \in 1..Cardinality(replies') : i < j => s[i] # s[j]
    PROVE  \A r \in replies' : \E i \in 1..Cardinality(replies') : s[i] = r
<1> DEFINE n == Cardinality(replies')
<1>1. n \in Nat /\ IsFiniteSet(replies')
  BY FS_CardinalityType DEF OneAnswer
<1>2. s \in Injection(1..n, replies')
  <2>1. s \in [1..n -> replies'] /\ \A i, j \in 1..n : i < j => s[i] # s[j]
    OBVIOUS
  <2> HIDE DEF n
  <2>2. \A i, j \in 1..n : s[i] = s[j] => i = j
    BY <1>1, <2>1
  <2> QED
    BY <2>1, <2>2 DEF Injection, IsInjective
<1>3. Cardinality(1..n) = n
  BY <1>1, FS_Interval
<1>4. s \in Surjection(1..n, replies')
  BY <1>1, <1>2, <1>3, FS_Injection
<1> QED
  BY <1>4 DEF Surjection

-----------------------------------------------------------------------------
(* From being told a team to being paid with it.                              *)

(* Whoever types a command is one viewer of his account, and there is room    *)
(* for all of them in the registration.                                       *)
EverybodyFits ==
    /\ \A u, v \in Users : userId[u] = userId[v] => u = v
    /\ IsFiniteSet(Users)
    /\ Cardinality(Users) <= ojMaxRegisteredTeamMembers

OnTeam(members, user, team) ==
    \E i \in 1..Len(members) : members[i].user = user /\ members[i].team = team

(* Then the registration is not full while somebody is missing in it.         *)
LEMMA RoomForOneMore ==
    ASSUME EverybodyFits, IInv, NEW user \in Users,
           \A i \in 1..Len(registeredTeamMembers) : registeredTeamMembers[i].user # user
    PROVE  Len(registeredTeamMembers) < ojMaxRegisteredTeamMembers
<1> DEFINE members == registeredTeamMembers
           others == Users \ {user}
           names == [i \in 1..Len(members) |-> members[i].user]
<1>1. members \in Seq(Member) /\ Len(members) \in Nat
  BY LenProperties DEF IInv, TypeOK
<1>2. \A i \in 1..Len(members) : members[i].user \in Users
  <2>1. \A i \in 1..Len(members) : members[i] \in Member
    BY <1>1, ElementOfSeq
  <2> QED
    BY <2>1 DEF Member
<1>3. IsFiniteSet(others) /\ Cardinality(others) = Cardinality(Users) - 1
  BY FS_RemoveElement DEF EverybodyFits
<1>4. names \in Injection(1..Len(members), others)
  <2>1. names \in [1..Len(members) -> others]
    BY <1>2
  <2>2. \A i, j \in 1..Len(members) : names[i] = names[j] => i = j
    BY DEF IInv, OneSlotPerUser
  <2> QED
    BY <2>1, <2>2 DEF Injection, IsInjective
<1>5. Cardinality(1..Len(members)) = Len(members)
  <2>1. PICK k \in Nat : k = Len(members)
    BY <1>1
  <2>2. Cardinality(1..k) = IF 1 > k THEN 0 ELSE k - 1 + 1
    BY FS_Interval
  <2> QED
    BY <2>1, <2>2
<1>6. Len(members) <= Cardinality(others)
  <2> HIDE DEF names, others
  <2> QED
    BY <1>3, <1>4, <1>5, FS_Injection
<1>7. Cardinality(Users) \in Nat
  BY FS_CardinalityType DEF EverybodyFits
<1> QED
  BY <1>1, <1>3, <1>6, <1>7, OjGameAssumption DEF EverybodyFits

LEMMA ToldIsOnTeam ==
    ASSUME EverybodyFits, IInv, Next, NEW r \in replies', r.kind \in {"team", "already_on_team"}
    PROVE  state' = "IN_PROGRESS" /\ OnTeam(registeredTeamMembers', r.about, r.n)
<1> DEFINE members == registeredTeamMembers
<1>1. PICK user \in Users : highp_d4(user)
  <2>1. ~PromisesNothing
    BY DEF PromisesNothing, Promises
  <2>2. ASSUME NEW user \in Users, NEW roles \in Roles, highp_play(user, roles) PROVE FALSE
    BY <2>2 DEF highp_play, enqueue, say, Reply
  <2>3. ASSUME NEW n \in Teams, replies' = payouts(n) \cup {announcement} PROVE FALSE
    BY <2>3, WinnerKinds
  <2> QED
    BY <2>1, <2>2, <2>3, WhoPromises
<1> DEFINE found == array_find_member(members, user)
<1>2. members \in Seq(Member) /\ Len(members) \in Nat
  BY LenProperties DEF IInv, TypeOK
<1>3. /\ found \in 0..Len(members)
      /\ found # 0 => userId[members[found].user] = userId[user]
      /\ found = 0 => \A i \in 1..Len(members) : userId[members[i].user] # userId[user]
  BY <1>2, FindMember DEF IInv, OneSlotPerUser
<1>4. \/ /\ state = "IN_PROGRESS" /\ found # 0
         /\ say("already_on_team", user, members[found].team)
         /\ members' = members
      \/ /\ state = "IN_PROGRESS" /\ found = 0
         /\ \E team \in Teams : roll(user, team)
  <2> HIDE DEF found
  <2>1. \A kind, n : say(kind, user, n) => r.kind = kind
    BY DEF say, Reply
  <2> QED
    BY <1>1, <2>1 DEF highp_d4, found
<1>5. state' = state
  BY <1>1 DEF highp_d4
<1>6. CASE found # 0 /\ say("already_on_team", user, members[found].team) /\ members' = members
  <2>1. r.about = user /\ r.n = members[found].team
    BY <1>6 DEF say, Reply
  <2>2. found \in 1..Len(members) /\ members[found] \in Member
    BY <1>2, <1>3, <1>6, ElementOfSeq
  <2>3. members[found].user = user
    BY <1>3, <1>6, <2>2 DEF EverybodyFits, Member
  <2> HIDE DEF found
  <2>4. OnTeam(registeredTeamMembers', r.about, r.n)
    BY <1>6, <2>1, <2>2, <2>3 DEF OnTeam
  <2> QED
    BY <1>4, <1>5, <2>4
<1>7. CASE found = 0 /\ \E team \in Teams : roll(user, team)
  <2>1. Len(members) < ojMaxRegisteredTeamMembers
    BY <1>3, <1>7, RoomForOneMore
  <2>2. PICK team \in Teams : roll(user, team)
    BY <1>7
  <2>3. members' = Append(members, [user |-> user, team |-> team]) /\ say("team", user, team)
    BY <1>2, <2>1, <2>2 DEF roll, array_add, array_add_index
  <2>4. [user |-> user, team |-> team] \in Member
    BY DEF Member
  <2>5. Len(members') = Len(members) + 1 /\ members'[Len(members) + 1] = [user |-> user, team |-> team]
    BY <1>2, <2>3, <2>4, AppendProperties
  <2>6. r.about = user /\ r.n = team
    BY <2>3 DEF say, Reply
  <2>7. Len(members) + 1 \in 1..Len(members')
    BY <1>2, <2>5
  <2>8. OnTeam(registeredTeamMembers', r.about, r.n)
    BY <2>5, <2>6, <2>7 DEF OnTeam
  <2> QED
    BY <1>4, <1>5, <2>8
<1> QED
  BY <1>4, <1>6, <1>7

(* A command that neither opens the queue nor names a winner.                 *)
WithinRound ==
    \/ highp_github \/ highp_nextround \/ highp_queue
    \/ \E roles \in Roles : highp_commands(roles)
    \/ \E roles \in Roles, words \in TeamWords : highp_teams(roles, words)
    \/ \E user \in Users, roles \in Roles : highp_play(user, roles)
    \/ \E user \in Users : highp_d4(user)
    \/ \E n \in (0..(NumTeams + 1)) \ Teams : highp_winner(n)
    \/ \E text \in Texts : highp_remove(text)

LEMMA RoundGoesOn ==
    ASSUME IInv, state = "IN_PROGRESS", WithinRound
    PROVE  /\ state' = "IN_PROGRESS"
           /\ \A user, team : OnTeam(registeredTeamMembers, user, team)
                              => OnTeam(registeredTeamMembers', user, team)
<1> DEFINE members == registeredTeamMembers
<1>1. CASE UNCHANGED <<state, registeredTeamMembers>>
  BY <1>1 DEF OnTeam
<1>2. ASSUME NEW user \in Users, highp_d4(user)
      PROVE  /\ state' = "IN_PROGRESS"
             /\ \A u, t : OnTeam(members, u, t) => OnTeam(members', u, t)
  <2>1. UNCHANGED state
    BY <1>2 DEF highp_d4
  <2>2. members' = members \/ \E team \in Teams : members' = Append(members, [user |-> user, team |-> team])
    BY <1>2 DEF highp_d4, roll, array_add
  <2>3. ASSUME NEW team \in Teams, members' = Append(members, [user |-> user, team |-> team])
        PROVE  \A u, t : OnTeam(members, u, t) => OnTeam(members', u, t)
    <3>1. [user |-> user, team |-> team] \in Member
      BY DEF Member
    <3>2. members \in Seq(Member) /\ Len(members) \in Nat
      BY LenProperties DEF IInv, TypeOK
    <3>3. /\ Len(members') = Len(members) + 1
          /\ \A i \in 1..Len(members) : members'[i] = members[i]
      BY <2>3, <3>1, <3>2, AppendProperties
    <3> QED
      BY <3>2, <3>3 DEF OnTeam
  <2> QED
    BY <1>1, <2>1, <2>2, <2>3
<1>3. CASE highp_github \/ highp_nextround \/ highp_queue
  BY <1>1, <1>3 DEF highp_github, highp_nextround, highp_queue, game
<1>4. ASSUME NEW roles \in Roles, highp_commands(roles)
      PROVE  UNCHANGED <<state, registeredTeamMembers>>
  BY <1>4 DEF highp_commands, game
<1>5. ASSUME NEW roles \in Roles, NEW words \in TeamWords, highp_teams(roles, words)
      PROVE  UNCHANGED <<state, registeredTeamMembers>>
  BY <1>5 DEF highp_teams
<1>6. ASSUME NEW user \in Users, NEW roles \in Roles, highp_play(user, roles)
      PROVE  UNCHANGED <<state, registeredTeamMembers>>
  BY <1>6 DEF highp_play
<1>7. ASSUME NEW n \in (0..(NumTeams + 1)) \ Teams, highp_winner(n)
      PROVE  UNCHANGED <<state, registeredTeamMembers>>
  BY <1>7 DEF highp_winner
<1>8. ASSUME NEW text \in Texts, highp_remove(text)
      PROVE  UNCHANGED <<state, registeredTeamMembers>>
  BY <1>8 DEF highp_remove
<1> QED
  BY <1>1, <1>2, <1>3, <1>4, <1>5, <1>6, <1>7, <1>8 DEF WithinRound

(* The team that wins is paid, every one of its members.                      *)
LEMMA TeamOfWinnerIsPaid ==
    ASSUME IInv, state = "IN_PROGRESS", NEW n \in Teams, highp_winner(n),
           NEW user, OnTeam(registeredTeamMembers, user, n)
    PROVE  \E r \in replies' : r.kind = "payout" /\ r.about = user
<1>1. PICK i \in 1..Len(registeredTeamMembers) :
         registeredTeamMembers[i].user = user /\ registeredTeamMembers[i].team = n
  BY DEF OnTeam
<1>2. i \in membersOf(n)
  BY <1>1 DEF membersOf
<1>3. replies' = payouts(n) \cup {announcement}
  BY DEF highp_winner
<1>4. Reply("payout", registeredTeamMembers[i].user, share(n)) \in replies'
  BY <1>2, <1>3 DEF payouts
<1> QED
  BY <1>1, <1>4 DEF Reply
=============================================================================
