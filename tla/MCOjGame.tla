------------------------------ MODULE MCOjGame ------------------------------
(* Viewers one of whose names is the beginning of another's, names and texts  *)
(* as they are spelled.                                                       *)
EXTENDS OjGame, StringReader

CONSTANTS u1, u2, u3, u4

bob == <<"b", "o", "b">>
Bobby == <<"B", "o", "b", "b", "y">>
amy == <<"a", "m", "y">>
zoe == <<"z", "o", "e">>

Nothing == <<>>
MCUsers == {u1, u2, u3, u4}
MCuserId == [u \in Users |-> CASE u = u1 -> 1 [] u = u2 -> 2 [] u = u3 -> 3 [] u = u4 -> 4]
MCdisplayName == [u \in Users |-> CASE u = u1 -> bob [] u = u2 -> Bobby [] u = u3 -> amy [] u = u4 -> zoe]
MCNames == {bob, Bobby, amy, zoe}
MCNameMatches == {<<leader, name>> \in Names \X Names : match_ignore_case(leader, name)}
MCTexts == {Nothing, bob, Bobby, <<"@">> \o amy}
MCMentions == {<<text, name>> \in Texts \X Names : contains_ignore_case(text, name)}

(* What may follow !teams: too few words, and as many as there are teams.     *)
MCTeamWords == {wordsIn(text, NumTeams) : text \in {bob, <<"@">> \o amy \o <<" ">> \o Bobby \o <<" ">>}}

(* The words the reader finds are those between the bytes that are in none.   *)
isWord(text, i, j) ==
    /\ \A k \in i..j : isAlphanumeric(text[k])
    /\ i > 1 => ~isAlphanumeric(text[i - 1])
    /\ j < Len(text) => ~isAlphanumeric(text[j + 1])

wordPlaces(text) == {p \in (1..Len(text)) \X (1..Len(text)) : p[1] <= p[2] /\ isWord(text, p[1], p[2])}

ASSUME WordsAreFound ==
    \A n \in 0..6 : \A text \in [1..n -> {"a", "@", " "}] :
        LET words == wordsIn(text, 3) IN
        /\ Len(words) = Min({3, Cardinality(wordPlaces(text))})
        /\ \A k \in 1..Len(words) : \E p \in wordPlaces(text) :
              /\ words[k] = SubSeq(text, p[1], p[2])
              /\ Cardinality({q \in wordPlaces(text) : q[1] < p[1]}) = k - 1

-----------------------------------------------------------------------------
(* drac_random.cpp, with mantissas of ten bits: a number between 1 and 4 is   *)
(* what highp_d4 asks for, it never comes out as 5 by a rounding up, and each *)
(* is as likely as the others.  No state of the generator comes back early.   *)
Rand == INSTANCE DracRandom WITH MantissaBits <- 10, DroppedBits <- 2, StateBits <- 6

ASSUME TeamsAreAsLikely ==
    \A team \in 1..4 :
        Cardinality({bits \in 0..(2^12 - 1) : Rand!rand_i32(bits, 1, 4) = team}) = 2^10

ASSUME NoStateComesBackEarly ==
    \A value \in 0..31 : Rand!states(0, Rand!sequenceOf(value), 63) = 0..63
=============================================================================
