----------------------------- MODULE MCBotConfig -----------------------------
(* Every file of up to MaxLines lines that end as Windows ends them, and of   *)
(* one line less with line feeds alone.                                       *)
EXTENDS BotConfig

CONSTANT MaxLines

Space == <<" ">>
MCBlank == <<>>

MCLines ==
    { MCBlank,
      [text |-> <<"7", "-", "z", ":">>],
      [comment |-> <<"p", "a", "s", "s", ":", "O">>],
      [key |-> "nick", gap |-> Space, value |-> <<"A", "b">>],
      [key |-> "nick", gap |-> <<"TAB">>, value |-> <<"c">>],
      [key |-> "pass", gap |-> <<>>, value |-> <<"o", ":", "X">>],
      [key |-> "channel", gap |-> Space \o Space, value |-> <<"#", "-", "D">>] }

filesOf(n, break) ==
    { [lines |-> lines, lineBreak |-> break, ended |-> ended] :
        lines \in UNION {[1..k -> MCLines] : k \in 0..n}, ended \in BOOLEAN }

MCFiles == filesOf(MaxLines, <<"CR", "LF">>) \cup filesOf(MaxLines - 1, <<"LF">>)

(* bin/(EXAMPLE) bot.config, its values cut to two letters.                   *)
Example ==
    { [lines |-> << [key |-> "nick", gap |-> Space, value |-> <<"M", "a">>],
                    [key |-> "pass", gap |-> Space, value |-> <<"o", ":", "X">>],
                    [key |-> "channel", gap |-> Space, value |-> <<"q", "u">>] >>,
       lineBreak |-> <<"LF">>, ended |-> FALSE] }
=============================================================================
