------------------------------ MODULE BotConfig ------------------------------
(* How mainCRTStartup reads bot.config (win32_twitch_client.cpp): in place,   *)
(* the three options being pointers into the buffer the file was read into.   *)
(* One step is one turn of its do-while loop.                                 *)
EXTENDS StringReader

CONSTANTS
    Files,        \* [lines, lineBreak, ended]: what a file may hold, the bytes
                  \* between its lines, and whether they end the last line too
    Blank,        \* a line without a byte
    NULL          \* the pointer of an option not read

Keys == {"nick", "pass", "channel"}
Lowered == {"nick", "channel"}

word == [nick    |-> <<"n", "i", "c", "k">>,
         pass    |-> <<"p", "a", "s", "s">>,
         channel |-> <<"c", "h", "a", "n", "n", "e", "l">>]

Bytes == Seq(STRING \ {"NUL"})

(* A line is an option, a comment, any other, or Blank.                       *)
Line == [key : Keys, gap : Bytes, value : Bytes] \cup [comment : Bytes] \cup [text : Bytes]
            \cup {Blank}

ASSUME BotConfigAssumption ==
    /\ NULL \notin Nat
    /\ Files \subseteq [lines : Seq(Line), lineBreak : Bytes, ended : BOOLEAN]

isOption(line) == line # Blank /\ "key" \in DOMAIN line
isComment(line) == line # Blank /\ "comment" \in DOMAIN line

bytesOf(line) ==
    IF line = Blank THEN <<>>
    ELSE IF isOption(line) THEN word[line.key] \o <<":">> \o line.gap \o line.value
    ELSE IF isComment(line) THEN <<"#">> \o line.comment
    ELSE line.text

VARIABLES
    file,      \* what the file holds
    buffer,    \* configBuffer: its bytes, then changed by the reading
    cursor,    \* configReader.cursor
    option,    \* Client.nick, Client.pass and Client.channel: places in buffer
    reading    \* the loop has not ended

vars == <<file, buffer, cursor, option, reading>>

(* The bytes of the first n lines of a file.                                  *)
spelled(f) ==
    LET upTo[n \in 0..Len(f.lines)] ==
            IF n = 0 THEN <<>>
            ELSE upTo[n - 1] \o bytesOf(f.lines[n])
                   \o (IF n < Len(f.lines) \/ f.ended THEN f.lineBreak ELSE <<>>)
    IN  upTo[Len(f.lines)]

Init ==
    /\ file \in Files
    /\ buffer = spelled(file)
    /\ cursor = 1
    /\ option = [k \in Keys |-> NULL]
    /\ reading = TRUE

(* A zero in place of the byte behind the value; behind the last byte of the  *)
(* file there is one already.                                                 *)
terminated_Mutant(text, end) == text

terminated(text, end) ==
    IF end \in 1..Len(text) THEN [text EXCEPT ![end] = "NUL"] ELSE text

(* The text a pointer to a byte of the buffer is taken for.                   *)
textAt(text, start) ==
    SubSeq(text, start, first(text, start, LAMBDA i : text[i] = "NUL") - 1)

lowerFrom_Mutant(text, start) == text   \* the case is left alone

(* to_lower on the text at start, in place.                                   *)
lowerFrom(text, start) ==
    LET end == first(text, start, LAMBDA i : text[i] = "NUL")
    IN  SubSeq(text, 1, start - 1) \o to_lower(SubSeq(text, start, end - 1))
          \o SubSeq(text, end, Len(text))

(* Where the value behind the next colon starts and ends.  The zeros written  *)
(* so far are all in front of the cursor, so no seek meets one.               *)
valueAfter(text, at) ==
    LET start == seek_past_whitespace(text, seek_next_char(text, at, ":").cursor)
        end == seek_next_whitespace(text, start)
    IN  [start |-> start, end |-> end.at, cursor |-> end.cursor]

(* Does the word at this place match the name of the option?  At the end of   *)
(* the file it matches any.                                                   *)
names(key, at) == match(word[key], SubSeq(buffer, at, Len(buffer)))

(* The condition of the loop: on to the next line, if there is one.           *)
continueFrom(at) ==
    /\ cursor' = seek_next_line(buffer, at, "LINE_FEED")
    /\ reading' = (cursor' < behind(buffer))

skipComment ==
    /\ reading
    /\ byteAt(buffer, cursor) = "#"
    /\ continueFrom(cursor)
    /\ UNCHANGED <<file, buffer, option>>

skipLine ==
    LET at == seek_next_alpha(buffer, cursor) IN
    /\ reading
    /\ byteAt(buffer, cursor) # "#"
    /\ \A key \in Keys : ~names(key, at.at)
    /\ continueFrom(at.cursor)
    /\ UNCHANGED <<file, buffer, option>>

(* nick is tried first, then pass, then channel.                              *)
readOption(key) ==
    /\ reading
    /\ byteAt(buffer, cursor) # "#"
    /\ \E at \in {seek_next_alpha(buffer, cursor)} :
          /\ names(key, at.at)
          /\ key = "pass" => ~names("nick", at.at)
          /\ key = "channel" => ~names("nick", at.at) /\ ~names("pass", at.at)
          /\ \E value \in {valueAfter(buffer, at.cursor)} :
                /\ buffer' = LET cut == terminated(buffer, value.end)
                             IN  IF key \in Lowered THEN lowerFrom(cut, value.start) ELSE cut
                /\ option' = [option EXCEPT ![key] = value.start]
                /\ continueFrom(value.cursor)
    /\ UNCHANGED file

Next == skipComment \/ skipLine \/ \E key \in Keys : readOption(key)

(* The loop is straight-line code; nothing keeps it from going on.            *)
Spec == Init /\ [][Next]_vars /\ WF_vars(Next)

-----------------------------------------------------------------------------
(* Properties                                                                 *)

(* What the file says of an option: the value of its last line for it.        *)
says(f, key) ==
    LET lines == {i \in DOMAIN f.lines : isOption(f.lines[i]) /\ f.lines[i].key = key}
        value == f.lines[Max(lines)].value
    IN  IF lines = {} THEN NULL
        ELSE IF key \in Lowered THEN to_lower(value) ELSE value

has(key) == IF option[key] = NULL THEN NULL ELSE textAt(buffer, option[key])

(* A line is one line, an option's value one word, and any other line has a   *)
(* letter to be told from an option by.                                       *)
wellFormed(line) ==
    /\ \A i \in DOMAIN bytesOf(line) : bytesOf(line)[i] \notin {"CR", "LF"}
    /\ isOption(line) =>
          /\ \A i \in DOMAIN line.gap : line.gap[i] \in Whitespace
          /\ line.value # <<>> /\ \A i \in DOMAIN line.value : line.value[i] \notin Whitespace
    /\ line # Blank /\ "text" \in DOMAIN line =>
          /\ byteAt(line.text, 1) # "#"
          /\ \A key \in Keys :
                ~match(word[key], SubSeq(line.text, seek_next_alpha(line.text, 1).at, Len(line.text)))

(* Lines that end as Windows ends them, and no blank line that is the last or *)
(* is followed by a comment: in front of either the reader looks for a letter *)
(* beyond the blank line, and takes the comment, or the end of the file, for  *)
(* an option; as it does in a file that is empty.                             *)
readable(f) ==
    /\ f.lineBreak = <<"CR", "LF">>
    /\ f.lines # <<>> /\ \A i \in DOMAIN f.lines : wellFormed(f.lines[i])
    /\ \A i \in DOMAIN f.lines : f.lines[i] = Blank =>
          \E j \in DOMAIN f.lines :
              /\ j > i
              /\ f.lines[j] # Blank /\ ~isComment(f.lines[j])
              /\ \A k \in i..(j - 1) : f.lines[k] = Blank

(* In whatever order the options come, with comments, blank lines and with    *)
(* options said twice, each has the value written for it, and one that is not *)
(* written has none.                                                          *)
EveryOptionIsRead ==
    ~reading /\ readable(file) => \A key \in Keys : has(key) = says(file, key)

(* The options share one buffer that is written to while it is read; a value  *)
(* once read is not changed by the reading of the others.                     *)
ReadStaysRead ==
    [][\A key \in Keys :
          option[key] # NULL /\ option'[key] = option[key] => has(key)' = has(key)]_vars

(* Every turn of the loop brings the cursor forward, so the reading ends,     *)
(* whatever is in the file.                                                   *)
ReadingEnds == <>~reading

-----------------------------------------------------------------------------
(* What the repository says and the code does not keep.                       *)

(* The example that comes with the bot sets all three options.                *)
ExampleIsRead == ~reading => \A key \in Keys : has(key) = says(file, key)
=============================================================================
