# A verification project for MariePoppoBot

MariePoppoBot is a Twitch chat bot for Windows, written in C++ without a standard
library. It connects to the IRC server of Twitch, waits for `!commands` in one
channel and runs a small game with the viewers: a queue of people who want to
play, four teams per round, a winner, shares of a prize. This directory holds
TLA+ models of it, model-checked with TLC, and theorems about them, checked with
TLAPS. Names of definitions are those of the source wherever TLA+ allows it.

`build.bat` without an argument builds with `/Od` and asserts; the models call
that build DEBUG. `build.bat release` builds with `/O2` and without asserts.

## 1. Inventory

| Part | Source | State | Operations | Hard to get right |
|---|---|---|---|---|
| Chat game | `highp/highp_oj_game.cpp`, `highp/highp.cpp` | `Oj`: state, team leaders, registered members, queue | `!commands !github !open !play !d4 !teams !winner !nextround !queue !remove` | ten commands in any order by anyone; a player called up by one command is admitted by another; arrays that are full |
| Replies, send buffer | same, `twitch.cpp`, `drac_string.h` | Strings over 512 bytes | `append`, `string_clear`, `twitch_format_channel_message`, `win32_send_message` | a reply is put together in one bounded buffer and again, with an overhead, in another |
| Message pacing | `twitch.cpp`, `win32_twitch_client.cpp` | a static `lastTime` | `twitch_wait_to_not_get_banned` before each send | the clock is sampled before a sleep and remembered after it; truncation to milliseconds |
| Connection | `win32_twitch_client.cpp` | socket, `isConnected`, `retryCount` | `win32_try_connect_twitch`, the recv pump, the reconnect loop | every call may fail at any time, and the loop must get back |
| Message dispatch | `twitch.cpp`, `drac_string.h` | none between chunks | `twitch_dispatch_callbacks` | TCP ends a chunk anywhere |
| Memory arenas | `drac_memory.h` | chain of blocks, cursor, list of extra blocks, temporary stacks | `push_size`, `begin_temp_stack`, `end_temp_stack` | two lists through one link field; overflow into a second block within a temporary stack |
| Work queue | `win32_platform.cpp` | ring, read and write index, goal and count, semaphore | add, complete all, the worker loop | lock-free, several threads |
| The thread of the bot | `win32_twitch_client.cpp`, `twitch.cpp` | the chunk and the replies under way | from `recv` to `recv`: dispatch, handlers, paced sends | results of sends are ignored, the link may be lost between any two of them, PINGs wait behind replies |
| Arrays | `drac_array.h` | length, capacity | add, insert, find, removal of one or a range, in order or not, reset | the full array, whose index is -1 |
| Strings | `drac_string.h` | cursor of a reader | append, match, find, seek, parse, format | `match` accepts a beginning; where a search that finds nothing leaves the reader |
| Random numbers | `drac_random.*` | generator state | `rand_i32` | from 64-bit integers over a float to a team, with rounding |
| Configuration | `win32_twitch_client.cpp` | a buffer, a cursor, three pointers | reads `bot.config` once | the text is changed while it is read; line ends of one or two bytes |
| Platform, C runtime, macros, build | `win32_platform.*`, `win32_msvc.c`, `platform.h`, `build.bat` | none | allocation, threads, file functions that are NOT_IMPLEMENTED | |

How they interact: one thread does everything the bot does. `mainCRTStartup`
connects, then loops: `recv` fills a buffer, `twitch_dispatch_callbacks` copies
it to the client's arena under a temporary stack, cuts it into messages, answers
each PING and hands each chat message to the callback `highp_receive_command`,
which runs one command handler to its end. A handler changes `Oj` and sends its
replies through the callback `SendTwitchMessage`; before each send the thread
may sleep. When `recv` fails, the loop reconnects. So commands are atomic with
respect to each other, and the concurrency is with the server, the network and
the clock. Only the work queue has threads of its own; the bot makes its
functions available and never creates a queue.

What makes each part correct:

- game: a viewer has one place in the queue and one team; the queue is first
  come, first served under every order of joins, removals and admissions; who is
  called up is who is admitted; a team is kept until it is paid; shares add up to
  no more than the prize; what is told is true;
- replies: what does not fit is only ever what a viewer made long;
- pacing: the server's limit is kept;
- connection: no message is read before the bot has logged in and joined; the
  bot gets back once the network is back; it understands commands again then;
- dispatch: a command is that of who typed it; a PING is answered; a line that
  came whole is handed on once;
- arenas: nothing is handed out twice; nothing leaks; the list walks end;
- work queue: every callback once, none lost, the barrier is one;
- the thread: what is told is what is done in the end, in order, and the thread
  gets back to `recv` whatever the link does;
- configuration: each option has the value the file gives it.

## 2. Plan

Done in this order, since it is the order of importance to the users of the bot:

1. `PlayQueue` (abstract) and `OjGame`, the refinement between them, their proofs;
2. `SendPacer` and its proof;
3. `TwitchConnection`;
4. `WorkQueue`;
5. `MemoryArena`, `DispatchArena`;
6. `StringReader`, `LineDispatch`;
7. `ReplyBuffer`.

8. `Bot`, the composition of dispatch, game and pacer with a link that is lost;
9. `BotConfig`, and with it the rest of what the bot calls of `drac_string.h`:
   `to_lower`, the search for lines, the formatting of integers;
10. `DracArray`, all operations of the array; `DracRandom`.

11. Proofs of the safety properties of the game's replies, of the connection, of
    the work queue, of the dispatch's arena, of the reply buffer, and of `Bot`, which
    implements `SendPacer` and `OjGame`, so that what is proved of them carries over;
12. Proofs about what is read from bytes: of `BotConfig` for every file, and of
    `LineDispatch` for every conversation, wherever its chunks end. Both rest on
    lemmas about the searches of `StringReader`.

What is left:

13. Chunks that cut lines (`LineDispatch`) and the connection's own steps
    (`TwitchConnection`) in place of the whole lines and the single step of
    reconnecting that `Bot` has. Together they are beyond what TLC can enumerate;
    it takes a refinement each.

The modules to be proved about declare no RECURSIVE operator; recursion is
written as a function (`lengthsAfter`, `looksAt`, `wordsIn`, the digits of `append_u64`).

## 3. Modules

### PlayQueue, DracArray, ArrayLaws, OjGame, MCOjGame, OjGameProofs

`PlayQueue` is the promise: a bounded line in which a player holds at most one
place, joins at the back, is admitted from the front, may leave from anywhere.

`OjGame` has the fields of `Oj` as variables and one action per command handler,
each the whole handler; `Next` is `highp_receive_command` with any viewer, any
roles, any argument. `Roles` are the combinations of badges the dispatch can
report. `replies` is what the last command sent, each message reduced to its kind,
whom it names, and the number it quotes. Two history variables: `upNext` (the
player `!winner` called up, until he is admitted or removed) and `running` (FALSE
after a failed assert of the DEBUG build). Positions count from 1, and 0 stands
for the -1 of the code. `rand_i32(1, 4)` is a choice. Names are members of a
set; what `match_ignore_case` and `contains_ignore_case` accept is a constant
relation, so that the proofs hold of any. `MCOjGame` spells the names and takes
the relations, and the words after `!teams`, from `StringReader`; an assumption
there, which TLC evaluates, compares `wordsIn` with the words of every text of up
to six bytes. The constants of the code (4 teams, 1000, 64 places, ...) are CONSTANTS
with an assumption as weak as possible.

`DracArray` has the operations of `drac_array.h` on an array as the sequence of
its items. The game calls four of them; the assumptions of `ArrayLaws`, which
`MCBot` extends for TLC to evaluate them, compare the others with what they say
they do (an insertion is undone by the removal, a removal in order keeps the
order, one without keeps the items, a range is added whole or not at all) for
every array of up to four items.

### ReplyBuffer, MCReplyBuffer, ReplyBufferProofs

Every reply by the lengths of the pieces it is made of, appended to a buffer of
512 bytes; the loop of `highp_queue`, an entry at a time; and the PRIVMSG line
made of each reply in a second buffer of 512. The constants are those of the
code, not small ones. An append that does not fit is left out whole
(`append_nchars` asserts and returns).

The numbers in the replies are as long as `append_s64` of `StringReader` makes them;
an assumption of `MCReplyBuffer` says that what it writes of a number, up to 2000,
`parse_u64` reads back.

### SendPacer

`twitch_wait_to_not_get_banned` up to the sleep, the end of the sleep, the send,
and a clock that ticks in between. `lastTime` is set to the clock as sampled
before the sleep.

### Bot, MCBot, BotProofs

The composition. `Bot` extends `SendPacer` and instantiates `OjGame` (by way of
`OjGameProofs`, so that what is proved of it can be cited), whose handlers are
its steps. A `Line` is a PING, or a command with what its handler reads of it;
`BotAssumption` says that conversations are made of lines, and no more. `recv` takes
some lines of what the server has to say, `dispatch` takes one of them and runs its
handler, whose replies go to `outbox` in the order the handler sends them
(`inOrder`: by `place`, the leader, the members as they registered, anything else),
and each is sent through the pacer (`wait`, `wakeUp`, `send`) before the next line
is looked at. `linkLost` may happen at any moment; a send over a lost link is
swallowed, and what it returns is not looked at; only `recv` notices and reconnects,
with some of the lines missed in between. After that commands are not understood any
more, since the tags are not asked for again (`connection_tags`). `said` is the
history of what the chat heard: what, over which connection, in answer to which
line. `MCBot` has five conversations: rounds with a winner, with PINGs in between,
with leaders, with the queue.

### TwitchConnection, TwitchConnectionProofs

One thread: `pc` is the call it is about to make. `link` is the connection as
the network has it, and may be lost either with an error (`reset`) or without
(`silent`); `healthy` is the network, which changes at any time. `sent` is what
`send` accepted on the present socket: both sends of a login are made, and `loginFailed`
looks at the two results afterwards. `retryCount` counts no further than
`maxRetries + 1`.

### BotConfig, MCBotConfig, BotConfigProofs

The do-while loop that reads `bot.config`, a turn a step, over the bytes of the
file. `buffer` is what the file was read into and is changed by the reading: a
zero behind each value, and lower case. `option` has the three pointers into it.
`MCBotConfig` has every file of up to four lines, each one of an option with nothing,
a tab or spaces in front of its value, in mixed case, written twice, a comment that
looks like an option, something else, or blank, with the last line ended or not; and
up to three lines with line feeds alone.

### DracRandom

`rand_i32` as it is computed: random bits become the mantissa of a float, which is
scaled and shifted with the rounding of floats, and cut to an integer. Two
assumptions of `MCOjGame`, with ten bits of mantissa: the result of `rand_i32(1, 4)`
is between 1 and 4, each as often as the others; and the low bits of the state,
which no other bits flow into, come back only after all others, for every
increment a seed may lead to. This is why `OjGame` may take any team, and only a
team.

### StringReader, LineDispatch, MCLineDispatch, LineDispatchProofs

`StringReader` has the searches of `drac_string.h` that the bot calls, each with
what it answers and where it leaves the cursor of the reader, and the reading and
writing of integers. The classes of bytes are those of `drac_string.h:185-233`: white space
is the space, the tab and the two line ends; alphanumeric are the digits, the 26 letters
in both cases, and the underscore. Any other byte, a mark or a part of a longer
character, is in neither class, and so is a word that a module abbreviates to one byte;
no such word stands where its class is asked for.

In `LineDispatch` the server has sent a few lines: PINGs, and commands of viewers
with their tags. TCP hands over any beginning of what is on the wire, and each
chunk is dispatched for itself; since a chunk may end anywhere, having all lines
on the wire from the start leaves out no behaviour. Words are abbreviated to two
or three bytes, so that a cut falls before, in and behind each, and the two bytes
that an unfinished message loses are two bytes. Where the chunk has no line break behind a
message the code writes the terminating zero over the last but one byte; for a
chunk of one byte that is in front of the message, and what is read goes on to
whatever lay there (a choice). `chatIn` is the reading of tags, channel, command
and argument with one reader, search by search; what is kept of the display name,
the channel, the word and the text is cut to the length of its field (`cutTo`, the `min` of
each memcpy), and the length reported with the text is that of the text before it is
cut, as in the code. `handlerOf` is the choice of the handler.

The conversations are a constant. `PlainChats` and `NamedCommands` say which of them two of
the theorems are about (section 5), and `MCLineDispatch` assumes, so that TLC checks it,
that those of the run are among them.

### MemoryArena, DispatchArena, DispatchArenaProofs

`MemoryArena` has the fields of `MemoryArena`, `MemoryAllocation` and
`TemporaryStack`, in cells of eight bytes. `userData` is the one link field that
both lists, the chain in use and the extras, go through. `live` (history) is what
was handed out and not given up; that a record in the arena can be written over
is `intact`. The search over `extras` is the function `looksAt`; a search that
runs in a circle has no `stopsAt`, and the call has no step. `DispatchArena` is
the caller: a stack, the copy of a text, the array of messages, the end of the
stack, for texts of every size that fits the base block (`recv` fills no more).

### WorkQueue, WorkQueueProofs

Each access to a shared field is a step. In the DEBUG build `nextReadIndex` is
loaded anew at each mention, as an unoptimised compiler does for a plain field;
in the other it is loaded once. `assert_msg` of a full ring is in the DEBUG build.
Two configurations have two programs on it: `WorkQueueSingle.cfg` one worker and a ring
that wraps around, `WorkQueueShared.cfg` two workers and the main thread on one that
does not.

## 4. What the runs check

| Run | Shows | Bounds |
|---|---|---|
| `oj` | the line is PlayQueue's (`ImplementsPlayQueue`), nobody overtakes, one slot per user, `upNext` is the head, positions and teams told are true, members stay until a `!winner` clears all teams, calls up the next player and pays one team whole, with its leader; payouts within the prize; only a `!teams` makes a viewer lead and be on a team; whoever is missing from the queue was admitted, or named in an answer before anybody in front of him | 4 viewers and 3 places, so that the queue fills, and has a middle to remove from; 2 teams and 2 places of registration, so that it fills, and a prize of 3 that 2 do not divide; names one of which is part of another. 178959 states |
| `reply_buffer` | `!queue` keeps within 500 bytes; every reply but a listing and the answer to `!remove` goes out whole | the constants of the code; name lengths 1 to 20, chosen so that sums reach the limit exactly; every text length that fits |
| `bot` | of 2k + 1 sends the first and the last are at least k spacings apart; answers are heard in the order of the lines they answer, each on one connection and once, the leader's payout first; a viewer told his team is paid when it wins, unless the link is lost; the thread gets back to `recv`, and a PING received is answered | five conversations of up to five lines, cut into chunks in every way; 2 viewers, who both are on one team or not, and a `!winner` of up to four sends; spacing of 2 ticks in one of sleep, so that sends are late, early and in time; the link lost once, at any moment. `MaxTime` and `MaxSends` are never reached. 458948 states |
| `pacer_limit` (violation) | the pauses do not keep to 100 messages in 30 s | a budget of 4 |
| `connection` | the pump reads only sockets logged in on; startup ends; the loop reconnects | 2 addresses (a first and a last), 2 retries, one more than which is counted |
| `connection_tags` (violation) | after a reconnect commands are not found | as above |
| `dispatch` | wherever a chunk ends, a command is handed on for the viewer who typed it, with his id and name, no role he has not, a beginning of what he typed, and to the handler he meant; PINGs are answered, with the exceptions named in the property; a line that comes whole is handed on once, with everything, as far as the buffers go | conversations of 3 lines (before, at, behind), 2 messages per chunk, every way to cut; a name, a channel, a word and a text longer than what is kept of them, and shorter ones; lines without tags. 78967 states |
| `dispatch_arena` | no cell handed out twice; nothing leaks but one block kept; every dispatch ends | base block of 4 pages, texts of 1 to 12 cells, so that everything fits, only the array does not, nothing is left; any number of dispatches |
| `queue_single` | with one worker callbacks come in order, none is lost, the assert means a full ring | ring of 3, 6 works: it wraps twice and fills; the DEBUG build |
| `queue_shared` | with two workers and the main thread each callback once, complete-all is a barrier and returns | ring of 4, 3 works: full but not wrapped; the optimised build |
| `config` | the loop ends; a value once read is not changed by the reading behind it; with the line ends of Windows every option has what its last line says | files of up to 4 lines of 7 kinds: all three options and one of them twice, in every order, with comments and blank lines between, in front and behind, tabs and marks. The property names the files it is about |
| `config_example` (violation) | the example file, with line feeds alone, gives no password | its three lines |

`queue_shared` leaves out a ring that wraps under several consumers.
There the code is wrong: a consumer that stalls between its load and its exchange
for a whole round of the ring succeeds with a stale comparand, and one that stalls
between the exchange and the copy (`win32_platform.cpp:171`) reads a slot written
anew. It takes 256 works in between, and the bot creates no queue.

Deadlock is left unchecked only where a bound on the history ends the behaviour
(`pacer_limit`, `dispatch`, `queue_single`, `queue_shared`), a conversation does (`bot`), or the loop that is
modelled does (`config`).

### Fairness

- `TwitchConnection`: WF of the thread's steps. It is one thread that the system
  runs whenever it is not blocked, and blocked it is only in `recv`. Nothing is
  assumed of the network in the specification; `Reconnects` says "once the network
  stays healthy, and losses do not stay unreported", for `recv` has no timeout and
  on a silent link the bot waits for ever.
- `WorkQueue`: WF of each worker, and of the main thread within the calls it has
  begun. It need not begin any.
- `DispatchArena`: WF of the thread's steps.
- `Bot`: WF of the thread, which nothing but `recv` blocks, and of the clock. Nothing
  is assumed of the link: it may be lost or not.
- `BotConfig`: WF of the loop, which is straight-line code.

The other modules check safety only and state no fairness.

### Where the code does not do what it says

With a run:

- `pacer_limit`: the static holds the time before the sleep (`twitch.cpp:18`), so
  every second pause is too short; up to twice the intended rate, not more.
- `connection_tags`: the reconnect loop sends no CAP REQ, and without tags the
  search for `display-name` runs to the end of the line.

- `config_example`: a value ends at the line feed, `seek_next_whitespace` leaves the
  reader behind it, and `seek_next_line` (`win32_twitch_client.cpp:286`) goes on to the
  next one. With the two bytes of Windows it finds that of the same line; with line
  feeds alone every second line is lost, and `bin/(EXAMPLE) bot.config` has three.

Seen while modelling, without a run:

- `while (!isConnected || retryCount < maxRetries)` (`win32_twitch_client.cpp:387`) does not
  end without a connection, and `Failed Reconnect, closing...` (413) is never reached.
  `Reconnects` relies on it: the bot gets back however long it took.
- With the registration full `!d4` indexes the array with -1
  (`highp_oj_game.cpp:203-204`); the assert of `operator[]` stops the default build, and
  the other tells the viewer a team that he is not on.
- Behind a blank line the configuration reader looks for a letter beyond it: a
  comment there is read as an option, and at the end of the file the empty text
  matches `nick`, whose value becomes empty. The buffer is given back before the
  options in it are used (`win32_twitch_client.cpp:289`), which does no harm because
  `VirtualFree` takes one of the two flags it is called with and not both
  (`win32_platform.cpp:83`).
- A PONG waits behind the replies to the commands in front of it, at 300 ms each: a
  `!winner` of a team of 100 delays it by half a minute.
- `match_ignore_case` takes a beginning: a viewer bob may not roll when bobby leads
  (`highp_oj_game.cpp:167`).
- A line of 1023 bytes and more that is neither a PING nor a PRIVMSG does not fit the
  buffer it is logged through (`twitch.cpp:209`).
- `freeaddrinfo` is given the address the loop stopped at, and never the front of the
  list (`win32_twitch_client.cpp:72`). `free_unused_memory`, which nothing calls, ends its
  while with a semicolon (`drac_memory.h:84`). `array_add_array` passes its arguments
  in the wrong order, and the `array_remove_item` functions name variables that do not
  exist; none is instantiated.
- The tags of a line are looked for in all of it (`twitch.cpp:121`), also in what was
  typed; see `PlainChats`.
- `!open` in the middle of a game keeps the members, and the next `!nextround`
  starts a game with them (`highp_oj_game.cpp:94`); `!teams` may make a leader of a
  viewer who has rolled (258); `!remove bobby` removes bob when he stands in front
  (424).
- The answer to `!remove` repeats its text with 45 bytes around it; from 445 bytes
  on it does not fit the line (`win32_twitch_client.cpp:163`): the default
  build stops, and the other leaves out the line break, by which the next message
  is glued on, or the text. A listing of 490 to 492 bytes has the same fate.
- `push_size` unlinks a block it takes from the extras only if it is not the first
  (`drac_memory.h:149`). With two overflows in one temporary stack a block in use
  is taken again. No caller of the bot has two.
- `messageLength` is taken before the text is cut to its buffer (`twitch.cpp:175`). With
  more than 511 bytes behind the word, `!teams` would read past the field
  (`highp_oj_game.cpp:238`); the lines of Twitch are no longer than that.
- The header of a block is not counted in its size, so its last 64 bytes are in the
  guard page (`win32_platform.cpp:53`).
- In the unoptimised build the read index is read again after it was checked
  (`win32_platform.cpp:158-159`); with two consumers it may pass the write index.
- A PING is missed if a chunk ends behind its first byte, or between the carriage
  return and the line feed in front of it. A chunk that ends within a line loses
  two bytes, and what came of a command is carried out: the first part of the
  word is enough for `match`, and nothing of it is taken for `!commands`.
- A display name without a Latin letter or digit is skipped by
  `seek_next_alphanumeric`, and the name read is that of the next tag
  (`twitch.cpp:149`). The names in the models begin with a letter.

## 5. What is proved

`OjGameProofs` proves for every set of viewers, every number of teams, every
capacity, every relation between names and both builds, from
`OjGameAssumption`:

- `TypeCorrect`: `Spec => []TypeOK`;
- `AlwaysOneSlotPerUser`, `AlwaysUpNextIsHead`;
- `GameImplementsPlayQueue`: `Spec => PQ!Spec`, every handler a step of `PlayQueue`
  or a stutter;
- `AlwaysMembersStayUntilPayout`, an action property: a step that takes a member off his
  team clears all teams, has announced who is next, and has paid the members and the
  leader of one team and nobody else.

The inductive invariant is `IInv == TypeOK /\ OneSlotPerUser /\ UpNextIsHead`, with
a lemma per handler. `OneSlotPerUser` rests on `TypeOK` for the lengths of the
arrays and on a lemma about `array_find`: when it returns 0 nobody in the array
has the user's id. `UpNextIsHead` rests on lemmas about `array_add` and
`array_remove_index_ordered`, which leave what is in front alone: a player called
up keeps his place until `!nextround` or a `!remove` of himself. The refinement
takes `IInv` for granted, and shows that the sequence of ids loses the same
position as the queue of users, and that `Waits` does not find what `array_find`
does not find.

From `IInv` the module goes on to what the chat is told:

- `AlwaysToldPosition`, `AlwaysToldTeam`: `replies` holds the answer to the last command
  alone, so each follows from `WhoPromises` (only `!play`, `!d4` and `!winner` say such
  things) and from what the handler has just done to the array.
- `AlwaysPayoutsWithinPrize`: the payouts are the image of the members of the team, so
  there are at most as many, and as many times the quotient is at most the prize
  (`SharesAddUp`). It holds of any prize and any number of members.
- `AlwaysNoLeaderRolls`, under `OneNamePerAccount`: an account has one display name. The
  code knows members by their id and leaders by their name, both read from the tags of
  one message; who changes his name during a round may roll while the old name leads.
- `AlwaysNobodyVanishes`, `AlwaysNoOvertaking`. The second is of `PlayQueue`: each of its
  steps keeps two who both wait on both sides of it in their order (`JoinKeepsOrder`,
  `LeaveKeepsOrder`); the refinement carries it to the game.

`BotProofs` begins with the pacer alone and proves, from `SendPacerAssumption` alone (any spacing, any
resolution, any bound), `AlwaysHalfTheRateHolds`. `HalfTheRateHolds` speaks of
sends any number apart and is not inductive; `PausesHold` adds what ties the
static to the history: the sample before a send is no earlier than the send before
it, so that a pause counted from the sample keeps a send a spacing away from the
last but one. From two sends at a distance of two follows every even distance.

Of the composition it proves, for every set of conversations, every number
of losses, every lag:

- `PacerIsImplemented` and `GameIsImplemented`: `BotSpec => Spec` of `SendPacer` and
  `BotSpec => Oj!Spec`. What is proved of the two holds of the bot: of
  `BotKeepsHalfTheRate` nothing more is to be shown. The second needs `Script`: `chunk` and
  `wire` are ends of the conversation, so that a dispatched line is a `Line`.
- `AlwaysAnswersInOrder`. The inductive invariant is `BotIInv`: what the parts keep, `Script`,
  the types, and two facts about the answer under way: `Ranked` (what is left to send of
  it is in order and without repetition) and `Continued` (what was said of it was said
  on this connection, are payouts, and is not left to send). That `inOrder` is defined
  at all, for it is a CHOOSE, needs a lemma that every finite set can be put in an order
  by a rank, by induction over its size (`OrderExists`).
- `BotTypeCorrect`, from the same invariant.
- `AlwaysPaidAsTold`, under `EverybodyFits`: each account is one viewer, and they are no more
  than the places of the registration, 1000 in the code. With more the default build
  stops at an assert, and the other tells a team to a viewer who is on none
  (section 4), so the hypothesis is needed. `PaidIInv` adds that whoever was told a team
  in this round is on it (`OnHisTeam`), and that from the `!winner` on his payout is said
  or left to send (`PayoutIsDue`).

`TwitchConnectionProofs` proves `TypeCorrect` and `AlwaysPumpIsLoggedIn` for every number of
addresses and retries. `Progress` is the strengthening: what has been sent on the present
socket at each call the thread is about to make.

`WorkQueueProofs` proves two pairs, each under the hypothesis that its program is:

- `AlwaysExecutedInOrder`, `AlwaysAssertMeansFull`, of one worker (`OneConsumer`) on a ring of
  any size, under `NeverLaps`: the build has asserts, or fewer works are added than the
  ring has slots. Only the assert keeps the writer from lapping the reader, and the
  release build has none. `SingleIInv` has the indexes as the numbers of works taken and
  published modulo the ring, and the ring holding the last `LIMIT` works: arithmetic
  of remainders that the first lemmas provide.
- `AlwaysExecutedOnce`, `AlwaysCompleteAllIsABarrier`, of any number of workers and the main
  thread, under `DoesNotWrap`: the optimised build and fewer works than slots; that the
  code fails otherwise is said in section 4. `SharedIInv`: a work that was taken is held
  by one thread or was called back once (`HeldByOne`, `DoneOnce`, `NothingLost`), and what is
  taken and not counted as completed is in the hands of a thread (`Counting`), over the
  cardinality of those at work.

`DispatchArenaProofs` proves `AlwaysNothingLeaks`, `AlwaysNoOverlap` and `TypeCorrect` for every
size of text, header and page, any number of dispatches, under `TextsFit`: the largest
text fits the base block. In the code `recv` fills a megabyte at most
(`RECEIVE_BUFFER_LENGTH`), the arena has as much and is rounded up to whole pages.
`TypeCorrect` also needs an array no larger than the base block, 8 KB in the code. `IInv`
is the state at each point of a dispatch, with the blocks and the one link of the
second block, which may be to itself. It was first checked by TLC, with arrays that fit
beside the text and arrays that do not.

`ReplyBufferProofs` proves `TypeCorrect`, `AlwaysShortRepliesAreWhole` under `LinesHold` (names are
in buffers of 32 bytes, the line holds the longest text and what makes it a message) and
`AlwaysListingFits` under `SlackIsEnough` (the places have two digits, and a name with five
bytes fits what is kept free), for names of all lengths and every capacity. The bound 31
on names is that of their buffers, more than Twitch allows. `NumberLength` bounds
the digits that `append_u64` writes; `StringHasRoom` and `WithinSums` are facts about the
appends of any list of pieces, by an induction over the positions of the list
(`Induction`, stated of a set of numbers, since the library's theorem of it, which has an
operator as its parameter, cannot be used).

`BotConfigProofs` proves of the reading of `bot.config`, for every file: any lines, any number
of them, any bytes but zeros (`BotConfigAssumption`). Where a value begins and ends is a matter of the white
space of `drac_string.h`, tabs included.

- `AlwaysReadStaysRead`, from `Placed` (`AlwaysPlaced`): while the loop runs, the text of every
  option read so far ends with a zero in front of the cursor, and whatever is written from
  then on, zeros and small letters, is written behind the cursor (`SameText`).
- `AlwaysEveryOptionIsRead`, of the files its property is about (`readable`), from `Follows`:
  between two turns of the loop there is a number of lines such that the cursor is behind
  them, everything behind it is as it was in the file, and the options are what these lines
  say. The property speaks of the end of the reading alone and would not do. A turn goes
  over blank lines and the line behind them, which is shown to be found (`FirstByte`,
  `LetterOfLine`), to match the word of its option and none else, and to have its value where
  the searches look for it (`OptionIsFound`). That a search finds the first of the bytes
  it looks for is `IsFirst` and the lemmas behind it, one for each search of
  `StringReader`: least elements, by the library's induction over sets of numbers.

`LineDispatchProofs` proves `AlwaysPingsAreAnswered` for every conversation, every way to cut it
into chunks and every number of messages a chunk may hold, from
`LineDispatchAssumption`: lines are PINGs or what a viewer typed, and no byte of a line is a
carriage return or a line feed. The invariant is `Accounted`: `wire` is what is left of
`server_sends`; the byte taken last was noted in `cuts` if it is one after which a PING may be
missed; and a PING whose first byte was taken is accounted for already, though the rest of
it may be on the wire still. The property alone says nothing of a PING that is cut. The
lemmas say where the bytes of a line lie in `server_sends` (`OffsetIs`, `PieceStands`), and that
`match` takes what came of a PING for one (`PingIsRead`).

It also proves, for every conversation that is `PlainChats`:

- `AlwaysCommandsAreAuthored`. The invariant is `Authorship`: `OnItsWay`, and every command that
  was handled is `Authored` by the viewer of its line. A message in which PRIVMSG is found
  is a slice of one line, or of one line and the line feed before it (`MessageIs`); one in
  which a `!` is found behind it has come with its tags and its channel, for what stands in
  front of the `!` came too (`CommandStands`). From there the proof follows `chatIn` along the
  line, search by search: the name (`NameIsFound`), the tags and the roles (`TagIsFound`,
  `RolesAreHis`), the word and the text behind it (`WordsAreHis`). That the number read is
  the number sent, `parse_u64` of `append_u64`, is `NumberIsRead`. Both are recursive functions,
  and the induction is over the number, whose last digit is taken off (`DigitsAreRead`).
- `AlwaysWholeLinesArrive`, where in addition no command is empty (`NamedCommands`). The
  premise of the property counts bytes, and the proof starts from that: a chunk with as
  many bytes of a line as the line has, has all of it, in its place (`AllOfIt`,
  `LineComesWhole`); no other message of the chunk is of that line (`TakenOnce`); and there
  are no more messages in front of it than line feeds (`NotTooMany`, an injection of the
  ones into the others), so that it is not dropped. What is read of it is then all of it,
  roles and all, and not a part as in the theorem before, each piece cut to its buffer.

The sizes of the buffers are constants of any value. What is read is followed along the
line before it is cut (`nameIn`, `channelIn`, `cmdIn`, `textIn`), and `CutIs` says that
a beginning of a text is still one after it is cut.

`PlainChats` asks of a viewer's line: that his name and the channel are letters and digits,
and not empty; that there is no white space in the word of the command; that a word which
begins like a command is one; that nobody types the label of a tag; that a broadcaster
has a moderator's badge as well. Without the fourth the theorems are false: the tags
are looked for in all of the line, and not in what is in front of PRIVMSG. Without the
third a word of which only the first byte came may have another handler than all of it.

The runs satisfy every hypothesis named here, except that `oj` also explores a
registration that is full.

Only model-checked:

- liveness (`StartupEnds`, `Reconnects`, `DispatchEnds`, `BackAtRecv`, `PingsGetThrough`,
  `ReadingEnds`, `EverythingIsExecuted`, `CompleteAllReturns`), which the prover does not do
  under fairness;
- `MemoryArena` under callers other than the dispatch;
- the assumptions on pure operators in the MC modules and in `ArrayLaws`, and what
  `lengthsAfter`, `append_s64` and the searches compute beyond the bounds named above.

## 6. Not modelled

- The output function of the random generator and the hash of its seed: any bits
  come out of them.
- Opening `bot.config`: one step of `TwitchConnection` that may fail. A file of a
  megabyte and more, and names that do not fit the 31 bytes a leader has, are not
  among the inputs.
- The formatting of floats and pointers and the operations of `drac_string.h` without a
  caller: they are not part of what the bot does.
- `free_memory_arena` and `free_unused_memory`: never called.
- The file functions of the platform: NOT_IMPLEMENTED.
- `win32_msvc.c`, macros, detection of compiler: no state.
- Sockets that are never closed while reconnecting: the model keeps the one in use.

## Running

`tlc -config MCOjGame.cfg MCOjGame`, and so on for each `.cfg` and the module in its
name, with or without the MC (`SendPacerLimit.cfg` goes with `SendPacer`,
`TwitchConnectionTags.cfg` with `TwitchConnection`,
`WorkQueueSingle.cfg` and `WorkQueueShared.cfg` with `WorkQueue`,
`BotConfigExample.cfg` with `MCBotConfig`); `tlapm OjGameProofs.tla`, and so on for each of
the eight modules whose name ends in `Proofs`. Operators whose name ends
in `_Mutant` are faulty variants of the definition behind them; put in its place,
they make the property named in `PROJECT.json` fail.
