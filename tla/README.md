# net-pixeld: models and proofs

net-pixeld is a small online game: a server that keeps accounts and credits
every logged-in player with resources once per tick, and a graphical client.
This directory specifies the parts of it that are concurrent, that persist
something, or that number messages: the TLA+ modules, the configurations with
which TLC checks small instances, and proofs that TLAPS checks for every value
of the constants. `PROJECT.json` maps each definition to the lines it models,
lists the runs, the hazards of the code with the properties that watch them, and
for each property a *mutant*: a plausible bug, written next to the operator it
would replace, that the property catches.

Run a configuration with `tlc -config <name>.cfg <module>`, and a proof with
`tlapm <module>.tla`.

## Inventory

| Component | State | Operations | Hard about it |
|---|---|---|---|
| **JsonDB** (`src/server/inc/JsonDB.hpp`) | `m_accounts`; `accounts.json` and its `.tmp` | `addUser`, `getUser`, `verifyUser`, `userExists`, `get/updateResources`, `get/setCampLevel(s)`, `save`, `load` | the whole map is rewritten by every change through a temporary file and a rename: crashes between the steps, errors of the stream that are not looked at, an exception after the map has changed |
| **Session** (`Session.cpp`) | socket, strand, `m_outgoing`, the read buffer | `start`, `send`, `doRead`, `doWrite` and their handlers | `send` posts a function; it, completed writes and other sends interleave; an object lives as long as a handler has captured `self`; both loops report a disconnect |
| **Server** (`Server.cpp`, `main.cpp`) | `m_sessions`, `m_nextClientId` (8 bits), `m_lastSeqByType`, the tick timer | `onAccept`, `onClientMessage` with the login handler, `onClientDisconnect`, `onResourceTick` | a client id is handed out again after 256 connections while sessions, map entries and sequence counters of earlier holders are still there; an exception in the tick ends the server |
| **Protocol::Message** (`src/common/Protocol.hpp`) | none | `parse`, `serialize`, constructors | a bad line throws |
| **NetworkClient** (`NetworkClient.cpp`) | socket, `m_running`, `m_recvQueue` with its mutex, the thread | `connect`, `recvLoop`, `pollMessage`, `sendMessage`, `shutdown`, destructor | two threads; shutdown races the end of the receive loop; a join |
| **Application** with `GameContext`, `Player` | client id, uuid, `m_lastSeqByType`, resources | `Run`, `Update` | every message of a wrong sequence is dropped for good |
| **Scenes** | current scene | `handleMessage`, login button, `ChangeScene` | a message whose sequence was counted is dropped by the scene it does not concern |
| **TextBox, Button, CFont, Timer** (`src/client/src/gui/`) | focus, text, scale, press, font size | `Update` once per frame | two boxes share one font; focus, input, fitting and clicks are decided one after the other in a frame, by objects that do not know each other |
| **nlohmann::json** (`src/common/json.hpp`, vendored) | the lexer's buffer, two stacks of the parser | `parse`, `>>`, `dump` | two independent implementations of UTF-8; pointers into a value that is being built; buffers that are filled without a test |
| Logger, build files | none | | not modelled |

How they interact: a client connects; `onAccept` makes a session under the next
id, registers it and sends `AssignClientId`. A click in the login scene sends a
`LoginRequest`; the login handler of `main.cpp` finds the *session by the id*,
calls the database, stores the uuid in the session and sends a `LoginResult`.
The tick goes over `m_sessions`, reads, increases and writes the pool of each
session that has a uuid and sends a `ResourceUpdate`, numbered per client id.
The client's receive thread parses and queues; its main thread takes the queue
once per frame, filters by sequence and hands the rest to the scene. The server
has one thread, in `io_context::run()`, so each handler there is one atomic
step, except that the process may die inside it.

What makes each correct:

* JsonDB: the file is always the old or the new map; what a caller was told
  stays true after a restart; a registration never takes over an account.
* Session: messages leave in the order of `send`, none lost or doubled; the
  write loop always runs when something is queued; a closed session ends.
* Server: a reply reaches the connection that asked; nobody is told of an
  account without its password; ticks lose no update and show nothing that is
  not durable; updates are numbered without a gap; closed sessions go away.
* Client: messages are taken in order; the account never changes; only its
  resources are shown; it keeps up; closing the window ends the process.
* Login form: one box has the focus; a click is what the user meant by it; what
  is sent is what was on the screen.
* Bytes: a message arrives as it was written, however the stream cuts it; what
  the parser accepts `save()` can write, and reads back as it was.
* All together: a player plays the account asked for, sees what the account
  has, never sees it shrink, and sees every update in the end.

## Modules

```
AccountStore  <==implements==  JsonDB <- MCJsonDB, JsonDBProofs
Session <- SessionSpec <- SessionSpecProofs         (SessionProofs: lemmas)
Session <- Server <- MCServer
           Server <- System <- MCSystem, ServerProofs   (of Server and of System)
Ledger        <==implements==  Server
Session       <==implements==  Framing <- MCFraming, FramingProofs   (the read side)
Client <- ClientProofs
LoginForm <- LoginFormProofs
JsonString, JsonNumber <- JsonLexer <- JsonLexerProofs
JsonParser
```

**AccountStore** is what the rest of the server may assume of the database,
and nothing about files: a view in memory, and durable accounts that change only
by taking over the whole view (`Commit`). Crash and restart lose the view.

**JsonDB** has one action per call. A call that changes accounts changes the map
and sets `pc` to the first step of `save()`; `SaveOpen`, `SaveWrite` and
`SaveRename` follow the code line by line, each with its failing form, since no
step tests the stream. `DiskFaults` says which of `open`, `write`, `rename`,
`read` may fail. `Crash` is enabled between any two steps. `Store` is the
refinement mapping: `durable` is what `load()` would read. A fresh uuid is one
that no account has: 128 random bits are taken not to collide. `known` is
history, the uuid a caller was told of. Resources are opaque values; camp levels
are a function on `Camps`.

**Session** has the operations of a session for all connections at once, with
no callbacks: `RunPosted` is the function `send()` posts, `WriteDone` and
`WriteFail` the write handler, `TakeLine`, `TakeMalformed` and `ReadEnd` the
read handler. `m_incoming` holds complete lines that have arrived. A client's
close may throw away a suffix of them (a reset). `wire` and `Pipeline` are what
the ordering properties speak of. **SessionSpec** closes it with the most
general owner: it sends at any time, from the read callback or not.

**Server** extends Session with the ids, the map, the accounts and every
handler. The login handler is split by outcome: `IgnoresLine`, `LoginRejected`,
`LoginSucceeds`, `LoginSaveThrows`, `NullSession` (the dereference of a null
`getSession`), `KilledInLogin`. The tick is one action over all logged-in
sessions in a chosen order (`m_sessions` is an unordered map); `KilledInTick`
leaves the file with any prefix of it. The database is used through what
AccountStore promises, so each call is one step here; that JsonDB keeps the
promise is what `StoreSpec` says. `wood` stands for the three resources, which
the tick treats alike.

**Client** has three parts: the main thread (`app` is its next step: connect,
poll, update, draw, shutdown, close, join), the receive thread (`recv`: test,
read, push, stop) and the server's end of the connection as Server lets a
single client see it. A `LoginRequest` stands for the account it names.

**Ledger** is what the server promises its players and nothing about sessions,
ids, messages or files: per account a stock on disk that only grows, by whole
gains, and the most that anyone was shown of it, which never exceeds the stock.
`LedgerSpec` in Server has the refinement mapping: `Stock` is what a restart
would find in the file, `Shown` the largest amount on any wire.

**System** extends Server with a client at the other end of each connection:
the sequence filter, the scene, the uuid and the number on the screen. A client
reads `wire`, the messages whose write has completed, as far as `handled`. The
click on Login, the start and the closing of the window are Server's
`ClientSends`, `ClientConnects` and `ClientCloses` with the client's own guard,
so neither side has a hand-made environment. What System leaves out of a client
(the threads, the queue) is in Client, whose `TakenInOrder` says that the filter
gets the messages in order and whose `InGameSurvives` says that the login button
is not used from the game.

**Framing** is one direction of a connection in bytes: the sender's current
text, the socket, the receiver's streambuf. `Session::doRead` and
`NetworkClient::recvLoop` are the same loop, one with callbacks and one
blocking, and are modelled once. `ReadsLines` is a refinement of the read side:
with `LinesIn` of the socket and the streambuf for `m_incoming`, every step is
one of Session's `SendLine`, `TakeLine`, `Close` and `ReadEnd`, or a stutter.

**LoginForm** has one action, a frame of `LoginScene::Update`: both boxes in
their order, then the button, from what raylib sampled (pointer, button,
characters, backspace). `released`, `pressedAt` and `left` are history. The
animation moves the scale anywhere between where it is and its target. Widths
are those of a font in which every character is as wide as its size, with
`kDefaultFontSpacing` between two. `m_outputText` is what `Draw` shows: the text
with the cursor, which may be on or off in any frame, or a dash.

**JsonLexer**, with **JsonString** and **JsonNumber**, and **JsonParser** are
the parts of json.hpp that every message and every account goes through.
JsonLexer is the scanner, a byte at a time, up to the end of one token: the byte
order mark, white space, literals, and the byte that decides who scans on;
`Scans` is the same over a whole text, for what is read back. JsonString has
`scan_string`, one record for the function's locals, and `Dump`, which is
`dump_escaped` with the automaton of `decode`, which shares no table with the
scanner. JsonNumber has `scan_number`, its labels as states, and `dump_integer`
with `count_digits`. JsonParser has tokens for text: `sax_parse_internal` with
its stack `states`, `json_sax_dom_parser` with `ref_stack` and `object_element`,
pointers being paths into the value; of the numbers it tells apart those that a
double holds and those that it does not. Each is checked against a definition of
its own: the code points of a text, RFC 8259's grammar of numbers, its grammar
of values, and the way back through the other half.

## Runs

| Run | Shows |
|---|---|
| `jsondb` | no disk errors, crashes everywhere: the file equals memory between calls, uuids that were handed out are durable, JsonDB implements AccountStore |
| `jsondb_faults` | any operation may fail: a running process still never drops or changes whose an account is |
| `jsondb_torn` | *violation*: a failed write makes `save()` install a torn file (below) |
| `session` | `SentInOrder`, `SendsArrive`, `LinesAreRead`, `ClosedIsReleased`, under the most general owner |
| `server_ids` | three connections on two ids, two passwords of one user, bad lines, a tick, saves that throw, deaths around `addUser` and in the tick: `FoundOrDisplaced`, `RegisteredIsRead`, `OnlyOwnAccount` |
| `client` | two logins in flight, numberings that start late or wrap, closes: `TakenInOrder`, `UuidStable`, `ShownIsOwn` (in `ClientInv`), `InGameSurvives`, and under fair threads `CatchesUp` and `Exits` |
| `system` | two clients from the click to the screen over two ticks, throwing saves, deaths inside a tick, restarts: `PlaysOwnAccount` and `ScreenIsDurable` (in `PlayersInv`), `ScreenGrows`; of the server `UpdatesContiguous`, `NoLostUpdate`, and that it implements Ledger |
| `system_live` | one client over three ticks, two clicks with any of two users and passwords, deaths: `ResultIsDurable`, `ClickEnters`, and `ScreenCatchesUp`, updates too early for the game included |
| `framing` | bytes cut anywhere, closes anywhere: `TakenAsSent` (in `FramingInv`), `LinesArrive`, `ReadsLines` |
| `login_form` | two boxes, one font, a cursor and a button: `FocusFollowsClick`, `ReleaseOfClick`, `PasswordFits` (in `FormInv`), `SentAsSeen` |
| `json_lexer` | every token: `StoredAsRead`, `OneSpelling`, `BufferSuffices` for strings; `NumbersExactly` and `IntegerIsReadBack` (in `ScannerInv`) for numbers |
| `json_parser` | twelve tokens: `AcceptsJson`, `StacksAgree` and `ElementIsFresh` (in `ParserInv`), `SavedIsLoaded` |

Where a name ends in `Inv`, it joins the module's types with the parts that are
named. Types and some smaller invariants of JsonDB, Session and Server are
theorems and not asked of TLC again: `JsonDBTyped`, `AtomicWriteHolds`,
`SessionTyped`, `WriteLoopAliveHolds`, `EachSideReportsOnceHolds`,
`ServerTyped`, `TickFindsAccountsHolds`, and `ReaderRegisteredHolds`, of which
`FoundOrDisplaced` says more.

Three questions are asked under conditions that no run combines. With a rename
that throws, `AtomicWrite` and `StoreSpec` are theorems (below); that step fires
in `jsondb_faults`. Where ids are handed out again, in `server_ids`, there is
one tick per id and one user: the numbering that goes on under the new session
is the one that starts late, in `client`, and that no account is taken for
another user's is `PlaysOwnAccount`, in `system`. And `ClickEnters` is asked of
one client, whose first name is therefore new to the server: the wrong password
and the name that is taken come with its second click, whose answer the filter
has to refuse. Among several connections, which one an answer goes to is
`OnlyOwnAccount`, and when the session is not found at all `FoundOrDisplaced`,
both in `server_ids` and for any number of connections as theorems.

A session that is closed should leave `m_sessions`, and where ids are shared it
may not: its disconnect erases whatever entry its id has by then. What holds is
`RegisteredIsRead`, that a session in the map still reads, so that the end of
its client reaches it and erases that entry, and `FoundOrDisplaced` for those
that are missing from it.

### Bounds

* Users, passwords, uuids, connections: two (one where a run is about something
  else). No handler compares more than two of them: two accounts suffice to
  confuse them, two sessions on one account to lose an update.
* `IdSpace` is 256 in the code. The wrap-around needs one connection more than
  ids, so `server_ids` has two ids and three connections; `system` has as many
  ids as connections, so that nothing is handed out twice by one process.
* `MaxLines`, `MaxSends`, `MaxTicks`, `MaxClicks`, `MaxUpdates` bound how much
  is sent: two or three, four sends in `session`. A queue of more than two
  behaves as one of two: each step touches its head or its end. No bound sits in
  a handler of the code except `MaxTicks`, which stops the tick.
* `SeqSpace` is 2^32 in the code and 4 in the runs of Client: 3 is then the last
  sequence, and `FirstSeqs` = {1, 2} lets `client` go over the wrap, where every
  further update looks old. `CatchesUp` is asked of the updates of a numbering
  that starts with 1 and has not wrapped.
* `framing` writes three texts of four (an empty one, one byte, one that ends
  in a carriage return, three bytes): a line may share the streambuf with all
  of one text and parts of another on either side.
* `login_form`: four characters, one unit of spacing between two of them, in a
  box six units wide and three sizes, so that a text fits in each size, or in
  none, with or without the cursor; two characters in a frame. The cursor and
  the dash are the one character there is: only their widths matter.
* `json_lexer`: in a string 49 bytes, every one at which a table of the scanner,
  of `decode` or of the escapes changes, and hexadecimal digits that reach both
  ends of the surrogates. One character of up to twelve bytes of JSON is the
  longest unit either half has a state for. Three characters of eleven of these
  bytes fill a `string_buffer` of 16 more than once. In a number 10010 for
  2^63 - 1, with both it and twice it plus one passing a power of ten thousand,
  where `count_digits` goes round its loop again; six bytes are as many as the
  longest integer has, its sign included. Outside of both, all 256 bytes.
* `json_parser`: twelve tokens hold an object with a member in an object, and
  behind it another member with its value (the eleventh token), where
  `object_element` has been used by both; an array of objects; and a member
  given twice with an object as its value.
* Connections, users, passwords and uuids are symmetric in the safety runs of
  Server and System; runs with liveness use no symmetry.
* `CHECK_DEADLOCK FALSE` in `session` and `framing` (the bounded peers stop), in
  the run of Client (the process exits or is terminated) and in those of the
  JSON modules (a text ends).

### Fairness

Weak fairness only. In Session and Server for the accept, the posted functions,
the write handler and the read handler of each connection: `io_context::run()`
executes whatever is ready, a read completes when there is a line or an end of
stream, and a write completes because a client's receive loop drains the socket
until it closes it. A client that stays connected and stops reading is outside
this. In Client for each thread as a whole: both run while they have something
to do. In System for the handlers, and for the poll loop and the choice of the
scene of each client, which the 60 frames per second of a process that runs
keep taking; a client that has exited does neither. In Framing for `WriteSome`
(the kernel takes bytes as the receiver drains them) and the read loop. Nobody
must connect, send, click, close, restart a dead process or send a tick, so no
liveness property relies on that.

## Where code and comment disagree

`save()` calls its rename an "atomic write" (`JsonDB.hpp:198`). The rename is
atomic, but `save()` never looks at the stream it wrote to (lines 200-203):
after a short write, for instance on a full disk, line 204 replaces
`accounts.json` by the torn temporary file, and `load()` throws at the next
start. `jsondb_torn` finds this with one failing write in the first
registration. With writes that do not fail the promise holds
(`AtomicWriteHolds`).

The models show other behaviours that no document or comment rules out.
They are conditions in the properties instead of findings:

* When client ids come round, the new holder's updates go on with the number
  where the old one's stopped, and its client drops all of them; the older
  session keeps running out of the map (`Unshared` in the Server properties,
  `FirstSeqs` in Client).
* A failed write takes the session out of the map while lines of that client may
  still be buffered; a login among them dereferences a null session
  (`NullSession`; `writer[c] = "failed"` in `FoundOrDisplaced`). The same
  follows when ids come round and one of two holders of an id disconnects: the
  entry it erases is the other's.
* An update whose sequence is 2^32 makes a client deaf for good.
* With two logins in flight the client keeps the first account and the server's
  session has the second, so updates are dropped (`ShownIsOwn` still holds).
* A wrong password has no answer. An account whose `save()` threw exists in
  memory and a retry logs in to it without it ever having been confirmed.
* A click on Login without a connection terminates the client, though never
  out of the game (`InGameSurvives`).
* The two text boxes share one font: a name is drawn in the size that fits the
  password (`PasswordFits` speaks of the box that is updated last). The cursor
  is appended to the text that was fitted, so that while it shows the drawn
  password may be wider than its box, by that character and its spacing at most.
* A number that is too large for a double (1e999) is refused (`Overflow`), which
  RFC 8259 leaves to the implementation; `AcceptsJson` is for all other texts.
* -0 is read and written back as 0 (`IntegerIsReadBack` in JsonLexer). A zero
  byte counts as the end of the input, whatever comes after it (`Token`). A
  carriage return before a newline is dropped by the receiver; JSON escapes
  both.
* A file that exists but cannot be opened counts as a missing one; the next
  `save()` replaces it.

## Proofs

Every theorem is for arbitrary constants under the module's
`ConstantsAssumption` (in Client also `NoMessageAssumption`), which says only
that the sentinels differ from the values they stand beside, and that bounds are
numbers. JsonString's `BufferAssumption` asks in addition that `string_buffer`,
512 bytes in the code, has room for one escape with its zero, 7.

**JsonDBProofs.** `JsonDBTyped` (types, with `adding` registered in memory
during an `addUser`). `AtomicWriteHolds`, if open and write do not fail: the
strengthening `WholeInv` adds that at the rename the temporary file *is* the
map. `IdentityKeptHolds`, under any failures: per call, `CallKeepsOwners`; other
steps leave the map alone or start or stop the process. `IdleIsSyncedHolds` and
`IdentityDurableHolds`, without failures: neither is inductive, since the file
is replaced from memory; `DurableInv` adds `MemoryKeeps`, that a running process
has every uuid that was handed out in memory. `StoreSpecHolds`, if at most the
rename fails: JsonDB implements AccountStore; calls map to `Register` and
`Change`, the rename to `Commit`, loading to `Restart`, the rest to stutters.
(AccountStore has no fairness, so nothing about progress is claimed.)

**SessionProofs** has a lemma per operation: it keeps `Sound` (types and the
write loop's invariant, `m_outgoing` is non-empty exactly when a write is
pending or has failed) and leaves `Pipeline` as it is, by associativity of `\o`
and `MovedHead`. **SessionSpecProofs** concludes `SessionTyped`,
`SentInOrderHolds`, `WriteLoopAliveHolds` and `EachSideReportsOnceHolds` for any
number of connections and messages.

**ServerProofs** reuses those lemmas. `IInv` adds to the types: a dead process
has no armed reader and nobody logged in (`DownInv`); `onAccept` gives an id
exactly when it starts the reader (`IdInv`); and every uuid a session carries,
registered or not, is that of an account in memory (`UuidInv`). They are needed
together: types need `UuidInv`, because the tick sends the pool it looks up;
`UuidInv` needs `DownInv` over a restart, where the accounts are the file's; and
`ReaderRegistered` needs `IdInv`, so that a connection without an id shares
none, and the write loop's invariant, so that a failed writer never becomes busy
again. `FoundOrDisplacedHolds` is by the steps that change an entry of the map:
only `onAccept` and a disconnect do, both of a connection with that id, which
takes the entry in the one case and in the other has ended or failed, for good,
and keeps its id. Results: `ServerTyped`, `ReaderRegisteredHolds`,
`TickFindsAccountsHolds`, and `RegisteredIsReadHolds`, which is inductive on top
of `IInv`: the new session cannot be one that is in the map, since those read
already, and the one that stops reading is only in the map under the id that is
erased.

The second part of **ServerProofs** is about what was sent. Each step either
leaves the pipelines of all sessions alone (`QuietSteps`), adds one message to
one of them (`AcceptSends`, `LoginSends`), adds one to each session that is due
(`TickSends`), or is the death of the process, which cuts each back to its wire
(`DeathLoses`): `StepKinds`, which every later lemma splits on.

* `AccountsInv`: no two accounts have one uuid, and a running process has in
  memory whatever is in the file, or more; what is missing there are accounts
  whose `save()` threw, and those have nothing. `AccountsStep` concludes that
  `file` only grows, which no property says but four of them need.
* `SentInv`: every message in a pipeline speaks of an account in the file, with
  at least the stock it tells. It is kept because the file only grows.
  `ResultIsDurableHolds` is this for the `LoginResult`, if the rename does not
  fail: with one that throws, a retry logs in to an account that is in memory
  only, which is why the theorem has the hypothesis.
* `NewInv` and `Heard`: a connection that was not accepted was sent nothing, and
  a line that waits was sent by the client. With them `OwnInv`: a session whose
  id nobody else got is logged in to, and was sent, only what its client's lines
  entitle it to; hence `OnlyOwnAccountHolds`. The login handler looks the
  session up by the id, so this rests on `ReaderRegistered` too.
* `CountInv`: the k-th update of a connection has number k, *and* the counter of
  its id is their count: without the second part the next number is unknown.
  `UpdatesContiguousHolds`.
* `GrowInv`: along a connection the amounts of one account strictly grow, and no
  two connections have the same one. That an amount is new follows from
  `SentInv`, all earlier ones being at most what the file has, and within one
  tick from `SharesDiffer`: sessions of one account are credited one after the
  other. `NoLostUpdateHolds`.
* `ShownInv`: there is a largest amount among those on the wires for each
  account, so that the `Shown` of the refinement is one of them. `LedgerStep`
  shows each step to be one of Ledger's or a stutter, and
  `ServerImplementsLedger` that Server implements Ledger, where one step of the
  file adds at most one gain per client id.

The last part of **ServerProofs** shows each step of System to be a step of
Server (or one that leaves it alone), so every theorem about Server holds of
System (`SystemUpdates`, `SystemImplementsLedger`). `PlayInv` then ties each
client to its wire: what it has handled is on it, its uuid is that of a
`LoginResult` it has handled, the screen shows an update it has handled, of that
uuid. `PlayersInvHolds` follows with `OwnInv` and `SentInv`; `ScreenGrowsHolds`
with `GrowInv`, since the next update handled lies further along the same
connection.

**ClientProofs** has three invariants. `ThreadInv` says what the position of
the threads implies: the receive thread holds a message exactly before it
pushes it, and nothing runs before the connection. `SceneInv` ties the
scene to the uuid and the screen to both: an account implies a counted
`LoginResult`, so no other one can replace it, and the frame that takes it is in
the game before a scene is updated, so no login is sent from then on. They give
`ClientInvHolds`, `InGameSurvivesHolds` and `UuidStableHolds`. `FlightInv` says
that the messages between the server and the filter (the queue, what the receive
thread holds, the socket), in this order, continue `sent` where the filter has
arrived, and up to its end while the server has not closed: `TakenInOrderHolds`.

**FramingProofs** looks at everything that was ever written as one sequence of
bytes, `all`, with a boundary behind each newline (`Stream`). `FlowInv` says
that there is such a sequence in which the lines that were taken are the first
texts, and in which the streambuf and the socket hold the part that starts at
the next boundary; while the sender has not closed, with what it is still
writing they hold the rest of `all`. `TakenAsSent` alone is not inductive: it
counts complete lines and says nothing of the piece behind the last newline.
`all` and its boundaries are bound by `\E` and not computed, so that nothing has
to be proved by induction: `WriteStarts` appends to the witness, the other steps
keep it. `FirstLine` is why a line is never split or joined (a text has no
newline in it, so the first newline behind a boundary is the one before the next
boundary); `LinesOfPart` says which texts `LinesIn` finds in a part of `all`,
from `KthCounted`, that the k-th of finitely many positions is the one with k of
them up to it. `FramingInvHolds` follows from what is under way, and
`ReadsLinesHolds` from how many texts end in what has arrived (`Ends`): a write
completes at most one, because one text is written at a time; a reset leaves the
first ones; a line that is taken was the first one; and when the loop ends there
is none.

**LoginFormProofs** has the types of the states and `FocusFollowsClick` in one
inductive invariant with `ReleaseOfClick`: neither box knows of the other, so
the invariant ties each to the history `pressedAt`, and the button's memory of a
press must imply that the mouse button is still down (`wasPressed =>
mouseDown`), or a release in a later frame would count. `SendsWhatIsSeen`
follows from the order within a frame: the click's press makes both boxes
inactive before any input is handled, so their texts do not change in that
frame. `FormInvHolds` needs what `Taken` computes for any burst of keys: the
equation of that recursive function has a solution (`TakesExists`) and its
values are texts (`TakenTyped`), each because there is no least counterexample
(`Least`, from the well-foundedness of `<`). That the password fits is no
invariant of the drawing alone: the size is fitted to the box before it
animates, with a margin of all that it can shrink, and what is drawn is that
text or, by `DrawnOverhang`, one character and its spacing more.

**JsonLexerProofs** is about strings and numbers of any length, over all 256
bytes. None of the three properties of strings is inductive: they speak of a
complete string, and of a second scanner that reads what was dumped. `StringInv`
says of the scanner after every byte (`Good`, of the bytes in `token_buffer` and
the state `decode` should be in):

* the automaton of `decode`, which `dump_escaped` runs over those bytes, is in
  the state that the scanner's open ranges stand for (`Following`, a table of
  the eight states against the lists of ranges). The two halves share no table,
  so this is a comparison of both, byte by byte;
* what `dump_escaped` has written so far has no newline, its index is in
  `string_buffer` with as much room as the state needs, and its code points,
  each encoded, are the text up to the character that is open (`DumpsTo`);
* a scanner that has read a quote and what was written so far is where this one
  is, with the same buffer (`Between`).

`Dump`, `Scans` and `FlattenSeq` are recursive functions of a sequence. All that
is used of them is what one more element does: `DumpAppend`, `ScansAppend`,
`FlattenAppend`, each from the definition's equation, and the values of a prefix
are the same in a longer text because there is no least index at which they
differ (`Induction`, which is `Least` for a set of numbers). `ScanKeeps` then
goes over the scanner's goals: a byte of ASCII (`CharIs`), of a character of
several bytes (`RangeIs`), a letter of an escape (`EscapeIs`), and the last
digit of a \u escape, alone or of a pair (`UnicodeIs`, `SecondIs`). The last
case adds up to four bytes at once, and `GoodEncoded` takes them through the
automaton one by one; it is where the arithmetic of the encoding is needed, and
that the code point of a pair is in the range of four bytes. `WrittenIsRead` is
the other direction: an escape that was written, `\u00` with two digits or a
letter, is scanned to the character it was written for. `StringsStoredAsRead`,
`NamesSpelledOnce` and `BufferIsNeverFull` follow at the closing quote, where
the state is the accepting one.

For numbers (`NumbersAreRead`), `NumbersExactly` is not inductive either: it
compares one step of `scan_number` with a grammar that quantifies over the parts
of a whole text. The grammar is first restated by positions (`NumberIs`: where
the sign, the integer, the fraction and the exponent end), which need not move
when a byte is appended. `NumberInv` then says of the label that the bytes so
far have such parts (`SoFar`), that the labels lead there from the start
(`Reaches`), and that while the type is an integer's the bytes are those
`dump_integer` would write (`Spelled`). That a label which takes the byte leaves
a text that begins a number follows from `SoFar`, step by step (`SoFarStep`,
`SoFarBegins`). That one which refuses it leaves none is the other direction:
the labels are a function of the bytes, and every number of the grammar has a
path of labels to its end (`EndsHere`). For the integers, `Magnitude` grows by a
digit at its end (`MagnitudeAppend`), while `Pairs` and `count_digits` divide,
by 100 and by 10000; `PairsMore` and `CountMore` say that both get one more
digit, that one, when a number other than zero is multiplied by ten, by strong
induction for recursive functions that divide (`Recursion`). A leading zero is
what would break it, and the labels `zero` and `any1` keep it out. The types of
the scanner's fields are part of the same invariant: in a string they follow
from the forms of `StringInv`.

Only model-checked: the liveness properties (outside the prover's reach, as is
ENABLED) and the parser (`ParserInv`, `AcceptsJson`, `SavedIsLoaded`), whose
`Dump` is a recursive operator, and whose grammar is over values of any depth.

## Not modelled, and why

* Most of json.hpp, which is over nine tenths of the lines in the repository:
  third-party code of which this program uses `parse`, `>>`, `dump`, `at`,
  `value` and a few constructors. Of these the values of fractions are left out
  (the program writes none; that one too large is refused is in), as are
  accessors, which map a value to a field. Everything else in it (binary
  formats, iterators, pointers, patches, comments, callbacks, other error
  handlers) is never called. The share of lines that the map covers stays small
  for that reason.
* Drawing (but for the width of a box's text), layout, sounds, textures and the
  colour of the button: no state that anything depends on. `Timer` only decides
  when the cursor blinks, which is left open. The logger.
* An accept error (logged, accept rearmed) and a cancelled timer: no state
  changes.
* `shutdown()` of the client closes a socket another thread reads. The model
  takes the outcomes that a close can have for a blocked read (it returns with
  an error, or with a line received before).
* Memory: `m_outgoing` grows without limit for a client that does not read.

## Plan

Done, in this order: JsonDB with AccountStore, Session, Server on both, Client;
proofs of JsonDB, of Session, and the first of Server; LoginForm with its
proofs; the JSON modules; Framing under Session; Ledger over Server; System;
proofs of Server's remaining invariants and of Ledger under it, of System, of
Client, of Framing with Session's read side over it, and of LoginForm's texts
and font; proofs of the JSON library's strings and
numbers.

Next, proofs: the parser's two stacks (`ParserInv` is a matter of single steps,
once the recursive operators are in a module of their own).
