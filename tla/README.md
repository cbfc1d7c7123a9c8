# Models and proofs for cpp-code-book

The repository collects five independent C++ programs. This directory holds TLA+
modules translated from their source, the TLC configurations that check them on
small instances, and TLAPS proofs for all instances. Paths below are relative to
the repository (`src/` in the project's map); `PROJECT.json` gives for every
definition the source lines it stands for.

## 1. Inventory

### Telemetry server (`multithreaded_telemetry_server/src`)

| Part | State | Operations | Talks to |
|---|---|---|---|
| `ThreadPool` (thread_pool.h) | `tasks`, `stop`, `queue_mutex`, `condition`, the workers | constructor, worker loop, `enqueue`, destructor | enqueue by the main thread, tasks run `handleClient` |
| `DataBase` (database.h, .cpp) | `queue_`, `stop_`, `queue_mutex_`, `condition_`, `worker_`, the SQLite handle | `InsertReadingDataDevice`, `WorkerThread`, `Insert`, destructor | called by pool workers, writes table `sensor_data` |
| `DeviceRegistry` (device.h) | `devices_`: last reading of each device | `UpdateDevice` (`GetDevice` and `GerAllDevices` are never called) | called by pool workers |
| server (server.cpp) | `stop_flag`, listening socket, local objects of `main` | accept loop, SIGINT handler, `ParserData`, `handleClient`, destruction at the end of the block | all of the above, clients |
| client (client.cpp) | one socket | connect, `send_request`, `recv_request` | server |
| RAII wrappers (socket_raii.h) | a descriptor | construct, move, close | server, client |

Hard behaviour: three kinds of threads share queues under condition variables;
the destructors of three objects run in a fixed order while workers still hold
references to them; a signal may arrive between any two steps of the accept
loop; clients leave when they like; `INSERT`s fail. It is correct if work is
neither lost nor repeated nor reordered, if no thread sleeps while it has work,
if sockets have one owner, if destruction returns and drains the pool, and if no
handler uses an object that is gone.

### Sea battle (`tcp_udp_http/seabattle/src`)

| Part | State | Operations | Talks to |
|---|---|---|---|
| `SeabattleField` (seabattle.h) | a cell array, `weight_` | random placement, `Shoot`, `MarkMiss`, `MarkHit`, `MarkKill`, `IsLoser` | used by the agent |
| `SeabattleAgent` (main.cpp) | own field, picture of the other field, whose turn it is | type, send, read, answer, mark | the same program on the other machine, over unframed TCP |

Hard behaviour: two programs each decide from their own state whose turn it is
and whether the game is over; a message is not delimited; a player types
anything and may kill the program; ship and shore are recomputed by walks over
the array. It is correct if the turns alternate, both fields agree, both see the
same end, and the answer `KILL` means what it says.

### Tracker file parser (`tracker_bin_file/main.cpp`)

A sequential program: `main` scans a file for a module marker, `BinaryParser`
reads with bounds tests, `parseTargetModuleFixed` parses targets and checks a
checksum. Hard behaviour: lengths taken from the file are added and subtracted
as unsigned numbers, and a marker may occur by chance. It is correct if nothing
outside of the file is read and the module chosen is parsed completely.

### Calculator (`calculator`)

| Part | State | Operations | Talks to |
|---|---|---|---|
| `Controller<Number>` (controller.h), one for each number type | pending operation, `active_number_`, `input_`, memory, the texts it last showed | one handler for each key, `BindWithMainWindow` | its calculator and the window |
| `Calculator<Number>` (calculator.h) | `result_` | add, subtract, multiply, divide, power, with their errors | used by the controller |
| `Rational` (rational.h), `Pow`, `IntegerPow` (pow.h) | a fraction in lowest terms | arithmetic in `int` | used by the calculator |
| `MainWindow` (mainwindow.h, mainwindow.cpp, main.cpp) | the callbacks, three labels | forwards clicks, changes the type, hides keys | calls the bound controller |

Hard behaviour: long legal sequences of keys (an operation replaced while one is
pending, a memory load in the middle, a change of sign after an operation); an
error leaves the operation pending; several controllers write to the same
labels; arithmetic of fixed width (zero to a negative power, one squaring too
many). It is correct if the next key works on the number that is shown, if the
formula shown is the operation that `=` will carry out, if results are exact
unless they cannot be, and if a controller that comes back is as it was left.

### UDP radio (`tcp_udp_http/radio/src`)

| Part | State | Operations | Talks to |
|---|---|---|---|
| `Recorder` (audio.h) | `buffer_`, `current_off_` | `Record`, called back with `SaveBuffer` | used by the client |
| `Player` (audio.h) | the buffer it was given, `current_off_` | `PlayBuffer`, called back with `FillBuffer` | used by the server |
| client (main.cpp) | where it is in its loop, a socket for each recording | record, send one datagram, wait for the answer | server |
| server (main.cpp) | `recv_buf`, `remote_endpoint` | receive, play, answer | clients |

Hard behaviour: datagrams are lost, duplicated and reordered, and nobody sends
one again or stops waiting; the devices call back from threads of their own, as
often as they like; the server plays 65000 frames whatever the size of what it
received. It is correct if what is heard is one recording and then silence, if
an answer is never taken for that to another recording, and if only a loss keeps
a client waiting.

### Not to be modelled

`http_simple` (thirty lines: accept one connection, write a constant, exit), the
audio library, the Qt form, printing and layout everywhere.

## 2. Modules

| Module | Models | Composes or implements |
|---|---|---|
| `TaskExecutor` | what a pool promises its owner, with no mutex and no thread position | abstract specification |
| `ThreadPool` | thread_pool.h | implements `TaskExecutor` |
| `DataBase` | database.cpp | |
| `TelemetryServer` | server.cpp, device.h, client.cpp, the ownership of socket_raii.h | instances of `ThreadPool` and `DataBase`, whose actions it conjoins with its own |
| `SeabattleField` | the operators of seabattle.h | no state |
| `SeabattlePlacement` | `GetRandomField` | extends `SeabattleField` |
| `SeabattleShots` | one player's shots, each an atomic step | abstract specification, extends `SeabattleField` |
| `SeabattleGame` | `StartGame` as run by both programs | implements `SeabattleShots` once for each player |
| `TrackerParser` | tracker_bin_file/main.cpp | |
| `Numbers` | rational.h, pow.h, calculator.h, the conversions of controller.h | no state |
| `DeskCalculator` | what the calculator promises: an entry, a pending operation and a memory for each type, and no text | abstract specification |
| `Controller` | the handlers of controller.h and the window they write to | extends `Numbers`, implements `DeskCalculator` |
| `Radio` | radio/src/main.cpp, audio.h, and the network between them | |
| `MC...` | values of the constants for TLC | extend the module they name |
| `...Proofs` | theorems | extend the module they name |

An operator with an underscore and a remark in its name (`Front_Newest`) is a
plausible mistake, used in place of the operator it precedes to show that a
property would notice it. It is not part of the model.

### How state and actions correspond to the code

**ThreadPool.** `tasks`, `stop` and `queue_mutex` are the members; `pc[w]` is
the statement worker `w` is at, `cur[w]` its local task, `owner` and `arg` the
same for the thread that calls `enqueue` and the destructor. A critical section
that does not block is one action. The exception is `condition.wait`: the
predicate is evaluated with the mutex held (`FindNothing`), then the thread
sleeps and releases it (`Block`); between the two the mutex is taken, which is
exactly the place where a notification could be lost. A woken worker competes
for the mutex again (`lock`). Spurious wake-ups are an action.

**DataBase.** Built the same way, with callers in place of an owner. The
destructor sets `stop_` without the mutex, so `SetStop` has no guard on it.
Insert takes what SQLite returns as success or failure; the code looks at
neither. The object is open when the model starts.

**TelemetryServer.** A connection stands for its client, its socket, its task
and the reading it carries, since a client sends one reading per connection.
`main` is the place of the main thread, including the three destructors at the
end of the block, in the reverse order of declaration: database, registry,
pool. `handler[w]` is the place of a pool worker inside `handleClient`. A step
such as `Accept` is a step of `main` and of the pool at once, and is written as
the conjunction of the two.

**SeabattleField, Placement, Shots.** The array is indexed as in `Get`, without a
test of the coordinates, so a column of `FieldSize` denotes the next row. The
walks of `IsKilledInDirection` and `MarkKillInDirection` are the sets of steps
they make. The abandoned attempts of `GetRandomField` are the action `Retry`.

**SeabattleGame.** `wire[p]` holds the bytes sent to `p` and not read. `TypeShot`
writes whatever line is typed; `ReadShot`, `IgnoreShot` and `ShootOutside` split
what happens to the two bytes taken for a shot, and `ReadAnswer`, `IgnoreAnswer`
and `MarkOutside` what happens to the byte taken for an answer. A program that
would touch memory outside of the array becomes `undefined` and is not followed
further. An optional without a value holds arbitrary coordinates. `strays` counts
the lines that were no proper shots; most properties say what holds until there
is one, `WeightsCount` and the type invariant what holds ever after.

**TrackerParser.** A file is its size and its markers with the lengths that
follow them; the program's choices depend on nothing else. `read` records the
offsets read. Each read of a parser is an action with its own bounds test and
its exception.

**Numbers, Controller.** A number is a fraction; an integer is one over one. What
a function of the program yields is an outcome: a value, an error message, an
abort, or undefined behaviour. `Modulus` is the width: the unsigned types wrap,
and a signed result that does not fit is undefined, which is where the squaring
too many of `IntegerPow` shows. The state of each controller is a function of
the type; `bound` is the one whose handlers the window calls. A text is the
sequence of what was typed or the number it prints, a formula the operation and
operands it shows. Every key is an action; those that work on the input end in
`Input`, which does what `SetInput` and `UpdateInputInView` do. `ChooseType` is a
change of type: the controller writes the texts it keeps to the three labels.
"int" stands for `int` and `int64_t`, which differ in width only. Some of what
the model does may surprise and is what the code does: the display is empty at
the start (the cached text overwrites the "0"); an error text is not cached and
is gone when the controller comes back; after an error, or a memory load, which
clears the formula, the operation stays pending (controller.h:121); a sign key
after an operation key may start a new input of a lone minus (controller.h:132);
and a denominator too great to read makes the number zero.

**Radio.** A frame is known by its recording and its place in it, or is the
silence that `resize` writes, or indeterminate, as the buffer of the server is
before it is received into. The network is a set of datagrams; a duplicate is
one more element. `SaveBuffer` and `FillBuffer` are what the devices call, with
any number of frames of `Periods`, while the program sleeps. That the server
plays the whole buffer is harmless only because clients always send the whole
buffer, padded; `HeardIsSent` depends on it.

## 3. Runs

### Runs that hold

| Run | Instance | What it shows |
|---|---|---|
| `thread_pool` | 3 workers, 3 tasks; 10 thousand states | tasks are taken in order, no wake-up is lost, no worker sleeps when it is joined, destruction drains the queue and returns, and the pool implements `TaskExecutor` with its fairness, by which a task is run once and by one worker |
| `database` | 2 callers, 3 readings, a failing `INSERT`; 12 thousand states | order from the queue to the table, and no wake-up by a caller lost |
| `server_safety` | 2 workers, 2 connections of one device, one ^C, failing `accept`; 710 thousand states up to symmetry | an open socket has one owner, an acknowledged reading is kept while the database lives, and at the end every accepted connection was handled and closed |
| `server_liveness` | 1 worker, 2 connections, no ^C; 41 thousand states | every client is served and every acknowledged reading becomes a row |
| `seabattle_placement` | 5 x 5, ships of 3, 2 and 1 cells, 2 attempts, one abandoned field; 9 thousand states | ships never touch, the cells still on offer are exactly those with no ship near, `weight_` is the number of ship cells |
| `seabattle_shots` | 3 x 3, every fleet of one or two ships and four cells, all shots; 5 thousand states | the picture is right, `KILL` is answered when and only when a ship sinks, the whole shore of a sunk ship is marked, and no shot gives more water away than its own cell and the shore of the ship it sinks |
| `seabattle_game` | 2 x 2, a ship of two cells each, proper shots, two shots in one line, row `I`, column 9, either program killed at any time; 283 thousand states | until somebody strays: one turn, a reader finds the message it waits for and behind a miss at most the next shot, a common end, nothing undefined, every shot answered, and each direction implements `SeabattleShots`; and afterwards, when shots and answers are taken for each other, the counts that end the game stay right and never pass zero |
| `tracker` | 3042 files up to 68 bytes and two markers; 98 thousand states | no byte outside of the file is read, the first module that fits is parsed, and to its last byte |
| `calculator` | numbers of 4 bits, four types, digits 0, 2 and 3, 7 keys; 932 thousand states | the number shown is the one computed with, the window shows the controller it is bound to, the formula is the pending operation, results are exact unless they cannot be, and each type is a desk calculator of its own |
| `radio` | 2 clients, 2 recordings of 3 frames, 2 duplicates, any loss and order; 371 thousand states | what is heard is one recording, an answer is to a recording that was played, and only what is lost keeps a client waiting |

### Runs that show a disagreement

| Run | What TLC finds | What the repository says |
|---|---|---|
| `database_shutdown_hangs` | `~DataBase` sets `stop_` and notifies between the worker's test of its predicate and its sleep; `join` never returns | README.md:9 of the server: SIGINT is handled for a correct stop |
| `server_use_after_destruction` | a handler calls `UpdateDevice` or `InsertReadingDataDevice` after the registry and the database are destroyed | the same line |

The first of them refutes a temporal property, under the fairness stated below.

### Disagreements without a run of their own

They can be seen by adding the definition named to a configuration:

- `RegistryIsCurrent` (PROPERTY in `server_use_after_destruction.cfg`, without
  its SYMMETRY and in place of its INVARIANT): two connections of one device; the
  one stamped first is recorded last, though src/README.md:25 of the server says
  that the registry keeps the current result of each device.
- `NothingAbandoned` (INVARIANT in `database.cfg`): the worker tests `stop_`
  before the queue and leaves with readings queued, though README.md:28 of the
  server says that they are written.
- `ProcessedIsStored` (INVARIANT in `database.cfg`): a failed `INSERT` is not noticed.
- `StopIsNoticed` (PROPERTY in `server_liveness.cfg` with `MaxSignals = 1`): ^C
  between the test of `stop_flag` and `accept` is not seen until a client connects.
- `ShotIsAnswered` without its disjunct `strays > 0` fails in `seabattle_game`: a
  shot that `ParseMove` refuses is not answered; both programs wait for each other.
- `NothingUndefined` without `strays = 0` fails in `seabattle_game`: row `I`, or
  an answer read for a line that is no shot, touches memory outside of the field.
- `ShoreRevealed`, `OnlyShoresGivenAway` and `KillMeansSunk` with `MaxColumn = 3` in `seabattle_shots.cfg`:
  `ParseMove` lets a column of `field_size` pass, which is the first column of
  the next row; the walks, which do test the coordinates, end at once, and every
  hit is a `KILL`.
- `TrackerParser` reaches `undefined` for a file of fewer than four bytes:
  `buffer.size() - 4` wraps around, and the scan leaves the buffer.
  tracker_bin_file/README.md:7 names module 0xABCD; the code looks for 0x4D42.
- `ShownIsMeant` is stated for texts that fit the type. A byte typed as 300 is
  read and cut to eight bits while 300 stays on display; and `PendingIsExact`
  allows what `TooGreat` describes: a power may be undefined though its result
  fits, since pow.h:13 squares the base once more than it needs.

### Bounds, and why they are enough

- *Workers, tasks, connections.* The pool's workers run one loop and compete in
  pairs for a task, a mutex and a notification; a third makes room for one
  that sleeps while two others compete. The proofs cover the other sizes. The
  server uses two workers for races of two handlers. Its liveness run needs only
  one, which is the harder case: the second client waits for the first.
- *`MaxSignals`.* The handler only sets a flag; a second signal changes nothing.
- *Fields of 2 x 2, 3 x 3 and 5 x 5 in place of 8 x 8.* On 3 x 3 ships of three
  cells span the field, so a walk starts in the middle, at an end and at a corner
  and stops at a border or at water; 5 x 5 has room for three ships that must
  avoid each other. The game is about messages, for which two cells suffice: a
  hit, a kill and misses.
- *`MaxWire`, `MaxStrays`.* At most four bytes on the way to a player: two shots,
  so that a reader can fall behind and mistake what it reads. Proper shots never
  need more than three: the answer to a miss and the next shot, which the other
  player may type before that answer is read (`MessagesAreWhole`, `Crossing`).
  One line that is no proper shot puts the two programs out of step for the rest
  of the game; more of them reach nothing new of a kind the properties tell
  apart, and the proof of `WeightsCount` has no such bound.
- *`MaxAttempts`, `MaxRetries`.* Two failed attempts abandon a field, and one
  abandoned field shows that nothing of it remains.
- *`MaxColumn`.* The greatest column a shot may have; 2 is the last one of 3 x 3.
- *Files.* Sizes and lengths stand on both sides of every comparison: a header, a
  header with checksum, one target, one target with spare bytes, two targets.
  Both markers may fit, only one, or neither. The proofs cover all files.
- *`Modulus`, `DigitKeys`.* Four bits: 16 numbers of each sort, of which a few
  keys reach all signs, zero, one, the limits and beyond. `PendingIsExact` looks at
  every right operand of that width, whether or not a key sequence types it.
- *`MaxKeys`, `ChoiceCost`.* Seven keys make a whole calculation with a second
  operation on its result, or an error in the middle. A change of type counts for
  three of them, so that sessions with two changes still press a key on either
  side. All that the run checks is proved for sessions of any length and numbers
  of any width.
- *`Frames`, `Periods`.* Three frames in periods of two: a device calls back
  once, twice with a period cut short at the end of the buffer, or never.
- *`MaxRecordings`, `MaxDuplicates`.* Two recordings, of one client in turn or of
  two at once, are what can be mixed up; two duplicates let both the request and
  the answer of one come again. The safety properties are proved without bounds.
- *Symmetry* is used only in the safety runs of the server; the runs with
  temporal properties have none. Each constant set is used as a set only.
- *`CHECK_DEADLOCK FALSE`.* All of the concurrent programs end: the pool and the
  database are destroyed, the server terminates, the game is over, nobody presses
  a key, a radio client waits for an answer that was lost. `TrackerParser`
  has an explicit final step instead, so a parser that got stuck would show.

### Fairness, and why the code justifies it

`ThreadPool` and `DataBase` assume weak fairness of each thread (a scheduler
runs every thread that can go on) and of the owner and the destructor once
begun. Nobody has to enqueue, to destroy, or to call. Taking the mutex
needs no strong fairness in these instances: it is held across at most two steps
of one worker, which then sleeps until it is notified, so it cannot be taken and
released for ever; the liveness runs pass without more. Spurious wake-ups are
assumed to be finitely many; otherwise a worker could be said to progress by
waking for nothing. `TelemetryServer` adds that a client which has connected
sends its request, as client.cpp does without waiting for anything, or is killed.
Without this assumption `EveryClientServed` is false: `recv` has no time limit.
`SeabattleGame` assumes that programs run and TCP delivers, and not that players
type. `Radio` assumes that the sleeps of `Record` and `PlayBuffer` end, whatever
the devices do, and that what is not lost is received by a socket that is read;
nobody has to record. `Controller` has no fairness: nobody has to press a key.
`TrackerParser` has no temporal property beyond safety.

### Assumptions about the environment

Linux delivers SIGINT to the main thread. The bytes a program sent before it was
killed are delivered. A failing `socket`, `bind` or `listen`, SIGPIPE, partial
`recv`, a database that does not open and a failed connection before a game are
not modelled. Calls on a destroyed object have no effect in the model (the code
is undefined there, and `server_use_after_destruction` reports it); so the
properties checked with a signal say what happens if such a call does no harm.
An ephemeral UDP port is not taken again while an answer to its last owner is on
its way; an address that does not parse is not entered; the results of the audio
library are ignored by the code, so a device may never call back.

## 4. Proofs

TLAPS checks these for every value of the constants, without the bounds of the
runs. Every safety invariant and action property that a run checks has a theorem
here, those of the runs that end in a counterexample aside, and so have the
initial states and steps of all three refinements. The type invariants of the
pool, the writer, the server, the placement, the game, the parser and the
calculator are among them; for the radio `Shape` and the invariants on top of it
take that place, for the shots `SoundInv`.

What a recursive function computes, and what a sequence or a list adds up to,
is proved by way of sets of naturals: such a set has a least element
(`Least`, from `NatLessThanWellFounded`), so one that holds 0 and, with every
number, the next one holds all of them (`Climb`). Each proof names the set of the
numbers up to which its statement is true. That a function defined by recursion
exists at all is proved in the same way (`RecursionExists`).

**ThreadPoolProofs**, from `Workers # {}` and `None` being neither worker nor
task. `TakenInOrder` or `NoLostWakeup` alone are not inductive: that a
notification is not lost depends on who holds the mutex, and that a task runs
once depends on where every other task is. The invariant has three layers.
`HandInv` says what the threads hold in their local variables, on top of the
types. `SyncInv` speaks of mutex, condition variable and flag: the mutex is held
across actions only by a worker that found nothing to do and such a worker saw
an empty queue and no stop; a worker exits only when nothing is left; it contains
`NoLostWakeup` and `NoneAsleepAtJoin`. `DataInv` locates every task. Each layer is
inductive given the ones before. From them follow `TypeCorrect`,
`NoWakeupIsLost`, `JoinsDoNotHang`, `TasksTakenInOrder`, `TasksRunOnce`,
`DestructorDrains`, and `PoolRefinesExecutor`: initial states map to initial
states of `TaskExecutor` and every step to a step or a stutter.

**DataBaseProofs**, from `None` not being a reading: `TypeCorrect`,
`ReadingsTakenInOrder`, `NoWakeupIsLost`, `RowsAreInOrder`. The inductive part is `HandInv`, the
types with what each thread has in hand, an empty queue while the worker is about
to sleep (the callers push under the mutex), and an exited worker once the object
is destroyed. That the rows are the readings taken without those lost needs more:
a failed reading must not come again, so `OnceInv` says that one reading is in
the hands of one caller and accepted once, and `TakenInv` that the reading in hand
is the last one taken. The theorem that the destructor returns has no counterpart here,
because it does not: see `database_shutdown_hangs`.

**TelemetryServerProofs**, from `PoolAssumption` (some worker, and `None` neither
a worker nor a connection), `ServerAssumption` and `DeviceAssumption`:
`TypeCorrect`, `WriterKeepsItsPromises`, `SocketsHaveOneOwner`, `AckedReadingsAreKept` and
`ServerEndsClean`, for any numbers of workers, connections and signals. A
step of the server is a step of its pool or leaves it alone (`PoolMoves`), so the
three layers above are an invariant of the server's pool, by the same lemmas.
`PoolFacts` is what the rest needs of them: no two places hold the same task, and
a destroyed pool holds none. On top come `HandlerInv` (a worker is in
`handleClient` exactly while it runs a task), `SocketInv` (`SocketsOwned`, and no
backlog once main has ended) and `InsertInv` (a handler inside of
`InsertReadingDataDevice` has its own reading in hand, or has queued it). Each of
`SocketsOwned` and `AckedIsKept` refers to places that only these parts describe.
In the same way a step of the server is a step of its writer or leaves it alone
(`WriterMoves`), so what DataBaseProofs proves of the queue holds in the server.

**SeabattleShotsProofs**, from `FieldSizeAssumption` and `ShotsAssumption`
(straight ships that lie apart, and `weight_` the number of their cells), for
fields of any size and any such fleets. The first half is the geometry of
`IsKilledInDirection` and `MarkKillInDirection`: no two cells share a place in the
array, a walk over killed cells never leaves the ship it starts on
(`WalkStaysOnShip`), from any cell of a straight ship the four walks reach all of
it (`KilledIsSunk`), and the cells beside the walks are its shore
(`AroundIsNear`, `NearIsAround`). The second half is what one shot does.
`ViewSound` is not inductive, since the picture is marked by walks over the
picture and the field is counted by walks over the field; `Sound` ties both to
the fleet, which is nowhere in the program. `ViewIsSound` holds for every column
the code lets pass. `ShoresAreRevealed`, `OnlyShoresAreGivenAway` and
`KillIsSinking` are about shots within the field (`MaxColumn < FieldSize`): beyond
it they are false, as section 3 says.

**SeabattleGameProofs**, from `GameAssumption` (fleets as above, and an empty
optional is no move) and `PlacementAssumption`. `TurnInv` is the
heart: while only proper shots are typed the two programs and both directions of
the stream are in one of four phases, seen from the player who shoots: `Calm`,
`Fired`, `Replied`, and `Crossing`, when the other one has shot before the first
has read that it missed; who has left has seen the end, or lost the other
program (`LeftInv`); and what each player has drawn is right once the answer on
its way is marked (`PairsSound`, which instantiates SeabattleShotsProofs). Each
action leads from one phase to another, or is impossible there; the properties
alone do not say where the other program is. `TurnsAlternate`,
`MessagesDoNotMix` (with `LeftInv`) and `NothingIsUndefined` follow from the phases, `EndIsForBoth`
and `PicturesAreRight` from the pictures, and `GameImplementsShots` from both:
the step of `SeabattleShots` is the one that reads the shot, with the marking of
the answer done ahead in the refinement mapping. `CountInv` holds whatever is
typed: a count is taken from only by an answer that is read after a shot, and a
shot is typed only before the end, so no count passes zero; `WeightsAreCounts`
and `TypeCorrect` follow.

The module ends with the placement, for any field, any list of ships and any
number of attempts: `ShipsLieInField`, `ShipsNeverTouch`, `OfferedIsFree`.
`ShipsApart` follows from `AvailableIsFree` (a ship is placed on cells that are on
offer), which follows from nearness being mutual: what a ship uses up is what
lies near it. `FleetInv` ties the array to the ships, and counts their cells as
the pairs of a ship and a deck of it. Hence `WeightIsCounted`, under the
hypothesis that `weight_` starts with the sum of `ship_sizes`; `DecksOfTheCode`
says that it does, 20 for the ten ships of the code. `PlacementMakesFleets` says
that what placement ends with is what `GameAssumption` asks of a fleet, so the
game's theorems are about the fields that the program plays on.

**TrackerParserProofs**, from `FilesAssumption` (the four bytes of a header lie
in the file): `TypeCorrect`, `ReadsStayInside`, `FirstFittingIsParsed`,
`ParsedToChecksum`. `ScanInv` says that the scan has passed nothing that fits;
`ParseInv` says where each parser is (header, targets counted, fields read), which
gives that no test of `available` fails once there is room for a checksum; and
`ReadsInside` follows since the parser's size is the module's, which fits.

**ControllerProofs**, from `ModulusAssumption` (an even `Modulus` greater than 2)
and `ControllerAssumption`, for every width, every set of types and sessions of
any length. Its first part is about keys and texts and never expands the
arithmetic: `WindowIsBound`, `FormulaHolds`, with `Shape`, which adds that the
memory mark is cached exactly while there is something in memory, and
`ControllersAreDesks`, the refinement: initial states and every step, with the
pending operation and its left operand as the mapping.

The second part is about the numbers, bottom up. *Fractions*: there is a greatest
common divisor, `Reduced` gives an equal fraction in lowest terms with a positive
denominator that is no greater than before (`ReducedIs`, `ReducedIsSame`), and the
constructor fails only as `RationalIs` says. *Operations*: `SumIs`, `MulIs`,
`DivIs`. *Text*: whatever is typed is read as a number of the type
(`FromStringIs`), and as the one spelled if that fits (`ReadIsSpelled`). *Powers*:
`Raised`, the meaning, is multiplication repeated; `IntegerPow`, the code, squares.
A round keeps `res * l_op ^ r_op` (`RoundKeepsPower`) modulo `Modulus` for the
unsigned types. For a signed one this holds until a product or a square
overflows, and then the power itself is so great that its square does not fit
(`OverflowIsGreat`), though the power may: the invariant of the loop is
`Fits \/ Spoilt`. That is the bound `TooGreat` states, and no better one is true,
because the base is squared once too often. Together they give `CalculateIsMeant`: the
operations are exact, fail exactly when there is no result, abort only for zero
to a negative power, and are undefined only for numbers that do not fit on the
way. *Sessions*: `NumInv` says of each controller that its numbers are of its type and that
its text is the number printed or a text that reads as the number; with
`WindowShowsBound` it is inductive and yields `TypeCorrect`, `DisplayIsMeant` and
`PendingComputesExactly`.

**RadioProofs**, from `RadioAssumption`: `OneRecordingIsHeard` and `AnswersAreOwn`,
for any clients, buffer size, periods and numbers of recordings and duplicates.
`RecorderInv` says that a recorder holds a beginning of the recording in hand and
then silence, `NetworkInv` that a request carries such a buffer and names the port
of its own recording, and that an answer goes to a recording that was played,
`PlayerInv` that what was heard is a beginning of the buffer received.

Only model-checked: liveness, which TLAPS does not support (`DestructorReturns`,
`EveryClientServed`, `AckedIsStored`, `ShotIsAnswered`, `WaitsOnlyForLost`, and the
fairness part of `ImplementsExecutor`).

## 5. Plan

Done: the pool with its abstract specification and proofs; the writer; the server
that composes them, and its proofs on top of theirs; field, placement, shots and
game; the tracker parser; the calculator with its abstract specification; the
radio.

What could follow:

1. A reading that TCP delivers in two segments, in `TelemetryServer`: it needs
   what `ParserData` makes of a truncated text.
2. A database that does not open: the object goes on using a handle that was
   closed, and everything after that is undefined.

### Not modelled, and why

`float` and `double` in the calculator, whose arithmetic is not of a kind TLC or
the provers evaluate; the printing of numbers and fields, and all layout; the
members that nothing calls (`GetDevice`, `GerAllDevices`, `Inv`, `operator<=>`,
`GetNumberRepr`); miniaudio, Qt, SQLite and asio beyond what the code sees of
them; connection set-up of the sea battle and the failures of `socket`, `bind` and
`listen`; a request that fills the server's buffer exactly (the lengths of texts
are abstracted), and SIGPIPE; `http_simple`, which keeps no state.
