# Verification of wdtt-rslib

The program under `src/` is a client that carries the UDP traffic of a local
WireGuard application through TURN relays. It keeps up to 108 DTLS sessions to
one peer, spreads the application's datagrams over them and gives the packets
that come back to the application. This directory holds TLA+ models of its
logic, TLC configurations that check them on small instances, and proofs that
TLAPS checks for all values of the constants.

## 1. The system

| part | state | operations | talks to |
|---|---|---|---|
| `main()` (main.rs) | cancellation token, paused flag, channel of configs, handles of the groups | launch groups in batches, read stdin (PAUSE, RESUME, STOP), wait for Ctrl+C or the token, join, shut down | spawns everything |
| worker group (worker_group.rs) | its credentials, `config_once` | wait at the gate, `GetCreds` once, spawn nine workers 200 ms apart, join them | credentials cache, workers |
| worker (worker_group.rs) | number of attempts | gate, attempt, back off 2 to 5 s, stop the client on FATAL_AUTH | sessions, token |
| session (session.rs) | TURN allocation, DTLS connection, its channel, a timer | connect, GETCONF, register, select loop, unregister, close | dispatcher, cache, config channel |
| dispatcher (dispatcher.rs) | slots, round-robin counter, last client address, channel of returned packets | Register, Unregister, readLoop, writeLoop, Shutdown | local application, sessions |
| credentials (vk_auth.rs, creds_vkcalls.rs) | one cache entry for ten streams | GetCreds: look up, else five HTTP requests, insert; handleAuthError: evict | groups, sessions |
| packet wrapper (obfs.rs, RelayDtlsConn) | a packet counter, two random offsets | wrap, unwrap | between DTLS and the relay |
| config file (main.rs, config.rs) | the file | rewrite a WireGuard config, save it | config task, users of the library |
| captcha solver (captcha_v2.rs) | attempt, show type, slider settings | an attempt's requests, checkbox, slider, change from the first to the second, end of session | the VK servers; called by users of the library |
| slider puzzle (captcha_v2_slider.rs) | none | parse steps, apply swaps, rank candidates, sample pixels | captcha solver |
| DNS selection (dns.rs) | a cached server | probe, choose | nothing calls it |

What makes it hard:

* Concurrency: the tasks share the token, the paused flag, `config_once`, the
  counter of active connections, the slots, the cache and two kinds of bounded
  channels. Every `await` is a place where the others may act.
* Failure: every stage of a session can fail and is retried for ever; what an
  attempt took (the right to fetch the config, a slot, a count) has to be given
  back or be gone.
* Stopping: the token has to reach every task in whatever place it waits.
* Limits: channels that are full in both directions, sequence numbers that wrap,
  a receive buffer with a fixed reserve.
* Time: a keepalive of 15 s, read timeouts of 1800 s, cached credentials that
  expire after 540 s.

What makes each part correct:

* main(), groups, workers, sessions: the dispatcher's slots and the counter say
  exactly which sessions live; the right to ask for the config, and the config, are
  in at most one place; after the
  client has stopped nothing is left; a stop reaches every task; a failed
  attempt is repeated; groups do not interfere through the cache.
* dispatcher: readLoop drops a datagram only if every channel was full when its turn
  was taken, nothing is duplicated or reordered within a session, nothing waits for
  ever.
* credentials: a caller gets credentials of its own link, with a TURN url, and
  never ones that were reported as refused; a fetch ends.
* wrapper: no nonce is used twice; a packet arrives as it was sent or not at all.
* captcha and puzzle: a call ends; the few checks the server allows go to
  different guesses, better ones first; a guess is a permutation of the tiles and
  is scored with the pixels of the tiles that meet.
* config file: what is saved leads into the tunnel and nowhere else, whichever of
  the two functions wrote it; saving it again does not make it grow.

The list of hazards, each with its line and the properties that cover it, is in
`PROJECT.json`.

## 2. Modules

| module | what it is |
|---|---|
| `Client` | control plane: main(), groups, workers, the life of sessions |
| `Lifecycle` | what the client promises; `Client` implements it |
| `Tunnel` | data plane: readLoop, writeLoop, the select loops, the channels |
| `LossyRelay` | what one direction of the tunnel promises; `Tunnel` implements it twice |
| `Keepalive` | the clocks of one select loop |
| `Credentials` | the cache and the request chain |
| `Obfs` | the packet wrapper |
| `SliderPuzzle` | the puzzle's arithmetic and ranking, as operators |
| `Captcha` | one call of the captcha solver, with `SliderPuzzle` inside |
| `WgConfig` | the two functions that rewrite a config, and saving |
| `MCClient`, `MCTunnel`, `MCCredentials`, `MCCaptcha`, `MCWgConfig` | instances for TLC |
| `ClientProofs`, `TunnelProofs`, `CredentialsProofs`, `KeepaliveProofs`, `ObfsProofs`, `SliderPuzzleProofs`, `CaptchaProofs`, `WgConfigProofs` | theorems; `SliderPuzzleProofs` holds the lemmas `CaptchaProofs` rests on |

A definition `Def_Fault` that stands before `Def` is a plausible mistake in
`Def`. It is not part of the specification: each property is known to be worth
checking because TLC finds it violated when the fault takes the place of `Def`.

### Client

Each task has a program counter (`mainPc`, `gpc[g]`, `wpc[w]`); one value is one
place where the task can be suspended or where what it did can be observed.
Between two such places a step is atomic, as in the code between two awaits.

* `LaunchGroup` .. `Stop` follow `main()`. The token is not looked at during the
  launch, and the stdin and config tasks exist only after it (`FinishLaunch`).
  A command that arrives on stdin earlier waits there; Ctrl+C during the launch
  ends the process through the default handler, which no model needs.
* `GroupGate` .. `GroupJoin` follow `WorkerGroup`; `GroupGetsCreds` stands for
  the whole of `GetCreds` (see `Credentials`).
* `WorkerTop` .. `WorkerFatal` follow a worker's loop. The test of `paused` and
  the `swap` of `config_once` are one step when the gate is open. The growth of
  the delay is left out.
* `SessionConnected` .. `SessionClosed` follow `RunSession`. `handleAuthError`
  is part of the steps in which the code calls it. An error may or may not be one
  that `isAuthError` recognises, so both outcomes are possible.
* When `main()` returns the runtime drops all tasks: every action but `Exited`
  requires `Running`.

### Tunnel

A packet is a number. `workers` is the vector of slots, `rrIndex` the counter.
`RouteTurn` takes the turn, which gives the place `idx` where the search starts; then
each `try_send` is a step of its own. `Candidate(i)` is the slot tried in the i-th
place, `tried` the number of refusals. `RouteTo` ends the search, `RouteRefused` goes
on to the next slot, `RouteDrop` ends it when there is no slot left. The read lock that
readLoop holds from the test for emptiness to the last `try_send` keeps `Register` and
`Unregister` waiting (`SlotsLocked`) and nobody else: the sessions, on other threads
of the runtime, go on taking from their channels. A datagram may therefore be dropped
although a slot tried earlier has room again; the history variable `fullAtTurn` keeps
which slots were full when the turn was taken, and says what a drop does imply.

`Unregister` keeps the other slots in their order, as `retain` does: the new vector is
the old one at increasing places. A session's write to its peer and its send to the shared
channel are awaits and have steps of their own. `writeLoop` takes a packet, reads
the address, sends, and sends again after a failure. What is still in a channel
when its session ends is lost. `RecvError` moves readLoop to `shutwait`, where
only `Shutdown` can wake it, as `shutdown_closed()` does.

Of the reconnecting workers only what concerns packets is here, as `Register`
and `Breaks`; why and when they happen is `Client`'s subject. The two modules
share the operations Register and Unregister and no variable: `Client` never
looks into a channel, and `Tunnel` needs of `Client` only that a worker has one
session at a time.

### Keepalive

`readAge` is how long the present `dtls.read()` has waited and `toTick` the time
to the next tick. Every branch that wins the `select!` starts a new read. Time
does not pass a due timer. What a session does for its other branches takes no
time.

### Credentials

A caller is "idle", somewhere in the chain (`fetch`, with the number of the
request it waits for), about to insert, or it has credentials. The cache is
locked for `Hit`/`Miss`, `Insert` and `handleAuthError` separately, never across
the chain. Credentials are a number, the link they were fetched for, and the
number of TURN urls. All kinds of errors of the chain are one outcome: no caller
tells them apart.

### Obfs

`Take` is the critical section of the counter, `Send` the rest of
`obfsWrapPacket` and the hand-over to the relay, `Receive` is `recv_from` into
the buffer and `obfsUnwrapPacket`. The cipher is ideal: a packet opens exactly if
the sealed bytes are the ones that were sealed. A packet longer than the buffer
is cut and may end in any byte, so it opens if that byte happens to count the
padding that is left. The receiver of what the client sends is the server, and
the sender of what it receives; the model takes the server to run the same
algorithm.

### SliderPuzzle and Captcha

`Captcha` is one call of `solveVkCaptchaV2Attempts`. `pc` names the request the
call waits for: the three that prepare an attempt (`page`, `settings`, `debug`),
the checkbox's (`boxDone`, `boxCheck`), the slider's (`content`, `sliderDone`,
`sliderCheck`), `end` for endSession. Each request may fail, and the server may
answer anything. `SolvingFails(mentionsBot)` is the loop's decision to change to the
slider: the code asks whether the message of the error contains "bot", and the
messages of failed requests quote an address that does, those of refused answers the
server's status or show type, which may. For all of these both outcomes are possible. The sleep after the last attempt is there (`Fail`, then
`GiveUp`). An attempt that fails after the page does not end the server's session.

`SliderPuzzle` holds what the solver computes. `AsUsize` is the cast of the
server's numbers, `SwapsOf`, `AttemptsOf` the split of its steps, `Mapping` the
swaps applied one after the other, `LumaRank`, `Stage2`, `ConsensusRank`,
`Before` the ranking in two stages, `Edge`, `TileWidth`, `Sample` the choice of a pixel
in one of the two dimensions. How well edges match is a number in `ScoreRange`;
`ScoresOf` keeps of its computation that equal images have equal scores, that a
single tile has no seams, and that only the second stage is scored for rgb and text.
A swap outside the grid panics when its image is scored (`ScoringPanics`), and so
may an image with fewer pixels than tiles (`PuzzlePanics`).

### WgConfig

A config is a sequence of lines, and a line is what the code's tests tell of it.
`Section` is the pair of flags that the pass keeps, `Has` the flags for what was
found, `Rewritten` what the pass writes for a line; `save_config_to_file` and
`process_wireguard_config` are the whole functions. `Save` and `SaveFails` are
`fs::write`; a write that fails may leave a part. `SaveAgain` is the environment: a
user of the library who gives the saved file to either function once more. Nothing in
the program does so.

## 3. What is checked

| run | instance | what it shows |
|---|---|---|
| `client_group` | 1 group, 2 workers | TypeOK; `RegisteredExactly`, `ActiveMatchesSessions`: slots and counter are exact; `ConfigAskedOnce`; `CancelDrains`, `StopOncePeersGone`, `RetryAfterFailure` (liveness) |
| `client_groups` | 2 groups, 1 worker each | `StoppedIsQuiet`, `OwnCredentials`, `EvictsOwnGroup`, `LifecycleKept` (refinement) |
| `client_stop_hang` | 1 group, 1 worker | `StopCompletes` is **violated** |
| `tunnel_safety` | 2 sessions, 3 packets each way | TypeOK, `SlotsAreLive`, `DropOnlyWhenAllFull` (action), `UpIsRelay`, `DownIsRelay` (refinements) |
| `tunnel_live` | 2 sessions, 2 packets each way | `UpResolves`, `DownResolves` (liveness), `UpIsRelay` |
| `tunnel_recv_error` | as above | `ReadLoopRecovers` is **violated** |
| `keepalive` | 15 s, timeout 40 s | TypeOK, `ReadIsRestarted` |
| `keepalive_silent_peer` | as above | `SilentPeerNoticed` is **violated** |
| `credentials` | 3 callers, 2 links, 1 key | TypeOK, `OwnLink`, `SomeUrl`, `RefusedIsGone`, `FetchesEnd` |
| `obfs` | 2 senders, 1-bit seq, 3-bit ts, 16 packets | TypeOK, `NoNonceReuse`, `RoundTrip` |
| `captcha` | 2 attempts, 9 payloads, 2 widths, scores 0 and 1 | TypeOK, `EveryGuessIsAPermutation`, `SamplesOwnTile`, `GuessesWithinLimit`, `BetterGuessesFirst`, `GoesForward` (action), `CallReturns` (liveness) |
| `wg_config` | all configs up to 3 lines, an interface and a peer up to 6 | TypeOK, `LeadsIntoTunnel`, `VariantsAgree`, `SavedAgainUnchanged` |

The three violations are statements of the program's own texts that its code
does not keep:

* A stop is not carried out while a session is established: the select loop of
  `RunSession` does not look at the token, and `main()` joins all workers.
  `StopOncePeersGone` says what does hold.
* After one error of `recv_from`, readLoop waits for a shutdown, where it was
  written to test for one and to go on.
* The read timeout of a session never fires, because the keepalive restarts the
  read. Only an error of the connection ends a session. `ReadIsRestarted` is
  proved for all intervals.

Bounds, and why they are enough:

* Two workers are the least number that compete for the right to fetch the config,
  for the counter and for the slots. Two groups show what groups can do to each
  other. The safety properties of both runs are proved for all numbers.
* `Tunnel`: in `tunnel_safety` the sessions' channels hold one packet and a chunk is
  two, so that full channels, a search from either slot, a fall-back, the end of a
  chunk and a drop after both slots refused happen within three datagrams; the shared
  channel holds two packets, which then have an order. In `tunnel_live` it is the other
  way round: the shared channel is full with one packet, so that sessions have to wait
  for it, and two datagrams can be in order in one session's channel. `MaxUp`,
  `MaxDown` bound the packets, nothing else. Sessions are symmetric in the safety run.
* `Keepalive` keeps the interval and shortens the timeout; the proof covers 1800.
* `Credentials`: `MaxFetches` bounds how many credentials are handed out,
  `MaxUrls` their urls. Three callers under one key is more sharing than the
  program's own stream ids (multiples of 100) have; the library's interface
  allows it.
* `Obfs` scales the widths down so that both wrap within `MaxPackets`, the number
  of packets after which nonces must repeat. The buffer of 36 bytes lies between
  the lengths that the sizes and paddings give.
* `Captcha`: the second of two attempts is the last one, and the first can be
  retried. `MCPayloads` holds every kind of steps: none to three candidates,
  with and without a number of attempts (and with a zero for it), an odd and an
  even number of numbers, swaps that overlap, repeat and swap a tile with itself, a
  grid of one tile, a tile one too large and a negative one. A second stage of two
  candidates leaves the third out. A width of 7 is no multiple of 2 or 3, and 2 is
  less than 3. The proofs cover all puzzles, images and scores.
* `WgConfig`: `MaxAny` = 3 lines are enough for a setting before, between and
  behind two headers. `MaxPeer` = 3 lines of a peer hold each setting twice, or
  another peer. `MaxRounds` = 2: a second saving is the first that sees what was
  inserted. The proofs cover configs of any length, with any headers, and any number
  of rounds.

Fairness. Each task is weakly fair: tokio polls a task that is ready, and every
await of these tasks is bounded by a timeout, by a sleep or by the progress of
another task that is itself fair. Nothing is assumed of users, of peers, or of a
session breaking. Two actions are strongly fair: a closed gate is a `select!`
between the token and a sleep that is entered again every second, so the branch of
a cancelled token is taken in the end although a task that goes round the loop
disables it in between. `Unregister` waits for the lock of the slots while a search
lasts; it is weakly fair because a search is finite and tokio's lock is handed out in
the order of asking. `Keepalive` has fairness for its violated run only: time passes,
and a read that has ended is seen. In `Credentials` each request of the chain ends within its 20 s.
In `Captcha` the next step of the call is taken in the end: every request is sent
with the HTTP client the caller supplies, and the program's own clients have a
timeout.

Deadlock is checked everywhere but in the `keepalive` runs, where the session
ends, and in `wg_config`, where the last config has been saved. `Client` has an
explicit last action, `Exited`, and `Captcha` has `Over`.

## 4. What is proved

All theorems hold for all values of the constants that the named assumptions of
the modules allow.

`ClientProofs`, from `ClientAssumption` (at least one group and worker, and a
stride of at least `STREAMS_PER_CACHE`):

* `InductiveInvariant`. `IInv` is the conjunction of `TypeOK`, `GroupShape`,
  `MainShape`, `RegisteredExactly` and `ActiveMatchesSessions`. The last two are
  not inductive alone: that a session is where its slot is taken away only by
  itself needs the injectivity of worker ids (`IDInjective`), and what main() and
  a group may conclude from a join needs the shapes (a group in "join" has
  spawned all its workers; one that never spawned has none; what is not launched
  is unborn).
* `QuietWhenStopped`, `CredentialsAreOwn`, `EvictionIsOwn` follow from it, the
  last two with the injectivity of cache keys (`CacheKeyInjective`).
* `ConfigIsAskedOnce`. The right to fetch the config is a token: `TokenPlace` says
  that it is in `config_once` of the first group, or with one worker, or has become a
  config or is lost, and that no other group ever had it. The theorem is that it is in
  at most one of these places; that a right once lost is not given back is how the
  actions read, and not claimed by it. `ConfigAskedOnce` alone is
  not inductive: it does not exclude that a second worker holds the right, too.
* `ClientKeepsLifecycle`: the refinement. Each step of the client is a step of
  `Lifecycle` or leaves its variables alone.

`TunnelProofs`, from `TunnelAssumption`, for any number of sessions, any capacity
of the channels, any chunk size and any number of packets:

* `TypeCorrect`: no channel ever holds more than its capacity.
* `LiveSlots`: a slot's session lives and has no second slot.
* `SearchIsComplete`: readLoop drops a datagram only if every registered channel was
  full when its turn was taken. `RouteDrop` says only that as many slots have been
  tried as there are, and the proof supplies the rest. `GoingRound`: the places
  `(idx + i) % n` for i below n are all places below n, wherever idx starts
  (`CandidatesAreAll` for the slots). `SearchInv`: each slot tried so far was full at the
  turn. It is inductive because nobody but readLoop fills a registered channel,
  so that a slot with room at the turn still has it when it is tried, and because the
  slots do not change while they are locked.
* `UpRelay`, `DownRelay`: the two refinements of `LossyRelay`. The refinement
  mapping takes all packets on their way as one set, which does not say that a
  packet is in one place only, nor in which order packets will leave. The
  invariants do: `Shape` ties the packets in a task's hands to the place the task is in;
  `UpInv` says that what a session has to write is increasing and later than what
  it has written, and that no two sessions have a datagram in common; `DownInv`
  says the same of the packets of a session between its hands, the shared channel
  and the hands of writeLoop.

`CredentialsProofs`: `LinkIsOwn` is inductive with the link of what is in the
cache; `RefusedStaysGone` needs that credentials are in one caller's hands until
they are inserted, under one key only (`CachedUnderOwnKey`), and that numbers in
use were handed out; `UrlsAreThere`.

`KeepaliveProofs`: `ClocksShareInterval` is the invariant that the age of a read
and the time to the next tick add up to an interval at most; hence a read never
reaches its timeout (`ReadNeverTimesOut`).

`ObfsProofs`: `NonceInjective` is the arithmetic: counters that agree on the
sequence number differ by a multiple of `SeqMod`; then the timestamps differ by
the same multiple of `TsStep * SeqMod + 1`, which has an inverse modulo `TsMod`
(`NonceAssumption`; in the code 960 * 2^16 + 1 is odd and the modulus 2^32), so
the counters are equal if there were at most `SeqMod * TsMod` = 2^48 packets.
With the invariant that a counter is handed out once and not held after use this
gives `NoncesAreFresh`. `PacketsAreWhole` rests on the padding's bound of 255.

`CaptchaProofs`, with the lemmas of `SliderPuzzleProofs`, for any payloads, widths,
scores and sizes of the second stage (`CaptchaAssumption`,
`SliderPuzzleAssumption`):

* `TilesAreSampled`: with a pixel per tile at least every tile is non-empty
  (`TileNotEmpty`), and scaling an offset below the width of one tile to another one
  stays below the width of the other (`SampleInTile`).
* `GuessesCounted`: the order of trying is a strict total order, and in such an order
  on a finite set every place is taken exactly once (`PlacesCount`). `Guessing`
  is the invariant that adds what a count of guesses needs: it belongs to a
  puzzle, and never passes its limit.
* `BestGuessesFirst`: a better score is a lower rank, the second stage has no more
  members than it should (`Stage2Size`), so its ranks cannot outweigh the penalty of
  the others.

* `GuessesArePermutations`: a mapping that keeps every tile once keeps it so after a
  swap of two tiles of the grid (`SwapPermutes`), hence after any number of swaps
  (`MappingPermutes`). The property speaks of puzzles whose swaps are in the grid; with
  any other the scoring has panicked (`ScoringPanics`).
* `CallGoesForward`: what makes `CallReturns` true, without fairness. Each step of a
  call comes to a later attempt, to a later place of the same one, or has rejected one
  more of a limited number of guesses. The change to the slider goes from the
  checkbox to a later place; that it is not made from the slider needs the invariant
  that the slider is solved under its own show type only (`OnTheWay`).

`WgConfigProofs`, from `WgConfigAssumption` (the configs given are made of the lines
there are, and there is a round at least), for configs of any length:

* What the two functions do is described line by line: `PassAppend`, `InsertAllAppend`
  and `InsertFirstAppend` say what becomes of a config when a line is appended to
  it. From these follows, by induction over the config, which lines a section
  of the result has: `PassedLines` for the pass, `InsertGrows` for the insertions.
  `MainLines` and `LibLines` put them together. The content of each section of the
  result is a function of that section's content before; the one exception is the
  library's search for the local endpoint, which looks at all sections (`Found`).
* `SavedLeadsIntoTunnel`, `VariantsAlwaysAgree`: by comparison of these sets. In a
  usual config nothing is found, so that the library, too, inserts the endpoint
  (`UsualNotFound`).
* `SavingIsIdempotent`. The sets of lines do not suffice here: the second file has
  to be the first line by line. A pass that would write every line as it is changes
  nothing (`PassKeeps`); after a setting has been made its flag is set or there is no
  header for it (`SetOnce`). The library drops all endpoints of peers, its own
  included, and inserts its own again: the pass undoes exactly the insertion
  (`PassUndoesInsert`). `Provenance` is the invariant that ties this to the file:
  what is given again is what its writer has made of something.

Induction over data. The theorems of the library that take the property as an
operator cannot be used with these provers. `UpTo` states induction up to a number
for a set of numbers, and is proved from the theorem that an order without descending
chains has minimal elements; `BySeq` states induction over sequences for a set of
sequences. The mappings, the flattened sequences and the sections are treated with
them; that a recursive function exists and is unique is proved for each (`MappedBy`,
`FlattenedBy`).

The other modules' `TypeCorrect` theorems (`Keepalive`, `Credentials`, `Obfs`) state
type correctness for all constants.

Every safety property and every refinement that a passing run checks is proved. Only
model-checked are the liveness properties (TLAPS does not prove them from fairness):
`CancelDrains`, `StopOncePeersGone`, `RetryAfterFailure`, `UpResolves`,
`DownResolves`, `FetchesEnd`, `CallReturns`.

## 5. What is not modelled

* `events.rs`, `logger.rs`, `namegen.rs`, `profiles.rs`, `wrap.rs` and `lib.rs` have
  no logic with state: constant tables, random choices from them, one call of a
  library function, lines of output.
* `dns.rs`: nothing calls it. It probes six servers at once, takes a minimum and
  writes a cell that can be written once; the one thing to be said of it is under
  the hazards.
* `protocol.rs` and the buffer pool of `dispatcher.rs`, which the program does not
  use. `RunSession` has its own GETCONF exchange, which is modelled.
* In the captcha solver: the proof of work (it is found, or the attempt fails), form
  encoding, the contents of the pages, and `buildSliderCursorV2`, a random track of
  points that no decision depends on. In the slider puzzle: the sums over pixels.
* In main(): the parsing of arguments and links, before any state exists.
* TURN, DTLS, HTTP and tokio are external: they may fail or take long wherever the
  code awaits them. The TURN allocation that an early return of `RunSession` leaves
  behind is a hazard without a property, for nothing in the program looks at it. That
  nonces of different sessions differ rests on a random SSRC and random offsets and
  is a question of probability.

## 6. Plan

Done: `Client`, `Tunnel`, `Keepalive`, `Credentials`, `Obfs`, `Captcha` with
`SliderPuzzle`, and `WgConfig`, with their theorems. Of the parts that keep
state only `dns.rs` and the buffer pool, which nothing uses, are not modelled. Every safety property and every refinement of the runs
is proved for all constants.

Left, in this order:

1. An abstract specification of `GetCreds` as one step (a hit, a fetch or a failure)
   that `Credentials` implements, should the program come to share keys between
   groups.
2. The composition of `Client` and `Tunnel` in one module, should an operation
   ever use the state of both.
