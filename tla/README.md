# A TLA+ model of Nexis-Echo

Nexis-Echo wraps a coding agent (Codex, Claude or Gemini), watches its traffic
and reads its answers aloud. This directory holds TLA+ modules for the parts of
it that are hard to test, the TLC configurations that check them on small
instances, and TLAPS proofs of what matters most for every instance.

## The system

| part | state | operations | talks to |
|---|---|---|---|
| `echo/run.go` `RunCapture` | one process per capture; its contexts, deferred calls | open, reset, start worker, subscribe, launch, wait, drain, close | everything below |
| `tts/worker.go` | two goroutines per process (`Run`, `ProcessPending`) with one owner id | `processOne`: lease, claim, speak, mark, release | store, backends |
| `store/` | one SQLite file for all captures: `tts_jobs`, `leases`, `events`, `captures` | one SQL statement or transaction each | - |
| `echo/processor.go` | none of its own | `HandleEvent`: record, update capture, wait for the response, create a job | store, bus |
| `bus/`, `localnats/`, `core/` | an embedded NATS server per capture; one subscription, goroutine and inbox per subject pattern | publish, subscribe, close, ensure stream | adapters, processor |
| `gateway/`, and the proxy of `adapters/codex` | a loopback HTTP server per session; a handler per exchange | read, hook, forward, hook, reply; serve, stop | provider, API, adapters |
| `adapters/codex` | per-connection stream state | websocket relay; normalisation of requests, event streams, responses | bus |
| `adapters/claude` | none beyond its gateway | normalisation of requests, messages and streams; decompression | bus |
| `adapters/gemini`, `telemetry/` | an OTLP collector per session | accept, normalise, publish, answer | bus |
| `speech/` | none | clean, shorten, chunk | processor, worker |
| `config/`, `echo/options.go`, `home/`, `tts/backend.go` | none | flags, environment, file, defaults; paths; registry | RunCapture, listing and retry commands |

What is hard here: several processes and goroutines share one database with no
lock but a lease that nothing renews; a process that starts or dies changes the
rows of the others; the events of one turn are handled by goroutines that run in
any order; a wait with a timeout races the event it waits for; two pipes and a handler race
at the end of a connection; shutdown runs
while goroutines are at work; clients repeat what they have sent already; streams
stop anywhere; several processes must come to the same database and settings by
themselves; and times are compared as text, texts cut as bytes.

## Modules

* `SpeechQueue` - the shared queue: `tts_jobs`, the `speaker` lease, and every
  capture process with its polling goroutine and its drain. One action per SQL
  statement of `processOne` and per step of `RunCapture` that the queue can see.
* `JobLedger` - the abstract promise of the rows of `tts_jobs`, which
  `SpeechQueue` implements (`ImplementsLedger`).
* `EventPipeline` - one capture from the adapter's `Publish` to `CreateTTSJob`:
  inboxes and handler goroutines per subscription, `HandleEvent` statement by
  statement, the end of the capture.
* `CodexSession` - the websocket relay of the Codex adapter: the handler, its two
  pipes, the hooks that publish, the error path, the stream state per connection.
* `GatewaySession` - the HTTP side of a Claude or Codex session: concurrent
  exchanges with their hooks, hang-ups, the serving goroutine and `Close`.
* `GeminiTelemetry` - the collector and the normaliser: concurrent batches, their
  repetition, publication, answers and `Close`.
* `LoopbackServer` - the abstract promise both of them implement
  (`ImplementsServer`): who is accepted is waited for, and a closed server is
  silent.
* `ClaudeStream`, `CodexStream` - what the adapters make of one conversation with
  the API, whole or in frames: which events, in which order, with which words.
* `SpeechText` - how a reply is shortened and cut into chunks.
* `RunSettings` - how processes come to their database, backend, mode and lease.
* `SubjectOverlap` - the overlap check of `bus.EnsureStream`, against its meaning.
  The code calls itself with the tails of both subjects; the module says how far
  that goes (`Compared`) and what is said of the rest there (`RestOverlaps`).
* `StoredTime` - the order of stored times, shared by queue and pipeline.
* `SpeechQueueProofs`, `EventPipelineProofs`, `GatewaySessionProofs`,
  `GeminiTelemetryProofs`, `ClaudeStreamProofs` - the theorems about the module each
  is named for; `CodexProofs` - those about `CodexSession` and `CodexStream`,
  `SettingsAndSpeechProofs` - those about `RunSettings` and `SpeechText`. Two modules
  that are proved about together have no name in common, hence `textVars` beside
  `vars`.
* `SharedLemmas` - what several of these rest on: induction over natural numbers,
  sequences and `FlattenSeq`, the order of stored times.
* `MC*` - constants for TLC.

How they fit together: `GatewaySession`, `CodexSession` and `GeminiTelemetry` say
when and in which order events get on the bus, `ClaudeStream`, `CodexStream` and
the normaliser in `GeminiTelemetry` which events these are; `EventPipeline` takes
them from the bus to a job; `SpeechText` is the text of that job; `SpeechQueue`
takes it to speech, in as many processes as `RunSettings` lets on one database.

Operators whose name has an underscore (`LeaseRefused_NoExpiry`) are mutants:
plausible mistakes in the definition that follows them. Each property is shown
to fail when one of them takes the place of the definition.

### SpeechQueue and the code

`pstate` is how far `RunCapture` has got: `off`, `up` (the polling goroutine
runs, the provider too), `drain` (`cmd.Wait` has returned), `stopping` (the
deferred `stopWorker` has been called), `dead`. `pc[t]` is where goroutine `t`
is in `processOne`. `asof[t]` is the clock as `AcquireLease` read it *before* it
waited for its transaction; the new expiry and the comparison with the old one
both use it. Failing statements, crashes, signals and drain timeouts draw on one
budget, `MaxFaults`. Steps that only a goroutine itself can see are merged with
the statement that follows them: the failing `Speak` with `MarkJobFailed`, the
start of RunCapture with `ResetInFlightJobs`. `requeues`, `heard` and `undercut`
are history: the code has no such state.

Assumed: the processes read one clock that does not run backwards (they share a
machine; a step back of the wall clock is not modelled), process ids are not
reused while a lease of the old owner is left, SQLite serialises transactions.

### EventPipeline and the code

`Script` is what the adapter publishes. A text is a number, 0 for none; a
dedupe key is the fields it hashes: an event is its place in the script, a job
is its request. The completion grace may run out whenever no response has been
recorded, since how long a handler takes is not bounded by it.

### CodexSession and the code

`main[c]` is where `handleResponsesWebSocket` is, `pipe[c][d]` where the pipe that
reads side `d` is; `todo` is what `PublishMany` has still to publish. A frame is
its type, its text (a sequence of words, 0 for white space) and its tool calls.
A peer may end at any point, normally or not: a read after that fails, and what
it had not sent is not sent. A read of a closed connection may still return a
frame that was buffered. `js.Publish` takes no context, the flush after it does:
with a context that is over the event is out and the rest is dropped, unless the
flush is answered before the context is looked at (`late`). A failed
publication may have reached the server all the same. Connections share nothing
but the bus.

### GatewaySession, GeminiTelemetry and LoopbackServer

`hpc[e]` is where the handler of exchange `e` is, `todo[e]` what its hook has
still to publish, `gone[e]` that the provider's connection, and with it the
context of the handler, has ended. `adapter` is fixed at the start: Claude's
`Close` waits without a deadline and returns the error of `Serve`, Codex's gives
up after two seconds and only logs it; only Codex has websockets, which `Shutdown`
does not wait for since they are hijacked. Both adapters forward and publish in
the same order, so one set of actions stands for `Gateway.handle` and for
`proxy.handleHTTP`. The listener, the bus and lost connections fail within
`MaxFaults`. The log is kept per exchange: exchanges are published by goroutines of
their own, and no property relates the events of two of them.

In `GeminiTelemetry` a batch is posted until it is answered with 200 and maybe
again when that answer is lost. A record is its kind (what its attributes make of
it) and its time, 0 for none. The log is kept per batch. The stable sort by time is
given by what it yields: an event is at the place that is the number of events that
are not behind it, by time and, at equal times, in the order they were made.

`LoopbackServer` has three variables: the phase of the server, the requests
accepted and, for each, the number of events published. The mappings are in the modules. Two
things are outside of the promise for Codex and are said in the mapping: after
the two seconds the server counts as still stopping, and relays are left out.

### ClaudeStream and CodexStream

The API composes a reply nondeterministically; the frames of a stream are actions,
each with what the parser does on that frame. (The code parses when the body is
complete; the state of the parser is not seen before, so the steps commute.) A
text or a tool input is the sequence of the pieces it is sent in, a piece is its
block and its number. `fault` is history: what went wrong with an answer. The
provider then asks again, with the results of the tools of whole replies.

### SpeechText and RunSettings

A text is a sequence of bytes with a blank, a full stop, a markup character and
one character of two bytes. Positions count from 0, as in the code, where they
are cut. Limits are small; the arithmetic of the limits (half, minus three) is
that of the code.

In `RunSettings` strings are named by what trimming and lower-casing tell apart;
a duration is a signed word of `Word` values, so that a large number of seconds
wraps round as in `parseDuration`. The settings that are not followed one by one
go the same way and stand behind `file.sound`.

## Runs

| run | instance | what it shows |
|---|---|---|
| `speech_safety` | two processes (one drains and ends, one stays), one job, TTL 1, clock 0..2, one retry, one fault | `LeaseProtects`, `CrossProcessExclusion`: within its lease a worker is safe from other processes, whatever the age of the clock they have read; `UndercutOnlyInShutdown`: only a process that is shutting down pulls the lease from under its own worker; rows under restarts, retries and races: `AttemptsBounded`, `SharedOnlyIfRequeued`, `StatusIsTrue`, and the refinement `ImplementsLedger` |
| `speech_order` | one process, three jobs over two seconds, inserts that lag | `ClaimsBySecond`: the text order is wrong only within a second |
| `speech_progress` | two processes, one job, one fault, fair scheduling | `QueuedIsClaimed`, `ShutdownTerminates` |
| `event_jobs` | two turns of two responses each, one repeated event, one failing statement, fair handlers; all pairs of patterns of up to three tokens over two literals | `JobIsOfItsRequest`, `LastWordUnlessBehind`, `EveryTurnIsQueued`, `DroppedOnlyByLag`, `DoneIsSettled`; `StateMovesOn`: the capture's state is written by the newest event of its subscription; `OverlapIsBetween`: no conflict is missed, and only a `>` that matches nothing is taken for one |
| `event_websocket` | two responses over one Codex websocket | violation: only the first gets a job (see below) |
| `codex_relay` | one connection, two requests, two responses, one failing publication, fair goroutines | `DoneOrError`, `SeenIsPublished`, `WholeTextBeforeDone`, `EndIsAccounted`, `HandlerReturns`, and in `TypeOK` that the error channel has room |
| `gateway_session` | Claude or Codex, two exchanges at once (Codex: one a websocket), one fault, fair handlers | `PublishedInOrder`: what the provider has was published, each leg as a prefix of its events; `ImplementsServer`; `CloseReturns` |
| `claude_stream` | messages of up to two blocks of up to two pieces, two rounds, six encodings | `SameEitherWay`, `VerdictIsDue`, `ResultOfEveryCall` |
| `codex_stream` | responses of up to two items of up to two pieces, two rounds, three forms of `response.completed` | `TurnIsReported`, `CallsMatchResults` |
| `gemini_telemetry` | four batches (no time; a turn out of order; one that cannot be normalised; one from elsewhere), two posts each, one fault, two clock readings | `BatchIsPublished`, `RepeatedIsSame`, `ImplementsServer` |
| `run_settings` | a capture beside a capture or a listing, all combinations of five homes, four backends, three modes, leases, two directories | `OneHome`, `CapturesAgree` |
| `speech_text` | all texts of up to six bytes, limits 1 to 5 | `ChunksAreText`, `SpeechFits` |

The bounds are enough for the cases to happen: a lease of one unit on a clock of
three expires while its holder speaks, is taken over, and is released by the old
holder; a clock read one unit before its transaction shortens the sibling's
lease; one fault lets a process die with the lease, or a job be left `speaking`,
and the other process start after it. The last lease that is abandoned must run
out before the clock stops (`InTime`), or the end of the clock would look like a
lost lease. Two exchanges are enough for one to publish while the other is waited
for; two blocks of two pieces for a stream to be cut between blocks and within
one; two rounds for results to follow calls; a second post and a second clock
reading for a repeated record to get another time; texts longer than the largest
limit for chunks of every kind, a cut character included.

Fairness: time passes; a goroutine that can take a step takes one (the ticker
fires, SQLite answers within its busy timeout, a backend returns or fails);
`Run`'s `select` does not choose the ticker over a context that is over for
ever (strong fairness of `RunReturns`); a signal kills the provider
(`exec.CommandContext`); deferred calls are run. No process has to start and no
provider has to exit.

In `CodexSession` the handler and the pipes go on when they can: a publication is
answered or times out, a write returns, and a closed connection fails its reader.
No peer has to send, to close or to get lost.

In `GatewaySession` handlers go on, `Close` is called when the provider has exited
(a deferred call), and the sockets of an exited process are closed by the system.
The API owes no answer: a forward has to end only once its context is over.

Deadlock is not checked: a capture ends, a conversation ends, a text is cut; what
must not get stuck is stated as a liveness property instead.

## Findings

`event_websocket`: `handleResponsesWebSocket` makes one `RequestID` for a
connection, over which the provider may ask for any number of responses. Each has
its `agent.done`, and they share one job: its key is made of capture, request, mode
and backend, and `INSERT OR IGNORE` drops every job after the first. Gemini's
events have no `RequestID` at all, so the same holds for the turns of a capture.

What the passing properties say between the lines:

* the lease excludes *processes*, not goroutines: during the drain the polling
  goroutine and the drain both hold it, may speak at once, and the first to
  finish releases it for both;
* a job longer than the lease is talked over by another process;
* a reset by a starting capture makes a live one's job be read twice;
* the drain does not wait for the job the polling goroutine is speaking;
* a Codex websocket turn is spoken as its last fragment when `agent.done` is
  handled before the completed frame is recorded;
* when the provider's side of a websocket goes while the completed frame is being
  published, `agent.done` is dropped and the error is suppressed: nothing tells
  that the turn is over;
* after one completed response no error of that connection is ever reported, and
  the text of later responses is added to that of the first;
* a late `llm.response` sets the capture back to running, after `agent.done` and
  after the provider has exited;
* a Claude tool call with arguments that is streamed has a string as its input,
  `{}` followed by the JSON, and not the object that a whole message has;
* a Claude stream that stops early, and a readable status with an unreadable body,
  end a turn without done, tooling or error;
* over HTTP, Codex replies are spoken twice over when `response.completed` does not
  repeat the output, and their function calls are not published then;
* chat completions, compressed and broken Codex streams are never reported done;
* a Gemini record without a time that is posted again is a new event;
* Codex relays, and exchanges after two seconds, may publish after `Close`;
* `Chunk` can cut a character in two where a word is longer than the limit;
* backend, mode and lease time of the configuration are never used by a capture,
  since the options have their defaults before it is asked: the lease is fifteen
  seconds, not the configured ten minutes. All captures agree for that reason;
* `app.db_path` is read by nobody, and a relative home is another database in
  another working directory.

## Proofs

The theorems hold for every value of the constants that the named assumptions of
the modules allow: any number of processes, jobs, connections, exchanges, batches
and faults, any scripts of events and frames, any settings. These assumptions say
what the constants are (`JobIds` are numbers, scripts are sequences of known
events, limits are not 0, there is a literal token) and, of the code, that a job
has at least one chunk and that a stored fraction of a second has one digit
(`Res`), which is enough to tell dropped ones from others. Two theorems of
`EventPipelineProofs` and one of `CodexProofs` have a hypothesis besides, about
what is sent; TLC confirms that the scripts of the passing runs satisfy it.

Each proof has the same plan: an inductive invariant made of named parts, one lemma
per action (or per kind of action) that it keeps them, and the property from the
invariant.

### SpeechQueueProofs

* `TypeCorrect`: `TypeOK` is inductive; its last conjunct (a goroutine that
  speaks has a job) is what lets `MarkJobDone` and `SpeakChunk` index by it.
* `LeaseIsKept`: `LeaseProtects` is inductive on top of `TypeOK`. It says that no
  clock read lies in the future and that a good lease is the row, with at least
  its expiry. The first part is the point: a process is granted a foreign row
  only if `expires <= asof`, and `asof <= now < Deadline <= expires` refutes it.
  `Exclusion` follows, since the row names one process.
* `ShutdownOnly`: with the fact that the drain runs in phase `drain` only.
* `Shared`: with the fact that a job in somebody's hands has been claimed, and
  is back in the queue only if it was requeued.
* `Implements`: every step maps to a step of the ledger or to a stutter. Reset is
  the requeueing of a set of rows, and a mark needs `attempts > 0`, which `Shared`
  gives. `LedgerBounded` is the invariant of the ledger itself, and `Attempts`
  carries it over to the queue.
* `Status`: `StatusIsTrue` counts. Each worker with a chunk left may yet add one to
  `heard`, so `heard` and these workers together are bounded by the claims
  (`HeardInv`). Steps that neither claim nor speak are handled at once (`Quiet`).
* `ClaimOrder`: a claim takes the least text key, and by `TextOrder` (`SharedLemmas`)
  a later second never has a smaller one, whatever fraction was dropped.

### EventPipelineProofs

`Inv` has six parts: what a handler holds is its subscription's, was published and
is recorded (`HandlerInv`); jobs belong to their requests; nothing published is lost
but by a fault (`ArrivalInv`); an event that waits for the first time is newer than
all its subscription has recorded (`OrderInv`); a recorded end of a turn is in hand,
given up on, or has its job (`EndInv`); what was picked with all responses recorded
sorts last among them (`PickInv`).

* `TypeCorrect`, `JobOfRequest` follow at once.
* `EveryTurn`, for `OneTurnPerRequest`: the events of one request are of one turn.
  Without it the statement is false, which is what the run `event_websocket` shows.
* `Lag` needs `ArrivalInv`: a response published and not recorded is waiting.
* `MovesOn` needs `OrderInv`: a repeated event is recorded already, and any other is
  the newest of its subscription.
* `LastWord`, for `StampedInOrder`: the responses of a request carry times in the
  order they are published in. The adapters stamp with their clock, or sort.

* `Overlap` is about two patterns and not about steps: the check comes down to the
  tokens both have before a `>` (`OverlapIs`). Where it says yes, a subject is made
  token by token from both; where a subject matches both, it is read off it.

### CodexProofs: the relay

`Inv` speaks of each connection by itself, and a step of one leaves the others alone
(`OthersUntouched`). `PipeInv`: a hook publishes events of the frame read last, which
is not written yet. `ChannelInv`: the errors in the channel and those received are as
many as the pipes that have ended, and the context is over exactly when one was
received. `ResponseInv`: a response is noted as completed before its `agent.done`
is made, and none is lost while context and bus last. `ReportInv`: how the end is
reported.

* `TypeCorrect`: of `ChannelInv` it needs the count, for the room in the channel.
* `NotBoth`: once the handler means to report the error, no `agent.done` is out and
  none is next to be published. A hook that reads a frame after that publishes its
  `llm.response` first, and with a context that is over it gets no further.
* `Accounted`: if the API's side ended first, its pipe had published all of the
  completed frame before; if setup failed, nothing was read.
* `Seen`: the frames written map one to one to places in the log.
* `WholeText`: `BuilderInv` says that the text builder holds what the frames read so
  far say, until a response is completed; `AheadInv` that the hook which made the
  first `agent.done` has its `llm.response` ahead of it, or published; `BeforeInv`
  that the log keeps that order. What the frames say (`Texts`) is the whole text
  by induction over the frames. The hypothesis `InOrder` is that the API sends
  one text: deltas come before the texts that repeat them, and `response.completed`
  repeats the text or has none. The code does not check it, and without it the
  text builder takes what it gets.

### CodexProofs: the HTTP exchange

`StreamInv` says what the text builder holds by the frames read (`FramesHeard`): of
every item that has ended its words twice, of the open one the pieces that have come.
`RoundSaid` says that the events of an answered round are those of the request
followed by those of one of six answers, and `CallsAnswered` that a call made known
has its result in the conversation.

* `TurnsReported`: the text at the end is that of the whole output by induction over
  items and pieces (`WordsGrow`); what a request says has no `agent.done`.
* `CallsMatched`: the calls among the events are those of the items, place by place.

### ClaudeStreamProofs

`BlocksInv` says that the parser's blocks are the reply's with the pieces sent so
far, `FramesInv` how that depends on how far the stream has got and what went wrong,
`EventsInv` that the events are those of the request followed by those of the answer,
and `HistoryInv` that every call made known is in the conversation.

* `SameThroughout`: a stream that came whole leaves blocks that differ from those of
  the message as JSON only in how the input of a tool is written (`SameCall`), so
  the events are alike one by one. That is an induction over the blocks, and one over
  the pieces of a block.
* `VerdictThroughout`: the verdict is made from the same blocks as the text and the
  calls; the text is what is left of the words when thoughts and inputs are dropped.
* `ResultsThroughout`: from `HistoryInv`, a request repeats the conversation.

### Induction over sequences

The loops of the adapters that append to a slice are written with `FlattenSeq`, whose
definition the provers can unfold. What a loop makes of `n` items and of one more is
a lemma (`FlattenAppend` and `CollectStep` in `SharedLemmas`); that all
lengths have a property is `Induction` or `SeqInduction`, stated for a set, since a
predicate as a parameter is out of reach.

### GatewaySessionProofs and GeminiTelemetryProofs

* `GatewaySessionProofs`: by `Shape`, so many events of the request and so many of
  the answer are out and the hook holds the rest of its leg, unless the provider
  hung up or the bus failed. `PublishesInOrder` reads the property off it.
* `GeminiTelemetryProofs`: by `BatchInv`, what is out of a batch and what its handler
  holds come from the normalised batch of some clock reading, and a batch answered
  with 200 is out. That normalisation is a sequence of the right events, with
  `llm.response` before its `agent.done`, is proved from ranks: distinct events
  have distinct ranks, so every place is taken once. `AcceptedBatchIsPublished`
  and `RepetitionIsSame` follow.
* `SessionImplementsServer`, `CollectorImplementsServer`: every step maps to a step
  of `LoopbackServer` or to a stutter; only a request that was accepted publishes.
  That a server which keeps that promise has no handler left when it is closed
  (`ClosedServerIsIdle`) makes a closed session and a closed collector silent.

### SettingsAndSpeechProofs

* `SettledInv`: the home of a loaded configuration, the database that is open and the
  options of a capture are what the inputs ask for. `SameHome` and `CapturesAlike`
  compare two processes through it.
* `ChunkInv`: the cleaned text is what has been cut off and the rest, the chunks hold
  what was cut off but for blanks, and the last chunk is well cut from the rest. It
  needs that the rest neither begins nor ends with a blank (`Tight`): then a cut
  is not before the first byte, a chunk begins like the rest it was cut from, and
  the chunk before stays well cut. `CutStep` is one turn of the loop, by the three
  ways in which `CutPlace` says it cuts; `Chunks` is the property.
* `QueuedTextFits`: truncation keeps a byte that is not a blank (`Speaks`), and every
  sentence that is kept ends with a full stop, so the two truncations of `Build`
  leave nothing empty.

### Model-checked only

* Liveness (`QueuedIsClaimed`, `ShutdownTerminates`, `DoneIsSettled`,
  `HandlerReturns`, `CloseReturns`): fairness and ENABLED are out of the prover's
  reach.

Every safety invariant and every action property of the passing runs is the
statement of a theorem, three of them under the hypotheses named above.

## Not modelled

* Backends: an HTTP call or a child process; a chunk is spoken or fails. That a job
  for Google may be claimed by a process without a key, which fails it, is seen in
  `MarkJobFailed` and not told apart there.
* The calls of `EnsureStream` to the NATS server, and the server itself; that all
  captures of a home keep their streams in one directory (`echo/run.go:113`) is a
  matter of that server.
* The repository root, the environment of the provider, upstream addresses and
  headers: pure functions of the file system and of strings.
* Markdown in `speech.Clean`: regular expressions.
* What the listing commands print; the settings and listings of the store.
* Durations in the configuration that overflow (`config/config.go:605`, and `:212`
  for the file) are modelled in `RunSettings`, but nothing promises anything about
  them.
