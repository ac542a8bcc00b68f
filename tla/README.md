# A verification project for glm2api (glm-go)

glm2api is a Go gateway: it accepts OpenAI-style `POST {prefix}/chat/completions` and
`/images/generations` requests, turns each into one request of the GLM (ChatGLM) web API, and
streams GLM's SSE events back as OpenAI chunks. Everything below refers to the sources under
`src/` by path and line.

## 1. Inventory

| Component | Source | State it keeps | Operations |
|---|---|---|---|
| Request queue | `internal/glmclient/queue.go` | `nextTicket`, `servingTicket`, `releasedTickets`, the condition variable's waiters, one sleeping timer goroutine per `Wait` | `Acquire`, `release`, `QueueLease.Release`, the timer goroutine |
| Account manager | `internal/auth/auth.go` | `accounts[i]` (`RefreshToken`, `IsGuest`, `CachedToken`), `currentIndex`, `config.GLMRefreshTokens`, the token file / `.env` | `GetAccessTokenForAccount`, `refreshAccessToken`, `fetchGuestAccessToken`, `AdvanceAccount`, `ResetAccountCycle`, `InvalidateAccount`, `persistRefreshToken`, `ShouldSwitchAccount` |
| Account failover | `internal/glmclient/failover.go` 29-119 | per call: `offset`, `attempt`, `lastErr` | `callWithAccountFailover`, `getPreferredAccountIndex` |
| Chat stream | `internal/glmclient/chat.go`, `client.go` 159-232 | per request: lease, response body, `out` channel (32), `events` channel (32), `scanErrCh`, `usedContinueStream`, `attempt`, `historyID` | `StreamChatCompletion`, `drainStream`, `continueStream`, `openChatStream`, `iterSSEEvents` |
| Response preparation | `client.go` 90-142, `failover.go` 488-498 | none | `prepareChatResponse`, `wrapStreamResponse`, `shouldRetryBusyError` |
| Event screening | `failover.go` 359-461 | none | `raiseForEventError`, `extractEventError`, `filterErrorParts` (never called) |
| Event accumulator | `internal/translator/translator.go` 1004-1690 | `partsByLogicID`, `orderedLogicIDs`, `part*Sent`, `knownLogicIDs*`, render cache, `emittedRole`, `serverSideToolCalls` | `ConsumeEvent`, `computeDeltas`, `renderFullOutput`, `mergeIncrementalPart`, `Finalize` |
| Streaming tool parser | `internal/tools/parser.go` 584-950 | `PendingText`, `ToolCalls`, `_toolCallCompleted` | `Consume`, `Flush`, `SplitStreamText`, `FindPartialMarker`, `SalvageIncompleteBlock` |
| Message conversion | `translator.go` 772-1002 | per call: `validToolCallIDs`, `repairedToolCallIDs`, `toolCallIDToName` | `ConvertMessages`, `SanitizeToolCalls` |
| Image generation | `internal/glmclient/image.go` | as chat stream, synchronous | `GenerateImages`, `buildImagesResponse` |
| Conversation deletion | `internal/glmclient/delete.go` | none (background goroutine) | `DeleteConversation` |
| Attachments | `failover.go` 134-330 | none | `uploadReferencedFiles`, `uploadFileReference`, `fetchFilePayload` |
| HTTP server | `internal/server/server.go` | none | middlewares (CORS, API key), `handleChatCompletions`, `handleImagesGenerations`, `writeError` |
| Process lifecycle | `cmd/glm2api/main.go`, `server.go` 64-82 | the signal goroutine, `s.srv` | `main`, `Run`, `Shutdown` |
| Configuration | `internal/config/config.go` | `.env`, token file, environment | `LoadConfig`, `SetRefreshToken`, `persistEnvRefreshToken` |
| Argument repair, path inference, prompt samples | `protocol.go`, `translator.go` 184-770 | none | pure text functions |
| Logging | `internal/logging/logging.go` | default logger | formatting only |

### How the components interact

* A gin handler goroutine calls `StreamChatCompletion`: it takes a lease from the queue, opens the
  GLM stream through the failover loop (preferred account `ticket % accountCount`), and starts a
  producer goroutine that pulls events from a reader goroutine (channel of 32), feeds the
  accumulator, and writes chunks into `out` (channel of 32) that the handler drains.
* The lease is released by the producer goroutine's deferred function, or on the error path of
  `openChatStream`. Nothing releases it for a request that times out in the queue (it has no lease),
  nor when `openChatStream` panics.
* The failover loop reads and writes the account manager in separate critical sections; a token
  refresh holds the manager's mutex across the HTTP call.
* Image requests share the queue with chats. Their handler goroutine does everything itself: it
  reads the events into an accumulator of its own and takes the images from its parts; body, deletion
  and lease are dealt with by one deferred function.
* On a signal, `Shutdown` closes the listeners and waits for the handlers; `ListenAndServe` returns at
  once, and `main` exits.
* Deletion and attachment upload run through the failover loop with no preferred account, so they
  start from `currentIndex`, not from the account that served the chat.

### What is hard, and what makes each component correct

* **Request queue.** Goroutines share two counters and a map under one condition variable; leases
  come back out of order; the time-out is a goroutine that broadcasts *without* the mutex
  (queue.go 107-113). Correct means: never more than the capacity at work, no ticket skipped or
  counted twice, a map that cannot grow, bounded overtaking, no waiter that misses a release.
* **Chat stream.** Four parties (client, handler, producer, reader) and two bounded channels; the
  body is closed under the reader; a broken stream is resumed from an id while older events may
  still be in flight; two places call `Finalize`. Correct means: every text event once and in
  order, one end, the slot held exactly as long as the upstream conversation, and no conversation
  deleted that was resumed.
* **The gateway as a whole.** Chats and images take and return slots in different functions, clients
  leave at any point (in the queue, in a busy wait, in an image nobody wants any more), GLM may be
  busy, and the process may be stopped. Correct means: GLM never has more open streams than slots,
  every request is answered, a stop lets the answers in progress finish.
* **Account failover.** Each call sweeps the accounts once while others move the shared index and
  replace or drop the cached tokens. Correct means: each account tried exactly as often as its
  kind allows, a healthy account always found, no retry with a token that just failed.
* **Token storage.** GLM rotates the refresh token, the process must store it before it may die,
  and there are three places a token can come from (file, environment, `.env`). Correct means: a
  crash costs at most the token being rotated, and a running process never goes back to an old one.
* **Streaming tool parser.** Markers arrive cut at any byte; text that may be the start of one is
  held back. Correct means: what is shown and found does not depend on the cuts.
* **Event accumulator.** Parts grow side by side, as snapshots or fragments, in any order; calls
  come in text, in reasoning or from GLM. Correct means: the deltas add up to the output, the
  chunks are a well-formed OpenAI stream, no call and no image is lost.
* **Message conversion.** One pass over the history decides with three tables which calls and which
  results GLM sees. Correct means: no result without its call, no call that loses its result without
  reason.

## 2. Modules

| Module | Extends | What it is |
|---|---|---|
| `AdmissionSlots` | | what the queue promises: admission without tickets, locks or timers |
| `RequestQueue` | | `queue.go`, one action per stretch between lock operations |
| `RequestQueue_proofs` | `RequestQueue` | the inductive invariant, the safety properties, the refinement |
| `RequestLife` | | what one request promises: slot, upstream body, answer, resumption, deletion |
| `ChatStream` | | one streaming request from `Acquire` to the end of the handler; implements `RequestLife` |
| `ChatStream_proofs` | `ChatStream` | the inductive invariant, completeness of answers, the refinement |
| `Gateway` | | many chat and image requests over `AdmissionSlots`, and the process around them; each request implements `RequestLife` |
| `Gateway_proofs` | `Gateway` | the inductive invariant, the bound on open streams, the refinement for each request |
| `AccountFailover` | | concurrent calls of `callWithAccountFailover` over one manager |
| `AccountFailover_proofs` | `AccountFailover` | the inductive invariant and the safety properties |
| `TokenStore` | | refresh, rotation, persistence, kill and restart |
| `TokenStore_proofs` | `TokenStore` | the inductive invariant and the safety properties |
| `ToolParser` | | the parser's operators and its three variables |
| `ToolParserStream` | `ToolParser` | the parser fed with pieces of text, then flushed |
| `ToolParserStream_proofs` | `ToolParserStream` | the algebra of splitting text, the inductive invariants, all four properties |
| `ClientChunks` | | the chunks an answer becomes: role, numbers of calls, reason, `[DONE]` |
| `ClientChunks_proofs` | `ClientChunks` | the inductive invariant and the well-formed stream |
| `Accumulator` | `ToolParser`, `ClientChunks` | the accumulator driving that same parser and sending those chunks |
| `ImageAnswer` | `Accumulator` | the response to an image request, from the accumulator's parts |
| `Conversion` | | `ConvertMessages`, one message of the history per step |
| `Conversion_proofs` | `Conversion` | the inductive invariant and the safety properties |
| `MC...` | each of the above | values for model checking and the statements that fail |

Definitions whose comment starts with *Bug* or *mutant* are not part of the system: they are
plausible mistakes, and each property is known to catch one of them.

### RequestQueue (`internal/glmclient/queue.go`)

The variables are the fields of `ConcurrentRequestQueue`, plus `pc` and `mutex` for the goroutines
that wait on the condition variable, `timers` for the sleeping timer goroutines and `elapsed` for
the deadlines that have passed. All tickets share one `waitTimeout` and take their start time in the
critical section that numbers them, so deadlines pass in ticket order and a counter is enough.

| Action | Code |
|---|---|
| `TakeTicket` | lines 82-98: lock, number, start time |
| `Grant`, `TimeOut` | the loop condition is false (121-124); the time is up (101-106) |
| `StartTimer`, `Park` | `go func` (107-113), then `Wait` (114). They are two steps: the timer runs in between |
| `Relock` | `Wait` returns with the lock and the loop tests again |
| `TimerFires` | the goroutine's broadcast, without the lock |
| `Release` | `QueueLease.Release` and `release`: record, advance over the released run, broadcast |

Tickets that time out are recorded nowhere, as in the code. `Release` needs a held lease: the
`released` flag makes later calls do nothing.

### ChatStream (`chat.go`, `client.go` 159-232, `server.go` 241-253)

`stage` is where the producer stands, `reader`/`hand`/`scanErr` the goroutine of `iterSSEEvents`,
`events` and `out` the two channels, `handler` and `client` the two ends. Events carry their number,
which serves as their id; a `bare` event has none. `sent`, `lastID`, `over`, `shown` and `received`
are history variables that say what GLM sent and what the client got.

| Action | Code |
|---|---|
| `Acquire`, `OpenChatStream`, `OpenFails`, `OpenPanics` | chat.go 39-61; the panic is the assertion on `payload["model"]` (271) |
| `ReadEvent`, `PassEvent`, `ReadEnds` | scan one event, block on the channel, end with or without `scanErr` |
| `TakeEvent`, `SendChunk` | drainStream's loop: screen, consume, `out <- chunk` |
| `StreamEnds` | the channel is closed: finish, or resume if the stream broke, an id is known and retries are left |
| `ContinueStream`, `ContinueFails` | chat.go 98-108; a fresh `drainStream` forgets the `historyID` |
| `Finished`, `CleanUp`, `CloseOut` | cancel and close the body; the deferred functions in reverse order |
| `CopyChunk`, `CopyEnds`, `CopyAborts` | the handler's `select` |

Chunks are the number of the event they come from; the chunks of `Finalize` are one, `Final`.
What the accumulator does to an event is `Accumulator`'s subject.

`RequestLife` is the abstraction of all this that the rest of the gateway may rely on: the upstream
body lives inside the slot (also when it is opened anew), a deletion is started only when the slot is
returned and only if nothing was resumed, the answer ends only when the slot is free.
`ImplementsRequestLife` is the refinement: `lease` is the slot, `body` the upstream, `handler` the
answer, `attempt > 0` the resumption.

### Gateway (`server.go`, `chat.go`, `image.go`, `main.go`)

The composition. The queue is `AdmissionSlots`, the contract that `RequestQueue` is proved to
implement (its variables are `arrived`, `waiting`, `holding`); a request is one `stage` variable
instead of goroutines and channels, and still implements `RequestLife` (`RequestsKeepPromises`), so
that the two modules meet in the same abstract specification. `kind` tells chats from images;
`modelless` is a chat whose `model` is not a string.

| Action | Code |
|---|---|
| `Arrive`, `Admit`, `GiveUp` | the handlers (server.go 208-229, 257-269) and `Acquire`; the client plays no part in it |
| `Upload`, `Open`, `OpenFails`, `OpenPanics` | `openChatStream`, `openImageStream`; every error returns the lease, the panic does not |
| `BusyRetry` | the 429 loops (chat.go 200-227, 346-373), only with a single account |
| `Break`, `ContinueStream`, `ContinueFails`, `StreamEnds` | the loop of `StreamChatCompletion`; an image stream is never resumed |
| `Block` | the producer of a client that has left, once its channel is full |
| `Finish`, `CleanUp`, `Return`, `Respond` | the last chunks or the images; body and deletion, lease, end of the channel or response |
| `ClientLeaves`, `Abort` | the request's context; a chat's handler returns, an image's goes on |
| `Run`, `Shutdown`, `ShutdownReturns`, `Exit` | server.go 64-82, main.go 58-75 |

How often `Block` happens depends on how full a channel is, which is ChatStream's subject: here any
chat of a client that has left may get stuck. With several accounts a busy GLM is an operation that
fails, so `BusyRetry` is about one.

### AccountFailover (`failover.go` 38-108, `auth.go` 203-282)

One step is one critical section of the manager, or one request to GLM. Access tokens are numbered
as GLM issues them; a cached token that has expired is 0. Which accounts are `healthy` is chosen at
the start; an operation of any account may also fail for a reason that is not the account's
(`stopped`). `failedToken` and `tries` are history.

### TokenStore (`auth.go` 104-130, 250-432; `config.go` 288-349, 480-528)

The stores are the token file, `.env` and the environment, present or not. A refresh takes the mutex
(`Lock`), asks GLM, and on a rotation goes through `answered`, `truncated` (os.WriteFile has emptied
the file), `saved`; `Kill` may come between any two of them, and `Restart` reads what is left with
the precedence of `LoadConfig`. Tokens are pairs of account and number.

### ToolParser and ToolParserStream (`internal/tools/parser.go`)

Text is a sequence of tokens: the halves of the markers (`[f` `f]`, `[/f` `/f]`), code fences, the
words after them, line breaks, blanks, `call` (a complete `[call:name]{...}[/call]` item), `{` and `}` (the
halves of an object with `tool_calls`, so that a text can break off inside it) and ordinary words. `SplitStreamText`, `FindPartialMarker`, `FindFenceClose`,
`SalvageIncompleteBlock` and `ParseToolCallsFromText` are operators of these names; the loops over
blocks are recursive functions (`ClosedBlocks`, `CodeCalls`, `BareCalls`), which can be proved about. The
stream module feeds pieces and then flushes.

Three things the code does stand as exceptions in the properties, each as narrow as TLC allows:

* `cutInBlanks`: the blanks between the word of a fence and its line break belong to the pattern of the
  marker (parser.go 26, 28) but to no partial marker (`FindPartialMarker`). Text cut there is shown, and its
  block is not seen.
* `BlocksApart`: when the complete text is salvaged, the search for a block that broke off (parser.go
  501-535) takes a fence that ends one block for the beginning of the next. Of a fence, `tool_code`, a line
  break, a fence, `tool_code`, a line break and an object with `tool_calls`, the stream finds no call and
  the complete text one.
* `BreaksOffInObject`: of a `tool_code` block that breaks off inside its object, `Flush` repairs the object
  and takes the call (parser.go 769, 141-150); the parser of complete texts wants a balanced object
  there (515-518) and finds none.

Assumed: an item of `[function_calls]` is one token, a text has at most one object with `tool_calls`,
its first half reaches past the name of the call (what is repaired of it is a call), the JSON repair is
external (the first bracket decides what is repaired), and arguments hold no code fence.

### Accumulator (`translator.go` 1004-1690)

An answer is, for each part, the pieces GLM writes one after the other. An event chooses some parts
and says how many pieces of each are new, as snapshot of all so far or as fragment of the new ones, of which there
may be none: fragments that are followed by a full snapshot occur in translator_test.go 693-733, so both are
mixed freely. `ConsumeEvent` is one action with
merge, deltas, the tool parser, chunks and flags; `ConsumeAfterCall` the early return once a call is
complete; `Finalize` ends the answer. `rendered` is the render cache. `given`, `fed`, `inOrder` and `disturbed` are
history. `SanitizeToolCalls`, which `Finalize` calls, can drop calls without a name or with arguments that are no
object (translator.go 641-658, 717-770); the calls that reach it there were built by `BuildToolCall` of a name
and an object (parser.go 104-131, 812-871), so it drops none of them, and it is left out.

Two things fragments do to a part are in the model, and excluded from what the properties say of that part
(`Disturbs`, `disturbed`): text or reasoning that goes on after an item of another type is appended to the
item before that (translator.go 1502-1519), so that `text a`, `code x`, `text b` is rendered as `ab` and
then `x`, and its delta, cut at the length sent before, loses `b`; and a fragment without content empties its
part (1478-1481), so that what follows is taken for all there is, and cut at that length as well. Parts that
come as snapshots, and all parts beside a disturbed one, are not excluded.

What is sent is in a module of its own, `ClientChunks`, since it depends only on whether a delta is
empty and on how many calls there are: `SendChunks` is a conjunct of `ConsumeEvent`, `FinishChunks` of `Finalize`,
and no other action touches `chunks`, `emittedRole` or `finalized`. So what is proved of `ChunksSpec` holds of every
behaviour of the accumulator.

`ImageAnswer` reads the same parts the way an image request does: finished parts in the order of
their logic ids, their image items, their URLs, in three nested loops that stop at the requested
count. GLM calls a part finished in the update that completes it.

Assumed of GLM: snapshots only grow, and a code part comes whole. A code part that grows would get garbled deltas, since its closing fence moves (a hazard in
PROJECT.json); a snapshot shorter than its predecessor would have its tail sent twice.

### Conversion (`translator.go` 717-770, 793-1002)

A history is built and converted message by message; the three tables are the code's, `processed`
holds the lines of the prompt with the number of their message. A call has an id (used by a client,
made up by the gateway, or none), a tool name, and arguments that the cleaning leaves alone
(`clean`), changes (`mended`) or rejects (`unusable`). The calls that are kept keep their places in the
message, as the code's `index` does. Ids the gateway made up occur in later
histories, because clients send back what they got. What the cleaning does, and from which message a
missing URL is taken, is not modelled.

## 3. The runs

`tlc -config X.cfg M` with the pairs below. Every run but the four in 3.2 finds nothing wrong.
Deadlock is not checked: every system here stops by design, once its requests are answered or a
bound is reached; that nothing stops *too early* is what the liveness properties are for.

### 3.1 What holds

| Run | Bounds | What it shows |
|---|---|---|
| `RequestQueue` | 2 slots, 5 tickets, 5 deadlines | `ConcurrencyBound`, `ServingIsFirstUnreturned`, `ReleasedMapBounded`, `BoundedOvertaking`; it implements `AdmissionSlots` (`ImplementsAdmission`); a release reaches every waiter as long as nothing has timed out (`EveryTicketServed`) |
| `ChatStream` | channels of 2, 2 resumptions, 5 events | it implements `RequestLife`; the answer is every text event before the end and one final chunk, last; resumption from the last id with nothing in flight; a client that stays gets its answer or an error |
| `Gateway` | 2 slots; a chat, an image and a chat, or an image between two chats without a model; 1 client that leaves, 1 busy retry, 1 resumption, a signal at any time | never more open streams than slots; every request implements `RequestLife`; every request is answered and its slot free again, as long as no producer is stuck, no payload lacks its model, nobody has waited too long and the process is not stopped |
| `AccountFailover` | 2 calls, 2 accounts (one guest with 1 retry), any healthy subset, 1 expiring token per account | every account tried its number of times before a call gives up; healthy accounts found; retries with newer tokens; the shared index does not leave a healthy account; calls return |
| `TokenStore` | 2 callers, token file of up to 2 lines, every combination of stores, 2 rotations, 1 kill, 1 failed write | a kill outside the write itself costs at most the token being rotated; GLM is asked with the newest token known; waiting callers are answered on every error path |
| `ToolParser` | 5 pieces out of 15 | where text is cut, other than in the blanks of a marker, changes neither what is shown nor what is found; only markers and open blocks are withheld, and until the end nothing else is missing; the streaming parser and the parser of complete texts agree as long as blocks stay apart and none breaks off inside its object |
| `Accumulator` | 9 answers of 3 parts, 4 events, up to 3 images asked for | deltas rebuild every part that fragments have not disturbed, and the whole output; the chunks are a well-formed stream; every call of the form that counts (GLM's own, else in the text, else in the reasoning) reaches the client exactly once; images in order, up to the count |
| `Conversion` | 4 messages out of 19, 2 real ids, 2 tools of which one is offered, 2 calls in a message | a result comes after its call and under its name; a call that is shown and not mended keeps its result, and so do calls with made-up ids |

Why these bounds are enough:

* Two slots are the fewest for which leases can come back out of order and `releasedTickets` is
  used; five tickets are two windows and one request, so a window can move past a gap, and stall.
  All deadlines may pass. The safety properties are proved for all values (section 4), as are those of
  the other runs below but for the accumulator.
* Capacity 2 lets a channel be empty, partly full and full; two resumptions leave one to spend after
  the first and none after the second; five events put an end behind an interruption behind an
  event without an id.
* With two accounts a sweep wraps around and meets an account another call is working on; a guest
  with one retry uses a token and its successor. Proved for all values.
* Two rotations let the second write meet what the first, or a failed one, left; two stored
  accounts are where the choice between token file and `.env` changes. A second kill would start
  from a state the first one reaches.
* A fenced block takes a fence and its word, the content, a line break and a fence; the pieces offer
  these joined and apart, so five suffice for a closed block, one that breaks off before, inside and behind its
  object, one in the other, and a cut in the blanks of a marker. Proved for any pieces and any number of them.
* Three requests over two slots make one wait while two are at different points; the two traffics put
  an image beside chats and beside lost slots. One retry, one resumption and one leaving client each
  meet every stage of the others. No property depends on *how many* retries there are, except
  through the bounds `TypeOK` states.
* Four messages are two calls and two results in any order, or three calls and a result: an id can be
  valid, invalid because of another, mended, or shown twice under two names.
* Three parts let one begin, pause while another grows, and go on; four events let a
  part be sent as fragment, empty update, fragment and snapshot. The answers mix what the properties tell apart:
  each form of call alone and all of them in one answer, calls GLM repeats, one without an id beside a call that
  was only thought, text and reasoning that go on after another item.

### 3.2 Where the code does not do what it says

| Run | Statement | What happens |
|---|---|---|
| `RequestQueueLostWakeUp` | `AnsweredAfterDeadline`: a request that has waited longer than `waitTimeout` is refused (queue.go 43, 76) | one request times out, its ticket is never returned and the window stands still at it; the timer of the next one fires before its `Wait`, broadcasts to nobody, and the request sleeps for ever |
| `ChatStreamGone` | `LeaseReturned`: a lease must be released after use (queue.go 80) | the handler returns when the client leaves, the producer blocks on `out` and never reaches its deferred release |
| `ToolParserLostText` | `RemainingTextShown`: `Finalize` gets the remaining text and outputs it (translator.go 1293-1296, parser.go 649) | `Flush` drops what its last split shows (parser.go 658): an answer that ends in a code fence, or any beginning of a marker, loses it |
| `GatewayExit` | `GracefulShutdown`: a signal shuts down gracefully, within ten seconds (main.go 58 and 65, server.go 76) | `ListenAndServe` returns when `Shutdown` begins, and `main` calls `os.Exit(1)` while it still waits for a stream |

Seen while modelling, and not given a run of its own: after time-outs the window stands still at a dead ticket, so
that later requests are refused with a count of requests ahead of them that are not there (queue.go 102-104);
`os.WriteFile` empties the token file before it writes it, and a kill in between leaves no account (auth.go 427;
`CrashRisksOneToken` leaves out just that time); a fragment without content empties its part (translator.go
1478-1481), and the images and thought calls in it are lost; text that goes on by fragments after an item of
another type is put into the earlier item, and its delta loses it (1502-1519); a call in the text of an event
that also carries a call of GLM's own is never parsed (1234, 1262, 1304), which `CallsReachClient` states; a
signal before `Run` has stored its server is read and does nothing, and no later one is read; the inner status of a busy answer is compared as an integer with a float64 and never matches
(failover.go 497); a call without a URL is given one from a later message (translator.go 819); an image
stream reads on after a call of GLM's own although nothing is stored any more (translator.go 1125); a panic
in `openChatStream` keeps its slot (`OpenPanics`, after which the lease stays held); the environment
overrides a rotated token written to `.env` (`Shadowed`); a block cut between fence word and line break,
after a blank, is shown as text; two `tool_code` blocks that share a fence hold a call for the parser of
complete texts only (`BlocksApart`); parts are sent in the order of arrival although translator.go 1007-1008
speaks of logic-id order; a resumed stream that breaks before its first id cannot be resumed again
(`StreamEnds` with no `historyID`); `continueStream` prefers the ticket's account, not the one that served
the stream.

### 3.3 Fairness

* `RequestQueue`: weak fairness of `Step(t)` (a runnable goroutine runs; the mutex is free between
  any two of its holders' short sections), `TimerFires(t)` (a sleeping goroutine wakes) and
  `Release(t)` (a caller returns its lease, as queue.go 80 demands). Arrivals and deadlines are not
  fair. `EveryTicketServed` says *as long as no request times out* (and the gateway's
  `EveryRequestAnswered` something like it), because after that the window may stand still for ever
  (section 3.2). `AnsweredAfterDeadline` is checked under the same fairness.
* `ChatStream`: weak fairness of each goroutine as a whole. That covers `ReadEvent` and `ReadEnds`: GLM
  is assumed to send, end or break a stream. The code has no idle time-out on a body, so
  `LoyalClientServed` rests on this. The client owes nothing.
* `Gateway`: weak fairness of each request's own steps (`Progress`): goroutines run, the queue admits who
  may be admitted (which is `EveryTicketServed` of `RequestQueue`), GLM answers, ends or breaks what
  it began (as in `ChatStream`), the sleep between busy retries ends. Arrivals, leaving clients,
  time-outs, signals and the process's own steps are not fair.
* `AccountFailover`: weak fairness of each call. The wait for response headers and the token requests
  have time-outs (client.go 66-79, auth.go 126).
* `TokenStore`: weak fairness of a refresh (the same time-out) and strong fairness of taking the
  mutex, since `sync.Mutex` hands itself to a waiter that has starved. Kill and restart are not fair.
* `ToolParserStream`, `Accumulator` and `Conversion` are sequential; only safety is checked.

## 4. Theorems

Checked with `tlapm M.tla` for each of the eight modules `..._proofs`. Every safety property and every
action property that a run checks is proved for all values of the constants, except those of the
image answer and those of the accumulator other than the form of its chunks.

**RequestQueue**, from `QueueAssumption` only: any configured capacity (also zero or negative,
which the constructor lifts to one), any number of requests and deadlines.

| Theorem | Establishes |
|---|---|
| `Invariance` | `[]IInv` |
| `TypeCorrect`, `BoundedConcurrency`, `ServingCorrect`, `ReleasedMapStaysSmall` | `TypeOK`, `ConcurrencyBound`, `ServingIsFirstUnreturned`, `ReleasedMapBounded` |
| `OvertakingBounded` | the action property `BoundedOvertaking` |
| `AdmissionRefined` | `Spec => ImplementsAdmission` |

`IInv` adds two facts to the type invariant and the two properties of `servingTicket`: tickets are
numbered without gaps (`Numbered`), and whoever holds or has returned a slot lies below
`servingTicket + maxConcurrency` (`AdmittedInWindow`). `ConcurrencyBound` is not inductive: a
request may be granted a slot only because everything below `servingTicket` has been *returned*,
which is what `ServingIsFirstUnreturned` says. With the two, the holders are a subset of a
window of `maxConcurrency` numbers, which gives the bound (`WindowCapacity`). The only step that moves
the window is `Release` (`ReleaseInv`). For the refinement, `Grant` maps to `Admit`: the
unserved requests before the ticket lie in the window too.

**AccountFailover**, from `FailoverAssumption` only: any set of calls, any number of accounts,
any guests and retries.

| Theorem | Establishes |
|---|---|
| `Invariance` | `[]IInv` |
| `TypeCorrect`, `ExhaustedCorrect`, `TriesCorrect`, `HealthyFound`, `NewTokenCorrect` | `TypeOK`, `ExhaustedAfterAll`, `TriesBounded`, `HealthyAccountFound`, `RetriesWithNewToken` |
| `HealthyIndexCorrect` | the action property `HealthyIndexStays` |

`IInv` says where a call stands in its sweep (`Sweep`): accounts behind its offset, counted
from where it started and around the end of the list, are spent and not healthy; those ahead are
untouched; `attempt` agrees with the tries of the current one. None of the properties is inductive
without it, because they speak about all accounts when only the last one has just failed.
`Tokens` is the part that other calls could disturb: what is cached is either nothing or newer than
what this call failed with, whoever put it there, since tokens are only issued in increasing order.
The modular arithmetic is confined to `Modulo`, `AtPosition` and `PositionRange`.

`TriesBounded` (no account is tried more often than its kind allows) is proved and has no run.

**ChatStream**, from `StreamAssumption` only: any capacity of the two channels from one on, any limit of
resumptions, any number of events.

| Theorem | Establishes |
|---|---|
| `Invariance` | `[]IInv` |
| `TypeCorrect`, `AnswersAreComplete` | `TypeOK`, `AnswerComplete` |
| `ResumptionsMissNothing` | the action property `ResumesFromLastEvent` |
| `ChatKeepsItsPromises` | `Spec => ImplementsRequestLife` |

`IInv` has two halves. `Control` ties the four goroutines together: what the producer's `stage` says of
the lease and the body, of the handler and of the deletion, and of the reader. `Data` follows the
events: `Pending` is what the reader holds and the channel of events, `Through` what the client has,
the channel of chunks and the producer hold. While events are taken, `Through` is a beginning of
`shown`, and exactly the text events of `Pending` before its first end are missing from it
(`NothingLost`); once the answer ends, `Through` is `shown` and the final chunk. That the *next* missing chunk is
the one taken (`NextMissing`) needs that both lists are in the order of the events (`Ordered`).
`LastIDKnown` says that the last id the connection delivered is that of the last event pending that
has one, or else the one the producer remembers: with nothing pending, which the channel's closing
guarantees, this is the id it resumes from. The lemmas under "Lists of events and of chunks" say what `Head`,
`Tail` and `Append` do to these lists; `MovedChunk` is why a chunk passed on leaves `Through` as
it is. In the refinement a step of the reader, of the channels or of the client is a stutter.

**Gateway**, from `GatewayAssumption` only: any number of slots from one on, any set of request numbers,
even an infinite one, any traffic and any limits of retries.

| Theorem | Establishes |
|---|---|
| `Invariance` | `[]IInv` |
| `TypeCorrect`, `UpstreamNeverExceedsSlots` | `TypeOK`, `UpstreamBounded` |
| `RequestsKeepTheirPromises` | `RequestsKeepPromises`: `Spec` implies `Life(r)!LifeSpec` for every request |

`UpstreamBounded` speaks of streams, the queue of slots: `HoldersInside` says that whoever is inside
holds one (or panicked and took it along), `BodyFitsStage` that only who is inside has a stream open,
`SlotsSuffice` that the holders are at most `Slots`. `AnswerFitsStage` and `DeletionFitsStage` are what the
refinement needs; one fact was found by a proof that failed without it: an answer that was cut off
belongs to a client that is gone, so a stream that is resumed still has its reader. Steps of other
requests leave a request's life as it is (`OthersUntouched`).

**TokenStore**, from `TokenStoreAssumption` only: any callers (the name of a free mutex is not one of
them), accounts, rotations, kills and failed writes.

| Theorem | Establishes |
|---|---|
| `Invariance` | `[]IInv` |
| `TypeCorrect`, `NewestIsPresented`, `CrashRisksOnlyOneToken` | `TypeOK`, `NewestPresented`, `CrashRisksOneToken` |

Both properties look at a state between steps, and are not inductive because memory, configuration
and stores are written one after the other. `CarriedIsNewest` and `MemoryIsNewest` say that the newest
token of an account is in memory or in the hand of the caller that has the mutex; `ConfiguredIsMemory` what
the configuration, which is what gets written, differs in; `Stored` that a restart between two writes
reads what memory holds, with the token just saved in place of the one it replaces. `OnePerAccount` and `FilesExist`
exclude that a restart chooses another store than the last write.

**Conversion**, from `ConversionAssumption` only: any ids, tools and messages, histories of any length.

| Theorem | Establishes |
|---|---|
| `Invariance` | `[]IInv` |
| `TypeCorrect`, `NoResultOutOfTheBlue`, `NoResultLost` | `TypeOK`, `ResultsHaveTheirCalls`, `CallsHaveTheirResults` |

`TablesMatch` is the heart of `IInv`: the three tables say exactly which real ids the prompt shows calls of,
which of them mended, and under which name. The assistant's step keeps it because ids enter the tables and
calls the line by the same test (`TurnTables`; recording them before the test for offered tools is the
mutant that breaks it). A step leaves earlier lines and messages as they were (`PastKept`), so both
properties need to be shown of the new one only. `LeastNumber`, that a set of natural numbers has a least
element, is derived from the library's `WFMin`; `LastPlace` follows, for the name of the last call with an
id.

**ClientChunks**, without any assumption: any number of events, each with or without reasoning and
content, and any number of calls at the end.

| Theorem | Establishes |
|---|---|
| `Invariance` | `[]IInv` |
| `StreamsAreWellFormed` | `ChunksWellFormed` |

`ChunksWellFormed` counts roles only before content and calls, and says nothing of the flag: a step could
not be shown to keep it. `IInv` adds that the flag tells whether the role was sent (`RoleKnown`), wherever
in the chunks (`RoleOnce`, `RoleFirst`), and where everything stands once the answer has ended
(`EndedAfter`: so many chunks, then the calls in order, the reason, `[DONE]`), which turns the counts into
lengths of intervals. The theorem is about `ChunksSpec`; that the accumulator's steps are steps of it is
read off `ConsumeEvent` and `Finalize`, which have them as conjuncts, and the number of calls being a
natural number is left to `Accumulator`'s run.

**ToolParserStream**, from `ChunkAssumption` only: any set of pieces of any length and any number of them, so texts of
any length, cut anywhere.

| Theorem | Establishes |
|---|---|
| `TypeCorrect` | `TypeOK` |
| `ChunkingIsInvisible` | `ChunkingInvisible` |
| `OnlyMarkersAreWithheld` | `OnlyMarkersWithheld` |
| `CallsAreFound` | `CallsFound` |

All four speak about the whole text that has arrived, while a step of the parser sees only what it held back
and one piece. The bridge is `SplitJoined`: splitting a text and then more text is splitting what the first
split left over together with what comes, unless the text ends in the blanks of a marker. It rests on
`ClosedJoined` (the closed blocks of a text are those of its beginning, then those of the rest) and on
`FreeStaysFree`, `FoundAtEnd` and `CutOffBehind`, which say where a marker can appear when text is appended.
With it the invariants are:

* `Typed`: what is held back and the calls found are together no longer than what arrived, the bound in
  `TypeOK`;
* `Seamless`: as long as nothing was cut in blanks, the parser stands where one split of everything would
  have put it. This is `ChunkingInvisible`, and says in addition that the text does not end in such blanks
  now, which is the hypothesis of `SplitJoined`;
* `Withheld`: what is held back is a piece of a marker or a block that has begun; of a text in which no
  block begins, what is shown and what is held back are the whole until `Flush`;
* `Settled`: after `Flush` there is a call exactly if the whole text has one in a closed block or in one
  that broke off, and a text without fences was never cut in the blanks of a marker.

`CallsFound` then compares that with the other parser, form by form (`ItemsFound`, `CodeFound`). Closed blocks
hold the same for both. In the block that breaks off the stream repairs an object that is not balanced, so there
the theorem is not an equivalence: what it finds is what the other finds, or `BreaksOffInObject`.

`ClosedBlocks` and `CodeCalls` are recursive functions over an infinite set of texts. That they have values
at all is not granted: `RecursionExists` builds, for a function in which each text depends on a shorter one,
the approximations up to each length, from `LeastNumber` (the library's `WFMin`) in place of the induction
theorems. The equations `ClosedBlocksEquation` and `CodeCallsEquation` follow, and proofs over texts go by a
text of least length for which the claim fails (`TextInduction`).

The proofs changed two of the four statements (section 2, *ToolParser*). `ChunkingInvisible` had held because no
piece of the run ended in the blanks of a marker; now such pieces are in the run and the exception is in
the property. The second half of `CallsFound` was true of the texts the run was long enough for and false
of longer ones; `BlocksApart` is what the proof lacked.

Only model-checked: everything under fairness (liveness is out of the prover's reach), and the properties of
`Accumulator` and `ImageAnswer`. These compare what was sent with parts that grow by fragments and
snapshots, joined by folds over sets of parts that take operators as arguments, and what such a fold
computes is induction over data.

## 5. Not modelled

* Deletion and attachments beyond when they are started: calls of the modelled failover loop with no
  preferred account (`NoPreference`), and otherwise formatting and I/O.
* The download of base64 images: one step of `Gateway!Finish`.
* Event screening and response preparation: stateless verdicts, which are inputs here (`error` events,
  failing operations).
* In the conversion: the text (annotations, prompts, inferred paths) and how arguments are mended.
* HTTP middlewares, configuration other than refresh tokens, argument repair, prompts, path
  inference, logging: pure functions or formatting.

## 6. Plan

Done, in the order of importance: the queue (what limits the load on GLM), one stream over it, the
accounts, the tokens on disk, the parser and the accumulator inside the stream; then the gateway that
composes streams, images and the process over the queue's contract, the abstract life of a request
that stream and gateway both implement, the images, and the conversion of histories.

The proofs, in the order of the components: queue and failover first, then the gateway, the token store, the
chat stream, the conversion and the chunks, and last the parser of the stream. With them the safety of every
component that has concurrency, failures or tables to keep is proved for all values.

What is left:

1. The deltas of `Accumulator` and the image answer stay with TLC. Their parser and their chunks are proved
   (`ToolParserStream_proofs`, `ClientChunks_proofs`); what remains are the parts in `translator.go`, whose
   folds would have to be restated as functions over positions, as the parser's loops were.
2. The hazards of PROJECT.json without a property are limits of what is modelled (the environment and
   `.env`, growing code parts, URLs of later messages) or faults the properties leave out because nothing in
   the repository says otherwise (a cut in the blanks of a marker, a resumed stream that breaks before its
   first id), and stay listed there.
