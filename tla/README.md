# TLA+ models of CosmJS

CosmJS is a set of TypeScript packages to talk to Cosmos SDK blockchains, and this
repository adds a token faucet that is built on them. The code runs in one thread;
what makes it hard is what happens between two `await`s: other calls, timers, events
of sockets, answers that come late or never, and a PostgreSQL connection shared by
all requests. The modules in this directory model those parts; TLC checks them on
small instances and TLAPS proves the most important theorems for all instances.

## 1. Inventory

| Part (packages/...) | State | Operations | Interacts with |
| --- | --- | --- | --- |
| `socket` SocketWrapper, StreamingSocket | native socket, `connected` promise, connection timer, `closed`, event listener | connect, send, disconnect; open, error, close, timeout | owner by callbacks and an event stream |
| `socket` QueueingStreamingSocket, ReconnectingSocket | queue, `isProcessingQueue`, `connectionStatus`, `unconnected`, `disconnected`, `timeoutIndex`, reconnect timer | connect, disconnect, queueRequest, processQueue, reconnect, status listener | creates StreamingSockets, replaces them |
| `tendermint-rpc` HttpBatchClient | interval timer, queue, outstanding batches, promises | execute, tick, reply, HTTP error, disconnect | JSON-RPC server over HTTP |
| `tendermint-rpc` WebsocketClient, `json-rpc` JsonRpcClient | streams by query, pending `firstEvent` promises | execute, listen, disconnect | ReconnectingSocket |
| `tendermint-rpc` Comet38/37/34Client | none; loops over pages | one method per RPC call, `...All` | RpcClient |
| `stargate` StargateClient, SigningStargateClient | `timedOut`, timer and poll loop of each call of broadcastTx | signAndBroadcast, sign, broadcastTx, broadcastTxSync, getTx, queries | CometClient, signer, node |
| `cosmwasm-stargate` | code cache; loops over pages | the same with wasm messages | as stargate |
| `faucet` DatabaseService | one `pg` connection; tables requests, email_verifications | saveRequest, createEmailVerification, verifyOTP, autoVerifyEmail, isEmailVerified | PostgreSQL |
| `faucet` Faucet, Webserver, start | credit counter, cooldown map, refill interval | /credit, /email/..., refill | database, SigningStargateClient, Mailchimp, Zapier |
| `faucet` jobs | flag `mailchimp_synced` | nightly sync, upsert | database, Mailchimp |
| `stream` | queues of concat, last values | concat, firstEvent, toListPromise, ValueAndUpdates | xstream |
| `ledger-amino` | connection to one device, accounts once known | getAccounts, signAmino, showAddress | device and its user |
| `stargate`, `amino` messages and signing | none that outlives a call | Amino JSON converters, sign documents, assembly of transactions, fees, multisig | wallet, chain |
| `proto-signing`, `amino` HD wallets | mnemonic, seed, accounts | generate, fromMnemonic, serialize, deserialize, getAccounts | `crypto` |
| `crypto`, `encoding`, `math`, `utils`, `faucet-client`, `cli` | none that outlives a call | conversions, keys, arithmetic | - |

What is hard, and what makes each part correct:

* **Socket stack.** Sends that fail while others run, closes of sockets that were
  replaced, timers that outlive their purpose. Correct: no request lost, duplicated or
  overtaken; one live connection; a status that is true; a reconnect after every loss;
  nothing after disconnect().
* **RPC clients.** Replies that are late, reordered, repeated or incomplete. Correct:
  every promise settles once, with its own answer, and all settle if the server answers.
* **Signing client.** The sequence read before signing is stale when used; a submission
  may be lost, late, or accepted and forgotten; the timeout races the inclusion.
  Correct: what the caller is told is true, and every call ends.
* **Faucet database.** Transactions of concurrent calls on one connection. Correct: each
  call is atomic, codes verify the address they were sent to, what was reported saved
  is saved.
* **Faucet.** Cooldown checked before an await and set after it, tokens sent before they
  are recorded, refills that overlap, flags set by the wrong audience. Correct: one credit
  per address and cooldown, "ok" means paid and recorded, distributors refilled and not
  overfilled, who opted in gets on the list.
* **Streaming client.** Subscriptions that are stopped and started again, connections that
  drop between request and response. Correct: answers match, events come once and in order,
  client and node agree on what is subscribed.
* **Signing.** A message is converted to JSON for the signer and back for the chain, which
  renders the JSON once more. Correct: all three agree, and the chain executes what was
  signed.
* **Loops, ledger, concat.** Pages that shift while the chain grows; a device that changes
  between a check and its use; sources that complete while others are buffered.
* **Wallets and wire formats.** A wallet must come back from its serialization with the same
  keys; times, signatures and headers must mean the same in each of the forms they pass.

`PROJECT.json` lists every component, every hazard at its line with the properties that
would catch it, and the lines each definition models.

## 2. Modules

```
SocketWrapper <--- ReconnectingSocket ---refines---> Outbox
MCHttpBatchClient ---> HttpBatchClient ---refines---> RpcCalls
MCWebsocketClient ---> WebsocketClient ---refines---> RpcCalls
TxClient ---refines---> TxReports <---uses--- Faucet <--- MCFaucet
MCFaucetDatabase ---> FaucetDatabase ---refines---> FaucetRecords
MCParts ---> FaucetRefill, StreamConcat, Pagination, LedgerSigner,
             AminoSigning ---> MsgConverters ---> Decimals,
             Fees ---> Decimals, Multisig, HdWallet, WireFormats ---> Decimals
Decimals, Multisig, HdWallet ---> Numerals
```

`X_proofs` holds the theorems about module `X`; `MCParts_proofs` holds those about
the nine parts, `FaucetRefill`, `LedgerSigner`, `StreamConcat`, `Pagination`, `Fees`, `Multisig`,
`HdWallet`, `AminoSigning` and `WireFormats`, and what they mean for the behaviours of
`MCParts`. `Decimals_proofs` holds the lemmas about digits, powers and sequences that they share.

### SocketWrapper, ReconnectingSocket, Outbox

`SocketWrapper` is one StreamingSocket with its SocketWrapper and native WebSocket, as a
record: `native` is the readyState, `held` says that `this.socket` is set, `wired` that its
handlers have not been replaced, `timer` that the connection timeout is armed, `writes`
are the sends whose callback is outstanding. The operators `WrapperConnect`, `OnOpen`,
`OnError`, `OnClose`, `OnTimeout`, `WrapperDisconnect`, `WrapperSend` are the methods and
handlers of `socketwrapper.ts`.

`ReconnectingSocket` has all StreamingSockets ever created (the last one is the current
one), since an old one may still report its end. An action is one turn of the event loop:
a handler with the promise reactions that follow it. `processQueue` is cut at its await:
`ProcessQueue` enters it, `QueueLoop` runs from the head of the loop to the next send,
`SendSucceeds` and `SendFails` are the two continuations. `UpdateConnecting/Connected/
Disconnected` are the status listener of `ReconnectingSocket`, which runs inside
`update()`. `Outbox` is the abstract queue: requests are taken in order and handed over at
most once.

### HttpBatchClient, RpcCalls

`queue`, `timer` and the outstanding `batches` are the state of the class; `outcome` is the
promise of each call and `answerOf` the call that the settling element was about.
`Execute` pushes and, at the limit, ticks inside the same action; `Tick` is the interval;
`Response` walks a reply in order as `forEach` does, with `batch.find` and the exception
that a garbled element raises; `HttpError` rejects by id. The server is external: an honest
one answers every element in any order, a faulty one (`faulty`) may omit, repeat, invent
and garble elements. `RpcCalls` is what every RPC client promises.

### TxClient, TxReports

An action is the code between two awaits: `SignAndBroadcast` (the account answered),
`Sign` (signature there; timer started; submission sent), `CheckTx` (the node's answer to
the submission), `GetTx` (the answer of one poll), `Timeout` (the timer's callback),
`RequestFails` (a query, the signer, the submission or a poll fails). A submission whose
connection failed stays in `transit` and may still reach the node. The node is external: it
checks the sequence against latest block and mempool, executes the mempool in order and
may restart with an empty one. Each call is taken to sign a transaction with bytes of its
own (equal messages signed with an equal sequence would be one transaction to the node).
`TxReports` is the promise in the documentation of broadcastTx.

### FaucetDatabase, FaucetRecords

`FaucetRecords` has each call of `DatabaseService` as one atomic step on the tables.
`FaucetDatabase` executes them statement by statement on the one connection: `pc[p]` is
the statement that call p awaits, `txn` and `base` are the transaction of the connection as
PostgreSQL keeps it (BEGIN inside a transaction and COMMIT outside one only warn, a
failed transaction accepts only its end). `load` chooses which calls are made and how many
may overlap.

### WebsocketClient

One action per entry point (`Execute`, `Listen`, `Leave`, `Disconnect`), per step of the
socket (`Open`, `Write`, `Drop`) and per message that arrives (`DeliverAnswer`,
`DeliverReply`, `DeliverEvent`, `DeliverGarbled`). `groups` counts the subscriptions of an
`RpcEventProducer` in groups of three, as `connectToClient` makes them: `Stop` leaves them in
place, so a second start adds a group. The socket is reduced to what `ReconnectingSocket`
shows to its users: a queue that outlives connections, a status, and `stuck` for the
`isProcessingQueue` of the finding below. The node answers requests of one id in order,
others in any order, and forgets subscriptions when a connection ends.

### Faucet

The /credit handler from await to await: `Credit`, `EmailChecked`, `TokensChecked` (which
sets the cooldown and takes the next distributor), `Sent`, `Saved`, `Listed`, `Subscribed`,
`Notified`. Sending is what `TxReports` promises: the variables `executed` and `report` are
those of that module, and `Sent` takes its steps, so the late execution of a transaction that
was given up is part of the model. A database call is atomic here; what shared transactions
do to it is the subject of `FaucetDatabase`. `SyncStart` and `SyncNext` are the nightly job.
`Restart` ends the process at any await.

### The parts of MCParts

`MCParts` runs one of nine parts in each behaviour; the variable `part` says which.

* `FaucetRefill`: `Faucet.refill` from await to await, for runs that overlap because the
  interval does not wait. `late` are transactions that a run has given up.
* `StreamConcat`: `concat()` and its listeners, one after the other; `Flush` is one turn of the
  loops in the complete handler, so that the listener can be watched between two events. The
  state is the closure's, which outlives a listener: `subscriptions` counts the live handlers of
  each source, because a source that fails while `start()` subscribes leaves it to go on
  (concat.ts:62) with handlers that nobody keeps from the next listener. What is assumed of xstream:
  it passes itself to `start()`, so that a late handler reaches whoever listens now; after an error it
  stops the producer and drops its listeners before it tells them; a second handler of a source
  does not start the source again; an exception of a handler ends the program (`crashed`).
  Phase `cut` is a listener that comes back while it is told of the error: the `reset()` of line 90
  runs after that `start()` and takes its subscriptions away.
* `Pagination`: an action is one turn of a loop, with the node's page; `Block` lets the chain
  grow between two pages. `Ascending` sorts as `Array.sort` does, keeping the order of equals.
* `LedgerSigner`: an action is one command to the device and the code up to the next one.
* `MsgConverters`: for each message type its fields and for each field a codec, with `ToJson`
  and `FromJson` as the converters do it and `ChainJson` as the chain does it. A field that
  a converter only renames is a plain value. `AminoSigning` takes a message through both
  kinds of signer to the chain.
* `Numerals`: powers, the number that digits stand for and the digits of a number, to any
  base. Bytes, bit arrays, words of a mnemonic and decimals are made of them. They are recursive
  functions, which the provers can unfold.
* `Decimals`, `Fees`: `Decimal` as digits before and after the separator; a gas price is
  typed, parsed, printed, parsed again, and makes a fee.
* `Multisig`: the key, the signatures as they come in, bit array and transaction, and the
  chain's verification. An address is a bech32 prefix and a key; `signatures` are the addresses in
  the Map and `prefix` is that of the first one that was put in, under which members are looked up
  (multisignature.ts:38).
* `HdWallet`: a wallet is generated or restored, then serialized and deserialized in turns.
  Entropy, words and checksum are bits as in the code, with words and bytes of fewer bits
  (`WordBits`, `ByteBits`); the hash is any function of the bytes; a path is its components, the
  hardened ones from `Half` on. The seed is the pair of words and BIP39 password.
* `WireFormats`: a value starts in one form and changes it in every way the code can, forth
  and back: times (RFC 3339 text, `DateWithNanoseconds`, seconds and nanos, uvarints),
  signatures (DER, `Secp256k1Signature`, 64 bytes) and headers (fields, Merkle tree).
  `Meaning` is what each form stands for by its own standard.

## 3. What the runs check

| Run | Instance | Shows |
| --- | --- | --- |
| `socket` | 3 requests, 2 faults, 1 disconnect | Requests conserved (`RequestsConserved`, `ImplementsOutbox`), fresh ones in order, one live connection, true status, a timer whenever disconnected, reconnects (`EventuallyConnected`), requests queued before connect() written |
| `socket_idle_queue` | no fault | violated: `QueuedIsWritten` (finding) |
| `socket_disconnect` | no fault, 1 disconnect | violated: `NoConnectAfterDisconnect` (finding) |
| `http_batch` | 3 calls, limit 2, both servers | Queue below the limit, each call sent once, none stranded, answers match, `RpcCalls`, all settle |
| `websocket` | five mixes of at most 2 calls, 2 starts of a stream, 2 events, 2 faults | Answers match (`ImplementsRpcCalls`), events once and in order, client and node agree on subscriptions, only calls lost with a connection hang |
| `tx_client` | 3 calls, 1 account, 2 faults | Callers are told the truth (`ImplementsTxReports`), calls that do not overlap are never refused for their sequence (`AloneIsAccepted`), every call ends (`EveryCallSettles`) |
| `faucet_db` | workloads of 3 to 5 calls, 1 or 2 at a time, failures | One at a time, calls are atomic (`AtomicCalls`); overlapping, no transaction is left open, a failed one ends, no code is verified that was not presented |
| `faucet_db_lost` | a saved request beside a failing call | violated: `SavedIsRecorded` (finding) |
| `faucet` | 2 requests, 2 distributors, 1 fault, 1 restart | Answers are true (`AnswersAreTrue`), an address is paid twice in a cooldown only by requests that overlapped (`CooldownUnlessRaced`), who opted in is listed, every request is answered |
| `parts` | see below | `OverfilledOnlyByOverlap`, `RefillServesLow`; `ConcatIsFaithful`; `PagesAreComplete`, `LoopsEnd`; `SignaturesAreChecked`; `SignedIsExecuted`; `FeeIsExact`; `MultisigAccepted`; `RestoredIsTheSame`; `FormsAgree` |
| `search_from_page` | 5 results, pages of 2 | violated: `SearchesFromPage` (finding) |
| `votes` | all messages | violated: `VotesAreAccepted` (finding) |

**Bounds.** Three requests let one send fail, one be in flight and one be queued; two
faults let a reconnect fail again and two sends fail in one connection. Two calls fill a
batch of two and the third waits for the interval. `MCLimits` puts two calls beside each
other, a call beside a stream, and a stream through two starts, each with the faults that
touch it. Three transactions for one account have all overlaps of two and a third that comes
when they are over; more accounts only add independent copies, because the node checks
sequences by account. Two overlapping database calls are the smallest number that shares a
transaction; the workloads put every kind of call beside the ones that touch the same rows.
Two requests to /credit are the smallest number that can race for a cooldown. In `parts`, two
runs of refill overlap on two distributors with four refills' worth of credits; concat has
three sources, so that a middle one completes before and after its neighbours, and any number of
listeners, so that handlers of an earlier one are met by the next; five results
on pages of two have a full page, a partial page and a page that does not exist, and can grow
by one in each of three blocks; two calls share a Ledger while the user switches once; every
field of every message takes every value that its codec tells apart, with one digit after
the separator (`DecDigits`) where the code has 18; gas prices have up to two digits and one
too many; multisig keys have 1, 8 or 9 members, the sizes where bytes begin and end, and the Map holds
any of nine addresses under one prefix, members and others, and two under another, in any order. Words of
3 bits and bytes of 2 keep the proportion of a mnemonic (32 bits of entropy to one of checksum
become 8 to one), with mnemonics of one and of two units, and paths have the first and the
last index of both halves. Times have one digit of milliseconds and two below them, seconds
before, at and after 1970 and on both sides of the limit of shifts (`IntBits`); signatures have
integers with and without leading zeros and high bits; headers have 1 to 17 fields (14 in the
code), so that every shape of the tree occurs. The
constants named `Max...`, `Limits` and `Workloads` and, in `parts`, `Prices`, `KeyLists`,
`Thresholds`, `Addresses`, `Entropies`, `TypedWords`, `HdPathLists` and `Passwords` are the bounds; the values of
the latter are the `MC...` definitions of `MCParts`.

**Deadlock** is not checked in any run: all of these systems may come to rest.

**Fairness.** JavaScript runs every callback that is due: timers that are armed fire
(`Reconnect`, `Tick`, `Timeout`, the interval of refill, the nightly job), a connection
attempt that meets no fault opens or times out, callbacks of sends and close events come,
requests are answered or fail, and the database answers. The device answers a command, and
the chain executes a transaction of the holder that is in the mempool
(`FaucetRefill!ExecuteLate`, `Work`). Nothing forces a fault, a call of the application, a
growth of the chain while pages are read, or the server to send anything beyond its answers.

**What the properties leave out on purpose.** Some properties hold only with an exception
that the code makes; each exception is named in the property.

* `EventuallyConnected` speaks of processes that go on: `reconnect()` attaches no rejection
  handler to the promise it derives from `connected` (queueingstreamingsocket.ts:80), so
  under Node.js an attempt to reconnect that times out may end the process (`crashed`). It
  does not speak of clean closes either, which the code does not reconnect after.
* `OnlyLostCallsHang`: a call whose request or answer went down with a connection is never
  settled (websocketclient.ts:172), and after a reconnect nothing is subscribed again.
* `EventsOnceInOrder`: a stream that was started twice delivers events twice
  (websocketclient.ts:61).
* `CooldownUnlessRaced`: requests that await the available tokens together are all paid.
* `OptedInIsListed`: a row that the product audience has flagged is skipped by the nightly
  job when its newsletter entry failed (mailchimp.ts:62).
* `AtomicCalls` speaks of calls that do not overlap: two overlapping requests for a code
  leave two open codes (database/index.ts:93).
* `LoopsEnd` excludes getCodes at a node without pagination (cosmwasmclient.ts:344).
* `SignedIsExecuted` excludes contract messages with numbers beyond 53 bits, which
  `JSON.parse` rounds before an Amino signer sees them.
* `ConcatIsFaithful`: order, completeness and the end hold for every listener but one that comes
  back while it is told of a failure, which is cut off (concat.ts:90). That no event comes twice
  and that no handler throws or outlives its listener hold unless a source failed while `start()`
  still had others to subscribe (`leftOver`): their handlers deliver to the next listener too, or
  push to a queue that is gone (concat.ts:62, 69), until somebody leaves, is through, or is told
  of another failure.
* `MultisigAccepted` counts the signatures under the prefix of the first address in the Map. If
  somebody else's signature under another prefix was put in first, the members' signatures are not
  found and the chain refuses the transaction (multisignature.ts:39).
* `RestoredIsTheSame`: a wallet with a BIP39 password comes back without it, since it is not
  part of the serialization (directsecp256k1hdwallet.ts:214), and one without paths does not
  come back, since the prefix is read from its first account.
* `FormsAgree`: fractions of a second before 1970 (the remainder is negative,
  encodings.ts:165), nanoseconds of a time whose zone is not spelled "Z" (dates.ts:17), and
  seconds from 2^31 on, that is from 2038, which `>>` takes for negative when a header is
  encoded (encodings.ts:156).

## 4. What is proved

`HttpBatchClient_proofs`, for every set of calls, every limit and both servers:

* `TypeCorrect`, `QueueStaysBelowLimit`, `SentOnce`, `AnswersAlwaysMatch`,
  `NothingStranded`: the type invariant and the four safety invariants of the run.
* `Refinement`: the client implements `RpcCalls`.

The inductive invariant is the conjunction of these invariants: a tick takes the whole queue
because the queue stays below the limit; a call in a batch is not in the queue because a
call is pushed only when it is idle; a reply settles calls of its batch only because ids are
unique (`UniqueIds`, assumed as in `json-rpc`'s `makeJsonRpcId`).

`TxClient_proofs`, for every number of calls, accounts and faults:

* `TypeCorrect`: the type invariant.
* `AloneAccepted`: `AloneIsAccepted`, a call that overlaps with no other of its signer and is
  disturbed by no fault is not refused for its sequence.
* `Refinement`: the clients with the node implement `TxReports`.

The inductive invariant adds `Fate`: a transaction is in transit, in the mempool (once) or
executed, never in two of these places, and the stage of its call fits the place. It is
needed because "a refused transaction is never executed" is not inductive: it rests on the
refusal being the answer to the only submission, which has left the network by then.
`Crowding` carries `AloneIsAccepted`: two pending calls of one signer are both marked as
crowded, so that nothing moves the sequence that an uncrowded call has read; the argument
counts the transactions of a signer in the mempool.

`Faucet_proofs`, for every set of requests, addresses and distributors, every number of
faults and restarts:

* `TypeCorrect`; `TrueAnswers`: `AnswersAreTrue`; `CooldownHoldsUnlessRaced`:
  `CooldownUnlessRaced`.

`StagesTrue` ties each await of the handler to chain and table (a request that is about to
be saved has been paid, one that still checks has no transaction), which the answers follow
from. `Entries` says that a payment of the current period keeps its cooldown entry, and
`Overlaps` that whoever is still checking when the entry is made overlaps with the payer.
The induction splits the steps into `Calm` ones, which touch neither, and `Eventful` ones.

`FaucetDatabase_proofs`, for every workload, however its calls overlap:

* `TypeCorrect`; `EveryTransactionIsEnded`: `NoDanglingTransaction`;
  `OnlyPresentedCodesAreVerified`: `VerifiedByItsCode`; `CallsAreAtomic`: `AtomicCalls`, calls
  that never overlap have the effect of the atomic steps of `FaucetRecords`.

A rollback turns the tables back, so `AllEarned` says what it says of the tables and of what
a rollback restores; it ties a row to its call being at a COMMIT that reports no error.
`Labels` ties the statement at hand to the kind of its call. For `AtomicCalls`, `OneAtATime`
says that without overlap only one call is between its statements, and `Halfway` what its
statements so far have made of the tables it found at BEGIN; `Effect` is what the last one
then amounts to.

`ReconnectingSocket_proofs`, for every number of requests, faults, disconnects and sockets:

* `TypeCorrect`; `NoRequestLost`: `RequestsConserved`; `ReconnectIsScheduled`:
  `DisconnectedHasTimer`; `StatusIsTrue`: `StatusMatchesSocket`; `OneConnection`:
  `OneLiveConnection`; `FreshInOrder`: `FreshRequestsInOrder`; `Refinement`: the stack
  implements `Outbox`.

`RequestsConserved` is inductive together with the types of the wrappers. `Conserved` is
its pointwise form for any sequences, so that each of the methods of a socket is one lemma
and the actions put them together. `Moves` says what a step does to all requests at once,
from which the refinement follows. `Truthful` says that every socket but the last is over and
what the last one may look like at each status. `Ordered` says that only the last socket has
sends outstanding, and that written, outstanding and queued requests are in the order of
their making. Neither survives the reconnect that `disconnect()` schedules (see Findings),
so both are kept under `Undisturbed`, until the first `disconnect()`.

`WebsocketClient_proofs`, for every set of calls and streams and every number of faults:

* `TypeCorrect`; `Refinement`: the client implements `RpcCalls`; `EventsInOrder`:
  `EventsOnceInOrder`; `NodeAgrees`: `SubscriptionsAgree`.

`Unanswered` (a pending promise has no answer) carries the refinement. `Ordered` extends the
order of what a listener has seen to the messages on their way to it and to what the chain
has published. `Agreement` follows subscribe and unsubscribe requests on their way, since client
and node need not agree while one is in the queue or its answer outstanding.

`MCParts_proofs`, for every instance of the nine parts. Each theorem about a module is
followed by one that states the property of the behaviours of `PartsSpec`, as the run checks
it.

* `TypeCorrect`, `OverfillNeedsOverlap`, `OverfillOfThePart`: `FaucetRefill` with
  `OverfilledOnlyByOverlap`, for every threshold, amount, set of distributors and of runs.
* `OnlyCheckedSignatures`, `SignaturesOfThePart`: `SignaturesAreChecked`.
* `ConcatDelivers`, `ConcatOfThePart`: `ConcatIsFaithful`, for any number of sources and events,
  any listeners one after the other, and any failures.
* `PagesCollectAll`, `PagesOfThePart`: `PagesAreComplete`, for any page size and any growth of
  the chain.
* `FeesAreExact`, `FeesOfThePart`: `FeeIsExact`, for any price, gas and number of digits.
* `MultisigsAreAccepted`, `MultisigOfThePart`: `MultisigAccepted`, for any number and order of
  keys, any threshold, and any addresses in the Map.
* `WalletsAreRestored`, `WalletOfThePart`: `RestoredIsTheSame`, for any lengths of mnemonics, any
  paths and passwords, any hash, and any widths of words and bytes that fit each other.
* `SignedMessagesAreExecuted`, `SigningOfThePart`: `SignedIsExecuted`, for all message types, both
  kinds of signer and any number of fractional digits of decimals, so for all decimals up to 2;
  of the other fields it speaks of the values that the converters distinguish (`Values`).
* `FormsMeanTheSame`, `FormsOfThePart`: `FormsAgree`, for any times, for signatures of any two
  integers that fit, for headers of any number of fields, and any widths of digits, bytes and
  shifts that fit each other.

*Refill.* That a balance is below threshold plus refill is not inductive. `Single` adds why a
refill is added to a low balance only: a distributor that was never raced has at most one
refill underway, and stays as low as it was found while it has one.

*Ledger.* `LedgerChecks` carries the version that a call has read over the two commands between
it and the signature, and `LedgerKeys` says that what is collected are the keys of the first
paths, in order.

*Concat.* `ConcatInv` says what each phase leaves of the closure. While it runs (`Running`), what
the listener got and what each queue holds `Ascends`, a queue comes after what was passed on
(`Queued`), and every event of a source is in one of the two (`NoneLost`); so a source up to the
active one, whose queue is empty, has reached the listener. `Precedes` lets an event come twice
only when `leftOver`: a source then has more handlers than one, and `EmitRuns` adds as many copies
of an event. `Broken` is the state after a failure: the first source is never subscribed again, so
a handler that is still subscribed after it is not the active one and throws (`BrokenStays`).
`PassRuns` and `AdvanceRuns` are the two loops of the complete handler, so that `Flush` needs them
only in turn.

*Pages.* `PagesInv` says that after a turn the collected entries are the first
`PageSize * (page - 1)` of the order asked for: a search in ascending order sees the list grow
at its end, and one in descending order stays complete only while the chain does not grow, the
exception that the property makes too. `NextPage` is the arithmetic of one page, and `SortsUp`
and `SortsDown` say what the final sort makes of such a list.

*Digits.* The next three rest on what recursive functions compute for every input. Such an
induction needs no operator as a parameter when it is about a set: `LeastElement` says that a
set of naturals has a least element, `Induction`, `InductionTo`, `StrongInduction` and
`SequenceInduction` follow from it for sets of naturals and of sequences, and `Recursion` and
`Agreement` give a recursive definition its value. `Decimals_proofs` proves with them, for any
base and length, that `Number` and `Numeral` undo each other (`NumeralIsNumeral`, `NumberBelow`,
`HasDigits`), that a digit is the remainder of a quotient (`DigitAt`), that a parsed decimal is
what its text says (`ParsedValue`), and that printing and parsing give it back (`PrintedParses`).

*Fees.* `FeesInv` says that the price in memory is what was typed to the last digit (`ExactPrice`),
also after a copy; `CeilPrinted` and `SameFee` are the rounding.

*Multisig.* `Assembled` says that the transaction has the bit array and the signatures of what was
found in the Map; `BitsAreMarks` reads a bit out of its byte again, and `SignersCounted` goes through the keys
as both sides do: after k keys the number of bits that are set is the length of the list.

*Wallet.* `NumbersOfBits` and `BitsOfNumbers` regroup bits without loss, from which
`WordsOfEntropy` and `EntropyOfWords` follow: a mnemonic has one entropy, and is what it encodes
to. `WalletInv` says that an open wallet holds the words and the accounts of its options, and a
document what the wallet held; `PathsAreRead` is the round trip of a path.

*Signing.* `AminoInv` says what each step of signing has in hand: the document shows the JSON of
the message, what is signed has the messages and the timeout of the document, and the Amino
transaction is made of what the signer returned. What remains is that the converters agree with the chain, which is
shown for each codec on the set of its values and carried to the fields and the messages; the
decimal codecs need the lemmas about digits.

*Forms.* `WireInv` says what the data of each form are, given the form in which the value came in.
*Times* (`TimesInv`): every form is that of the seconds and of one fraction of them;
`TextIsRead` and `TextIsPrinted` split the digits of the fraction into milliseconds and
nanoseconds and join them again, and `UvarintOfEncoded` follows the groups of bits of a number
that shifts do not take for negative. *Signatures* (`SignaturesInv`): the DER is well formed
and its integers, trimmed, are those that came in. That is stronger than the property, which only
compares numbers: it is what makes `fromDer` accept what `toDer` wrote. `DerLayout` and
`DerIsRead` are the layout of DER, `PositiveBytes` the zero before a high bit, `TrimOfPadded` the
zeros that are trimmed. *Headers* (`HeadersInv`): `NodesSplit` says that the blocks of RFC 6962
over n fields are the whole, the blocks of the fields up to the split point and those of the
rest, from which `TreeIsNodes` follows for every n.

The proofs assume of the constants what their modules assume (`...Assumption`), which TLC
evaluates on the instances. For the parts these are that the numbers are numbers and a page has
room for an entry, that prices are made of digits (as the regular expression of
`GasPrice.fromString` demands), that members are named by the rank of their address, and
`WalletAssumption`: three words have one bit more than four bytes, and a hash is long enough
for the checksum. `AminoAssumption` says that decimals have fractional digits;
`WireAssumption` that a fraction of a second fits the integers of shifts, that times have no
more digits than `fromRfc3339` matches, and that signatures are DER of two integers that are
not zero and fit `IntegerBytes`.

**Only model-checked.** Liveness, which is beyond the prover: `EventuallyConnected`,
`PrequeuedIsWritten`, `EverySettles`, `FailedTransactionEnds`, `EveryCallSettles`,
`OnlyLostCallsHang`, `OptedInIsListed`, `EveryRequestAnswered`, `RefillServesLow`, `LoopsEnd`.
Every invariant of a passing run is proved. The type invariants are the other way round: they
are proved, and no run checks them again.

## 5. Findings

* `processQueue` leaves `isProcessingQueue` set when it finds the queue empty, so requests
  queued after an idle connect are never sent (`queueingstreamingsocket.ts:103`).
* `disconnect()` schedules a reconnect (`reconnectingsocket.ts:79`).
* A rollback of one call discards the record of another (`database/index.ts:38`).
* A search from a page other than the first fails (`comet38client.ts:288`).
* A weighted vote for one option cannot be signed in Amino mode: the weight 1 is rendered as
  `10000000000000000000` (`gov/aminomessages.ts:151`).

## 6. Not modelled

* **Adaptors** of tendermint-rpc and the query extensions of stargate and cosmwasm-stargate:
  they decode one value field by field; a model would repeat the list of fields.
* **crypto, encoding** below what `HdWallet` and `WireFormats` model: hashes, curves, ciphers,
  key derivation, text encodings and word lists are functions of byte strings whose
  correctness is beyond a model checker.
* **HttpClient, faucet-client**: one request, no state.
* **cli**, build files, generated code and vendored package managers, which make up more than
  half of the lines of the repository.
* In modelled parts: logging, /status and /export of the faucet, tags in Mailchimp,
  showAddress of the Ledger, the transaction signatures' own cryptography (a signature is
  valid for the document it was made for).
* `makeMultisignedTx` leaves `granter` and `payer` of a fee out of the transaction
  (multisignature.ts:65), and bank's `allBalances` reads the first page only
  (bank/queries.ts:38): both are facts of a single line, noted here for the reader.
* BEGIN, COMMIT and ROLLBACK of the faucet's database do not fail by themselves in the model; other
  statements do. The node of `Pagination` orders its pages by number; comet38client.ts:143 says
  that Tendermint may order heights as text, for which the sort of blockSearchAll is there.
* A request counts as sent when the callback of `send()` runs; whether it was delivered before
  the connection ended is not known to the queue (queueingstreamingsocket.ts:107), and
  `RequestsConserved` speaks of sent, not of delivered. `HttpBatchClient` starts its interval
  before `validate()` may throw (httpbatchclient.ts:53), so that a refused constructor leaves a
  timer behind; the models start after the constructor.
