# TLA+ models of the post-quantum gateway

`pq-server` is an HTTP gateway that encrypts, wraps and decapsulates with one
master keypair, which it keeps in a vault (OpenBao or Infisical). This directory
holds TLA+ models of its concurrent and distributed parts, the TLC
configurations that check them, and TLAPS proofs of the results that matter
most. Paths below are relative to the repository; `file.go:n` is line *n*.

Contents: [inventory](#the-system) · [modules](#modules) · [runs](#runs) ·
[findings](#findings) · [fairness](#fairness) · [proofs](#proofs) ·
[what is not modelled](#not-modelled) · [plan](#plan)

## The system

| Component | State it keeps | Operations | Interacts with | Hard behaviours | What makes it correct |
|---|---|---|---|---|---|
| Keypair bootstrap (`internal/crypto/factory.go`, `cmd/server/main.go`) | the keypair in memory; the vault's secret | load, generate, write once, read back, compare, self test | vault clients; other instances through the vault | instances racing on an empty vault, lost and late writes, crashes, restarts, operator deletions | one keypair per vault for life; an instance serves only what the vault holds |
| Vault clients (`internal/openbao`, `internal/infisical`, `internal/keystore`) | token, credentials | `FetchKeys`, `StoreKeys`, login, revoke | vault over HTTPS | a result made of two or three requests; deleted versions; historical layout; a failure between a login and the close of the client | tells "never written" from everything else; never overwrites; keeps no credential and no token |
| Key migration (`internal/keystore/migrate.go`, `cmd/server/keystores.go`) | two vaults | `Migrate` | both vaults, instances starting on the target | concurrent runs, partial failure, replays | success means same keypair; nothing overwritten; replay succeeds |
| Concurrency limit (`internal/api/concurrency.go`) | channel of slots, table of per-source counts | acquire, wait, refuse, release | request pipeline, client IP resolver | timeouts, departures, hand-off of a slot, panics | limits hold, nothing leaks, one source cannot block the service, bounded wait |
| Rate limiter (`internal/api/ratelimit.go`) | map, LRU list, token buckets | `Allow`, purge, eviction | request pipeline; a purge goroutine | clock read before the lock, bucket used after it, eviction, purge | map and list agree; order; the rate of a source holds |
| Server lifecycle (`cmd/server/main.go`, `listeners.go`, `limitlistener.go`, `tls.go`, `peercred_linux.go`) | listeners, connection slots, the file of the Unix socket, signals | accept, close, serve, shut down | every connection | `Close` against `Accept`, signal against listener failure, deadline of `Shutdown`, two processes on one path | connections bounded, no slot leaked, the process ends |
| Request pipeline (`internal/api/router.go`, `middleware.go`, `auth.go`, `request.go`, `clientip.go`) | one `requestInfo` per request | identify, authenticate, refuse, drain, recover | limiters, metrics, handlers | order of the middlewares, panic before or after the response starts, a header that clients and proxies both write | one answer per request, no handler without every credential, a source that a client does not choose |
| Metrics (`internal/api/metrics.go`) | atomic counters | observe, scrape | pipeline | counters incremented and read one by one | a scrape never invents a request; each request is counted once |
| Body limits (`internal/api/bodylimit.go`, `helpers.go`) | – | `OpenBodyLimit`, `readRequestBody` | handlers | int64 overflow, limit or limit + 1 | what `/encrypt` produces, `/decrypt` accepts |
| Handlers, binary format (`internal/api/handlers.go`, `binary.go`, `models.go`) | – | nine routes | engine, erasable memory | lengths taken from the input | a round trip returns the plaintext or an error |
| Crypto engine (`internal/crypto/engine.go`, `hybrid.go`, `hybrid_dual.go`, `transcript.go`, `aead.go`) | the keypair | seal, open, wrap, unwrap, encapsulate, decapsulate | handlers | context and version bound into the transcript, context at its limit | what was sealed under one context opens under that one only |
| Erasable memory (`internal/secmem`) | buffers | grow, read, wipe, strict JSON | handlers, vault clients | reallocation, error in mid-read | every array given up is erased |
| Configuration (`internal/config`) | settings | load, validate, wipe | everything | bounds of the numbers | guarantees what the others assume |
| Hardening, logging, probes, mock engine | – | system calls, output | – | – | – |

Interactions. The bootstrap and the migration meet in the vault only: their
processes share no memory. In one process, a request passes the middlewares in
the order of `router.go:87`: identity, authentication, content type, body limit,
rate limiter, concurrency limit, handler; the two limiters share nothing but the
source returned by `clientip.go`. The engine is immutable once built, so a
handler depends on the bootstrap by the keypair alone.

## Modules

| Module | Models | Variables | Actions |
|---|---|---|---|
| `Vault` | what a vault holds and answers, and what the clients make of the answers | none (operators) | – |
| `Bootstrap` | instances starting on one vault | `vault`, `wire`, `pc`, `req`, `key`, `err`; history `ever`; `faults` | one per vault request or local step |
| `WriteOnceKey` | the promise of the bootstrap, abstractly | `chosen`, `serves` | `Choose`, `Serve`, `Stop` |
| `Migration` | runs of `-migrate-keys`; extends `Bootstrap`, whose vault is the target | adds `src`, `mpc`, `mreq`, `mpair` | one per vault request |
| `VaultSession` | credentials and tokens of the two clients, from the environment to the end of the process | `env`, `held`, `client`, `live`, `trusted`; `setup`, `calls`, history | load, open, login, call, expiry, close, wipe |
| `ConcurrencyLimit` | the concurrency middleware | `pc`, `slots`, `inUse` | one per branch of the `select`s, `acquire`, `release` |
| `Pipeline` | the chain of middlewares and the counters; extends `ConcurrencyLimit` | adds `stage`, `status`, `panicked`, `todo`, `counter`, `toRead`, `page`; history | one per middleware that matters, one per counter moved or read |
| `RateLimiter` | the limiter and its purge | `clients`, `lru`, `entries`, per-request `pc`, `now`, `caller`, `held`; `purge`, `clock`; history | clock read, locked part, bucket, purge |
| `Server` | accept loops, connection slots, stop of the process | `acc`, `slots`, `done`, `open`, `conn`, `cut`, `freed`, `main`, `signalled`, `errs` | one per step of `Accept`, `Close`, `serve`, `Shutdown` |
| `SocketFile` | the file of the Unix socket under several processes | `pc`, `file`, `removed` | one per system call |
| `Access` | configurations accepted, listeners opened, who is let in, the source of a request | none (operators) | – |
| `Envelope` | what the handlers and the engine seal and open; extends `Access` | `deployed`, `callers`, `issued`, `answer` | one per operation |
| `Memory` | the arrays that hold the bytes of a request | `arr`, `chunk`, `doc`, `dst`, `req`, `left`, `leaked`, `pc`, `status` | one per read, field, engine call, chunk |
| `BodyLimit` | the arithmetic of the body limits | none (operators) | – |
| `BootstrapProofs`, `MigrationProofs`, `VaultSessionProofs`, `PipelineProofs`, `RateLimiterProofs`, `EnvelopeProofs`, `MemoryProofs`, `ServerProofs` | theorems | | |
| `MC…` | small instances | | |

How they compose: `Bootstrap` EXTENDS `Vault`; `Migration` EXTENDS `Bootstrap` and
conjoins its `Next` with unchanged migration variables (`BootNext`); `Bootstrap`
INSTANCEs `WriteOnceKey` under the refinement mapping of its last section, which the
migrations and the instances together refine too.
`Pipeline` EXTENDS `ConcurrencyLimit` and drives it by its own actions: that it
only ever takes steps of the limiter is the property `ImplementsLimit`, so what is
proved of the limiter holds inside the pipeline. `Envelope` EXTENDS `Access`, and lets in
the callers that `Access` lets in under a configuration it accepts.

Definitions commented "Faulty variant" are not part of any specification. Each is
a plausible bug of the definition after it; replacing that definition by it must
break the property paired with it (list `mutants` of `PROJECT.json`). They show
that the property depends on the code.

### Vault and Bootstrap

The unit of interleaving is one request to the vault. `FetchKeys` is up to three
of them: `req[p]` names the one the instance is at, and `FetchOutcomes` gives
the next request or the result, so another process may act between the GET of
the data and the GET of the metadata (`openbao/client.go:307-371`), or between
the two secrets of the historical Infisical layout
(`infisical/client.go:282-297`).

| Model | Code |
|---|---|
| `Start` … `FetchBlocked` | `buildEngineWithStore` (`factory.go:66-104`) |
| `StoreAccepted`, `StoreRefused`, `StoreFails` | `StoreKeys` with `cas=0` (OpenBao), `POST` (Infisical) |
| `Protect` | `protect` (`openbao/client.go:407-422`); its outcome is logged and decides nothing |
| `Reread` | the read-back and comparison (`factory.go:111-120`) |
| `SelfTest`, `SelfTestFails` | `selfTestEngine` |
| `LateWrite`, `Crash`, `Operate` | the network, the machine, the operator of the vault |

A read that reaches the vault and whose answer is used is one step: what the
client does with the answer touches no other process. A write is different: its
answer may be lost after it was applied, or it may be applied after its client
has given up, even after the client has restarted, so it waits in `wire`.

Assumption about the vaults, which are not in the repository: a write with
`cas=0` is refused when a version exists, deleted ones included (the OpenBao
client's comments and tests rely on it); Infisical refuses to create a secret
whose name exists. The fake server of `infisical/client_test.go:66-73` overwrites
instead, so the repository's tests do not exercise that assumption.

### Migration

`Migrate` reads the source, then the target, writes, reads the target back and
compares. `mpair` is what it read in the source and is not read again. Instances
start on the target at the same time: that is why the module extends
`Bootstrap`. The hardening of the target's metadata is not a step: it decides
nothing.

### ConcurrencyLimit

The slots are the buffer of a Go channel. `<-slots` in the deferred function
hands the slot to a blocked sender at once, if there is one, so `Finish` moves
two requests. The runtime wakes the oldest sender; the model lets it wake any,
which allows more. A request counts for its source until the deferred `release`,
hence also in `rejected`, while its body is drained after the 503. `perIPShare` is
4 in the code and the constant `PerIPShare` here, so that saturation happens with
few requests; the theorems hold for every value of it.

### RateLimiter

`Allow` reads the clock before it takes the mutex and calls the bucket after it
has released it, so a request has three steps (`ReadClock`, `Known` or `New`,
`Allow`) and its entry may leave the table in between. Entries have identities:
`clients` maps a source to one, `lru` lists them, `entries` is the heap. The
bucket (`golang.org/x/time/rate`) is external and modelled by its promise, whole
tokens that come with time. A request or the purge is at most `Skew` seconds
late: without such a bound nothing could be said of the order of the list. `Stop`
ends the purge goroutine at the end of the service and is left out.

### Server

| Model | Code |
|---|---|
| `Start`, `Notice`, `Deadline`, `End` | `serve` (`main.go:162-191`) |
| `TakeSlot`, `DoneSeen`, `Accepted`, `Retry`, `SocketFails` | `limitListener.Accept` (`limitlistener.go:26-38`) in the accept loop of `http.Server` |
| `CloseDone`, `CloseSocket` | the two statements of `limitListener.Close` |
| `GiveBack`, then `ConnClosed` or `CutDone` | the two statements of `limitConn.Close`, called by the goroutine of the connection (`CloseConn`) or by the server (`CutIdle`, `CutAny`) |

`http.Server` is not in the repository. `serve` relies on this of it: `Serve`
closes its listener when it returns and refuses to start during a shutdown;
`Shutdown` closes the listeners being served, waits for their accept loops
whatever the deadline, then closes idle connections one by one until none is left
or the deadline passes; `Close` closes all of them. So `Drain` is enabled only when
every loop that has started has ended, and `EndsWhenAsked` depends on the `done`
channel. A connection kept open between two requests is `idle`; one that has just
been accepted counts as active, which only makes the shutdown harder. The
identity of a closed connection is used again. The model is for a limit above 0;
without one (`MAX_CONNECTIONS=0`) there is no `limitListener`.

### Pipeline

| Model | Code |
|---|---|
| `Arrive` | the middlewares up to the body limit (`router.go:87-125`): refused with one of `FrontCodes`, or on to the limiters |
| `RateLimited`, `Enter`, `Wait`, `Reject`, `Leave` | the rate limiter's verdict, then the steps of `ConcurrencyLimit` |
| `Answer`, `Read`, `Return`, `Panic` | the handler; `Read` is a scrape that renders one counter |
| `Recover`, `Abort` | `RecoveryMiddleware`: 500 before the first byte, `http.ErrAbortHandler` after it |
| `Observe` | `Metrics.observe`: one counter per step, in the order of the code |

A counter is moved by one atomic addition and a page is made of one atomic read
per counter, so any number of requests may move counters between two reads. Three details of
the code show in the model: an aborted request is counted nowhere, because the
panic goes through `MetricsMiddleware`; a client that leaves while it waits is
counted with the status 200 although nothing was written (`Reported`); and a
refusal by a limiter moves two counters, its own and the one of its status, at different times.
Latency is a bucket chosen freely among `Bounds + 1`.

Three assumptions on the constants are facts of the code: a path has one series (`NewMetrics` keeps a map by
path), 429 and 503 are the answers of the two limiters and of nobody else (no handler sends them),
and the codes are finitely many numbers. `CodesSeen` is the sorted list of the codes of a path, stated by
what it is, the increasing enumeration of a finite set.

### Access and Envelope

`Access` is the chain `PeerIdentity`, `ClientCert`, `Token`, `RequireIdentity` as a
function from a request to a verdict, with the configurations `Validate` accepts
and the listeners they open. `Envelope` starts from each of them. Its
states are exchanges, not threads: the engine is immutable, so the order of requests cannot
matter beyond which envelope was issued before. `issued` is one envelope or agreement, `answer` the
answer to the last request; any caller may bring `issued` back, under any usage and context, whole
(`Honest`: also without its `kid`), without the name of its algorithm (`Unnamed`, in JSON), or
`Damaged`: another suite, version, key identifier, encapsulation or data.

Two details decide what the middlewares see. `openListeners` wraps every listener in a `limitListener` when
`MAX_CONNECTIONS` is above 0 (`Deployed`, field `limited`), and `net/http` sets `r.TLS` for a `*tls.Conn` only
(`SeesTLS`): the certificate is then neither asked for nor taken as an identity, whatever the handshake verified. And
`X-Forwarded-For` is a sequence of lines, of which `Header.Get` returns the first (`FirstLine`). `HandedOver` says how the
lines come about: what the client made up, the address the first proxy saw, then the proxies on the way,
either joined into one line by all of them (`joined`) or on a line added by each. A way through
proxies of both kinds is not modelled.

Primitives are ideal. A derived key is the tuple of everything its derivation
binds, the shared secret and the transcript; AES-GCM opens under the same key, nonce
and associated data only; ML-KEM rejects implicitly, so decapsulating a damaged key
gives another secret and no error. What is checked is thus what the code puts into
the transcript and the associated data, which checks it makes, and in what order.
Characters of a context are values of a small set (`Characters`); the `NUL` that separates identity and context
is one of them, and a first name of a certificate imitates "identity, NUL, context". `Names` are the sequences
without `NUL`: `validTokenName` and `printableIdentity` let no other name become an identity, which is
what `NamesAssumption` says of certificates and tokens.

### Memory and BodyLimit

An array is its capacity, its length and how many of its first bytes may hold a
secret. `leaked` becomes true when an array that is given up for another, or
returned to the pool, still holds one. `Read` is one call of `Read` on the body,
of any length the window allows; `Grown` is the reallocation of `Buffer.Grow` or `ReadAll`; `Field`
is one turn of the loop of `DecodeStrict`; `SealRequest`, `OpenRequest` and `GenerateKey` are
the handlers around the engine; `TakeChunk`, `WriteChunk` and `SendBuffer` are the two ways to answer. The
client may stop sending or receiving at every step.

`doc` is what was sent and `dst` what the handler was given: `OneReading` compares
them. Names and values are classes (exact, escaped, in another case; a string of a length, an escaped string, a
number, null, …), not characters.

Sizes are scaled down: `TailSlack` is 16 in the code, `MinReadChunk` 512 and the streaming
threshold 16384. What distinguishes lengths around a limit is kept, `Limit + 1` included.
The real numbers are those of `BodyLimit`, whose theorems hold for every limit.

### VaultSession and SocketFile

`VaultSession` follows secrets: `env` holds those still in the environment,
`held` those in `Config`, `client[v]` those of a client, `live` the tokens that a vault would
accept. A configuration may read a secret from a file instead of a variable
(`Found`), or fail to (`LoadFails`, before anything is opened). `setup` picks the mode (serving or
migrating), the kind of each vault, its authentication and its authority, good or not loadable. Any
exchange may fail, a token may expire between two exchanges, and every way out ends in
`Close` and `Wipe` as in `main.go`.

`SocketFile` has one step per system call on the path: `Lstat`, `Remove`, `Listen`, `Chmod`, then at
the end the close of the listener, which removes the file in package `net`, and
`removeSocket`. `Replace` is somebody else putting a file there.

## Runs

Bounds are CONSTANTS of the `.cfg`; every cap in a guard is one of `MaxFaults`,
`MaxClock`, `MaxEvictions`, `MaxArrivals`, `MaxFields`, `MaxCalls`.

| Run | Bounds | Shows | Why the bounds are enough |
|---|---|---|---|
| `bootstrap` | 2 instances of one suite; 6 keypairs; 3 faults | `TypeOK`, `ServedIsStored`, `OneBundleEver`, `WrittenOnlyIfMissing`, `ImplementsWriteOnceKey`, `Converges`, `StartEnds` | a race needs two; three faults combine a late write, the restart of its author and a deletion that is undone. The vault may begin with a keypair of another suite. A keypair is drawn only if unused, and six never run out within three faults. That more instances, of any suites, change nothing for the safety properties is proved. 31 945 states |
| `infisical_forgotten` | `bootstrap` plus `Forget`, 1 fault | violates `OneBundleEver` | see findings |
| `migration` | 2 migrations, 1 instance, 4 keypairs, 2 suites, 1 fault | `MigrationKeepsData`, `ConflictIsReal`, `MigrationOverwritesNothing`, `ImplementsWriteOnceKey`, `ReplaySucceeds` | starts from every pair of vault contents (1125 initial states): empty, same, other keypair, other suite, corrupted, historical layout. Three writers to the target and one fault reach every race of two writes and a late third. 250 042 states |
| `session` | 4 exchanges | `NothingKept`, `VaultIsTrusted` | enough for a login, a read, a write or a second login after an expiry, and the revocation; every pair of vaults, methods and authorities. 108 219 states |
| `concurrency` | 7 requests of 3 sources, one of them a probe; 2 slots, 2 per source | `LimitsHold`, `NothingLeaks`, `SaturationTakesManySources`, `WaitIsBounded` | one source has four requests, may fill both slots alone and is then refused; all slots are taken while several requests wait. The types of its variables are proved, not run (`TypeCorrect` of `PipelineProofs`). No symmetry, because of `WaitIsBounded`. 13 564 states |
| `pipeline` | 4 requests (3 of two sources, one scrape), of which any two are served, at once or in turn; 1 slot, below a `PerIPShare` of 4, hence a share rounded up to 1; 1 bound of latency | `ScrapeIsCoherent`, `CountedOnce`, `AnswerIsFinal`, `NoSourceIsShutOut`, `ImplementsLimit`, `EveryRequestEnds` | a scrape against one request shows every order of a read and a write of a counter; two requests are one handled and one waiting or refused, by the limit or by the share. 27 389 states |
| `ratelimit` | 3 sources, table of 2, 2 requests at once, clock to 3, purge after 2 s, delay at most 1 s, 1 counted eviction | `TypeOK`, `TableIsConsistent`, `NearlyChronological`, `RateHolds` | three sources overflow the table, two requests cross at the lock, the purge runs between a lookup and its use. Symmetry in the requests and in the two sources not counted. 1 320 490 states |
| `server` | TCP and Unix listeners, 3 connections to TCP, 2 slots | `TypeOK`, `SlotsAreExact`, `EndsWhenAsked`, `AcceptResumes` | every slot taken and a third connection that waits, or that is admitted while another is being closed; nobody connects to the Unix socket, whose listener fails or is closed at any time. Identities are used again, so connections are not bounded. No symmetry. 29 887 states |
| `socket_taken_over` | 2 processes on one path | violates `RemovesOnlyItsOwn` | see findings |
| `envelope` | every configuration `Validate` accepts, with and without a limit of connections, over 3 certificates, 2 secrets, 2 users; 4 headers that clients make up, none to two proxies, in one line or several; 5 contexts, a maximum of 5 characters; the dual suite, which derives from both shared secrets | `Guarded`, `SourceCannotBeForged`, `OpensOnlyWhatWasSealed`, `HonestRoundTrip`, `KeysAreSeparated` | contexts include the empty one, a `NUL`, one that begins with a space and one that fits only without the prefix of an identity; clients share, or imitate, names. 157 616 states |
| `mtls_behind_limit` | those of `envelope` | violates `CertificateRequired` | see findings |
| `memory` | limit 5, slack 2, read chunk 2, values of 0, 3 or 4 bytes, 2 fields | `NoSecretLeft`, `ReadIsExact`, `OneReading` | bodies of every length up to beyond the limit, announced or not, in any slices, need zero, one or several reallocations; two fields are a duplicate; a value of 4 is streamed in two chunks. 211 537 states |

Deadlock is checked in `migration`, `concurrency`, `pipeline`, `server`, `envelope`
and `memory`, where the ended process, or the service at rest, is the one state
that may last. It is switched off where the model may stop: when every instance
serves and no fault is left, when a process has ended, and when the clock is at
its bound.

The less obvious properties:

- `ServedIsStored`: a serving instance holds exactly the bundle in the vault, of
  its own suite. Hence two serving instances never differ.
- `OneBundleEver`: over the history of the vault, late writes included, at most
  one bundle. It is stronger than "never overwritten": it forbids a second
  keypair after a deletion.
- `Converges`: if the vault stays bootable for `p` from some time on, `p` ends up
  serving for ever, whatever it or others left behind.
- `SaturationTakesManySources`: a request waits only if `PerIPShare` sources hold the slots, or
  one source per slot when there are fewer slots than that.
- `NoSourceIsShutOut`: a source is refused for its share only when it has a request in the service: a
  limit below `PerIPShare`, whose quarter rounds down to nothing, refuses nobody for good.
- `RateHolds`: with *e* evictions of a source, at time *t* at most
  `Burst·(1+e) + Rate·(t + Skew·e)` of its requests were allowed. It needs
  `RefillsBeforePurge`: a bucket refills within the 600 s after which an idle
  entry is purged. A configuration with `RATE_LIMIT_BURST` above about
  600 × `RATE_LIMIT_RPS`, which `Validate` accepts, is outside that condition.
- `SlotsAreExact`: at each listener, the slots taken are those of the connections that have not
  given theirs back, plus the one of an accept loop that is inside `Accept` of
  the socket. The server and the goroutine of a connection may both close it.
- `EndsWhenAsked`: a signal or a failed listener ends the process, with all
  slots taken, clients that stay and handlers that never return.
- `AcceptResumes`: as long as every connection ends, an accept loop that waits
  for a slot gets one or ends: no sequence of errors uses the slots up.
- `WaitIsBounded`: a request that waits is served or refused, although handlers may never
  return and refused clients may never send their body.
- `ScrapeIsCoherent`: on every page the histogram, the answers and the time of a path
  stay within its count, although nothing is locked: `observe` moves the count first and `Render` reads
  it last.
- `CountedOnce`: at rest, every request is in the count, in one status and in one bucket of its path,
  unless it was aborted; and the counters of the limiters agree with the 429 and 503.
- `AnswerIsFinal`: no status replaces another, whatever panics.
- `Guarded`: whoever reaches the engine has shown *each* credential that the way in asks for; a
  certificate or a uid does not replace a token. Of certificates it speaks only where `MAX_CONNECTIONS` is 0:
  with a limit, which is the default, the code does not ask for them (`CertificateRequired`, finding 3).
- `SourceCannotBeForged`: whatever `X-Forwarded-For` a client writes, its identity, the address of its
  connection or the one that the first trusted proxy saw decides. The property names the one case in which this
  fails: an unidentified client that writes the header behind proxies that add lines to it instead of joining
  them (first of the remarks under Findings).
- `OpensOnlyWhatWasSealed`, `HonestRoundTrip`: an envelope opens exactly for its usage, its
  context and, with `BIND_CLIENT_IDENTITY`, its client; in both formats, with or without its `kid`. The
  round trip says nothing of an envelope without the name of its algorithm, on which the code and its
  documentation disagree (second of the remarks under Findings).
- `KeysAreSeparated`: `/decapsulate` never returns the key of an envelope that carries the same
  encapsulation.
- `NoSecretLeft`: no array is given up, left or pooled with a secret in it, on any path of failure.
- `ReadIsExact`: a body up to the limit is read whole and one beyond is refused, with room left
  to seal in place.
- `OneReading`: an accepted JSON body reads the same for a reader that takes the first or
  the last duplicate, or folds case.
- `NothingKept`: no credential survives the start, nor any failure after the vaults are opened, and every token of
  AppRole is revoked unless the vault could not be told. Two things are outside it: a configuration that is
  refused ends the process without `WipeSecrets` (`main.go:41-43`; `pc` is `refused`), and the token of
  a login to Infisical is erased but not revoked.
- `VaultIsTrusted`: a configured authority is never replaced by those of the system, also
  when it cannot be loaded.

## Findings

Disagreements between the code and its own documentation, each shown by a run
TLC finds violated.

1. `infisical_forgotten`. A deleted Infisical secret is indistinguishable from
   one never written (`infisical/client.go:265`), so a restart generates another
   keypair. `README.md:202`: "a deleted, corrupted or unreachable keypair blocks
   startup. Only a vault that has *never* held a keypair triggers generation."
   The OpenBao client keeps it for versions deleted or destroyed (`bao kv delete`, `destroy`). The removal of
   the secret with its metadata (`bao kv metadata delete`) leaves no trace to tell, and is not modelled.
2. `socket_taken_over`. `removeSocket` (`listeners.go:122`) removes whatever socket
   it finds at `SOCKET_PATH` when the process stops. The close of the listener has
   already removed the process's own file, so what it finds is the one of a process that
   has taken over. `listeners.go:119-120`: "si le chemin a été remplacé entre-temps par
   autre chose, ce n'est plus le nôtre". The new process goes on, unreachable on that socket. (The close
   itself has the same flaw when it comes after the takeover.)
3. `mtls_behind_limit`. `openListeners` wraps the TLS listener in a `limitListener` when `MAX_CONNECTIONS` is above 0
   (`listeners.go:30`; the default is 1024, `config.go:176`), so `http.Server` gets a `*limitConn`, `r.TLS` stays
   `nil` and `RequireClientCertMiddleware` lets the request through (`middleware.go:290`). The handshake asks for a
   certificate without requiring it (`tls.go:46`): under mTLS a client without one, or with one whose name is not
   allowed, reaches the engine. `middleware.go:281-282`: "exige, en mTLS, un certificat client vérifié sur chaque
   requête arrivée par TLS"; `README.md:141`: "a verified client certificate on every route except `/health`".
   With `BIND_CLIENT_IDENTITY` and nothing but certificates to identify clients, every client gets 401 instead.
   `TestMTLS_EndToEnd` leaves `MaxConnections` at 0 (`tls_test.go:99-103`). `connContext`
   (`peercred_linux.go:83`) does look under the `limitConn`, so the users of the socket are not affected.

Remarks met on the way, that no run refutes:

- `Header.Get` (`clientip.go:46`) returns the first line of `X-Forwarded-For`. Behind a trusted proxy that adds a line
  after the client's instead of appending to it, the client's own line is read, and an unidentified client chooses the
  key of its rate and of its share. `clientip.go:22-24`: "la première adresse qui n'en est pas un est celle que le
  dernier proxy de confiance a vue". `SourceCannotBeForged` excludes exactly this case, which `HandedOver` contains.
- A JSON envelope without `algorithm` opens (`engine.go:41`, whose comment at `:30` calls it "facultatif"), whereas
  `README.md:118` says "`algorithm`, `version` and `suite_id` are required on input". Nothing depends on the name: the
  suite is checked and bound into the derivation. `Unnamed` is that envelope; `HonestRoundTrip` says nothing of it, and
  `OpensOnlyWhatWasSealed` holds of it.
- Data and metadata of OpenBao are two requests; a first write of another instance in
  between makes the start fail with `ErrDeletedKeypair` although nothing was deleted
  (`openbao/client.go:37-38`, `:347`). Harmless: by `Converges` a next start succeeds.
- With `MAX_CONCURRENT_REQUESTS` of 1 to 3 a source may hold more than "un quart des créneaux"
  (`concurrency.go:50-53`, `README.md:324`), the share being rounded up to one (`concurrency.go:59`).
- The purge relies on "la liste étant ordonnée chronologiquement" (`ratelimit.go:113`), but the clock is
  read before the lock (`ratelimit.go:63`); `NearlyChronological` bounds the disorder.
- `limitConn.Close` gives its slot back before it closes the connection (`limitlistener.go:52-53`), so
  for that time one more connection than the limit may be open, against `limitlistener.go:8-9`. The slots
  themselves are exact (`SlotsAreExact`).
- `SECURITY.md:49` says "`422` uniforme pour toute enveloppe invalide"; a mismatched suite or version and a
  missing field are answered 400 (`StatusOf`), a JSON nonce of the wrong length and a low-order X25519
  recipient 500.
- `README.md:119` bounds the context at 4 KiB; with `BIND_CLIENT_IDENTITY` the prefix of the identity counts
  too (`hybrid.go:21`).
- `router.go:123`: a panic after the response has started is neither counted nor logged, because
  `http.ErrAbortHandler` passes both middlewares by; a client that leaves while it waits counts as a 200.
- `X-Encryption-Context` loses the spaces around it in the header, so a JSON context that begins or ends with
  one cannot be given in the binary format.
- The `ErrTooLarge` of `ReadAll` is unreachable behind `MaxBytesReader` of the same limit.
- `infisical/client.go:110`: the error of loading the authority is local to the first call. All
  callers stop at their first error, which is why `VaultIsTrusted` holds.

## Fairness

- `Bootstrap`: weak fairness of `Step(p)`, the steps of a start. Every vault
  request ends within the client's 10 s timeout and the start within
  `engineInitTimeout` (`main.go:24`); a stopped container is started again
  (`restart: unless-stopped`, `docker-compose.yml:8`, `docker-compose.ipc.yml:12`). Failures, late
  writes and the operator have no fairness. A behaviour has at most `MaxFaults`
  failures: the liveness properties speak of what follows the last one.
- `Migration`: weak fairness of `MStep(m)`, which includes starting again: the
  operator replays a migration that failed. `ReplaySucceeds` says nothing of an
  operator who gives up.
- `ConcurrencyLimit`: weak fairness of the steps that wait for the scheduler or a
  timer only. `Finish` is not among them: a handler may never return, and
  `WaitIsBounded` holds all the same.
- `Pipeline`: weak fairness of the steps of each request being served (`Served(r)`), which includes that the
  handler returns or panics: `EveryRequestEnds` is about what surrounds the handler, and
  handlers that never return are `WaitIsBounded`'s matter.
- `RateLimiter`, `Envelope`, `Memory`, `VaultSession`, `SocketFile`: safety only.
- `Server`: weak fairness of the goroutine of `serve`, of the accept loops while
  they have something to do, of an accept loop whose socket is closed, and of the end of a connection's
  close. The timer of `shutdownTimeout` (`main.go:25`) fires in the end, which is the
  fairness of `Deadline`. Clients and handlers have none: they may stay for ever.
  `AcceptResumes` has the hypothesis that connections end, which the read, write and
  idle timeouts are there for.

## Proofs

TLAPS checks every proof to its last leaf, for every value of the constants that satisfies the
named assumptions: the suites and sources are functions of the right type, the
marker values are distinct from the real ones, the limits are positive, the
requests in flight are a finite set, no identity contains a `NUL`. Every safety invariant and every action
property that a passing run checks is also a theorem, and so are the two refinements. Each module follows one plan: an
inductive invariant that strengthens the properties, one lemma per action, then the theorems.

### Bootstrap and Migration

`BootstrapProofs`. The inductive invariant `IInv` strengthens the properties by
what is in flight: every bundle ever held is the vault's bundle; a
vault that was never written has held nothing; an instance that has passed the
read or the comparison has the keypair of the vault's bundle, which is intact and of
its suite. The last is what a serving instance inherits; it survives the
steps of the others because a written vault's bundle never changes (`WriteOnce`,
`OperatedKeeps`), late writes included. From it:
`TypeCorrect`, `ServedKeyIsStored`, `OneKeypairForLife`, `BlockedStartWritesNothing` (an action
property) and `Implements`, the refinement of `WriteOnceKey`: accepted and late
writes map to `Choose`, the self test to `Serve`, a crash of a serving instance
to `Stop`, everything else stutters.

`BlockedStartWritesNothing` needs a fact about the historical layout: an
instance that is about to write has seen it empty, as has every bundle on the wire, and
nothing adds to it.

`MigrationProofs` extends `BootstrapProofs`. `MIInv` adds to `IInv` that the source keeps its keypair, and for each
migration that what it carries is that keypair, that it writes only where the historical layout is empty, and that from
the accepted write on both vaults hold the same bundle. The migrations write to the vault of the instances, so `IInv`
itself has to be shown again over their steps. From it: `DataStaysReadable`, `ConflictsAreReal`,
`NothingOverwritten`, `ServedKeyIsStoredMigrating` and `MigrationImplements`: an accepted write of a migration is one more
`Choose` of `WriteOnceKey`.

### Sessions

`VaultSessionProofs`. `SInv` says which tokens can exist (each is issued once, a client uses one it was given),
that at most one token of AppRole per client is good and is the one in its hand, that only an open client has credentials and none
is open at the end, and that a client which met an authority it cannot load makes no further exchange. From it `NoCredentialKept`
and `VaultAlwaysTrusted`, for any number of exchanges.

### Concurrency limit, pipeline and metrics

`PipelineProofs` is about `ConcurrencyLimit` and about `Pipeline`, which extends it.

The limiter. `IInv` is the typing, the limit and the exact counting:
`slots` is the number of requests handled, `inUse[s]` of those counted for
`s`, and a request waits only while the slots are full. Five theorems follow;
`SaturationAlwaysTakesManySources` also needs that `Limit` requests in groups of at
most `Share` make at least `PerIPShare` groups, or `Limit` when the share is rounded up to 1, which the lemmas `Numbering` and
`SharesCover` derive from cardinalities. `LimitIsImplemented` maps every step of the pipeline to a step of the limiter
or to none, so `IInv` is inherited (`LimitsHoldInPipeline`), panics included.

The answers. `PInv` adds where a status can have been set: not before the handler, except by a refusal
that leaves at once, and never to 429 or 503 by a handler. A panic after the first byte aborts. Hence `AnswersAreFinal`.

The books. `Books` is the invariant that every path balances: what is booked in a counter plus the
requests that still owe it a move is what is due, the requests ended and not aborted plus those that are being counted;
for time, of which a request may owe nothing, it is an inequality. Likewise each refusal is booked in its own counter
or still pending in its status. At rest nobody owes anything, which is `CountedExactlyOnce`. The answers and the histogram are
sums of counters: a fold over a set is a recursive definition whose induction the provers cannot instantiate,
so the lemmas `SumUnfolds`, `SumSplits`, `SumBelow` and `SumGrows` are derived from a set-stated induction over the subsets of a finite set.

The page. `ScrapeInv` says of every page that what is on it does not exceed the counters, which only grow, and
that `Render` has an order: once the count of a path is on the page, its time is too and nothing of the path is left to
read. When the count is read, everything else of the path is thus on the page, below counters that the books keep below the
count (`TotalIsFirst`); afterwards the page does not change for that path (`ReadCounter`). The order itself is proved of the text of
`Rendering`, which concatenates a block per path (`FlatTidy`), and of the list of codes that is inserted during the reading (`ReadCodes`). From
it `ScrapesAreCoherent`, for any number of scrapes at once.

### Rate limiter

`RateLimiterProofs`. `IInv` says that the list enumerates the map, that an entry exists as long as it is in the table or in the
hand of a request, and that nobody is late by more than `Skew`; that a new entry finds a free identity needs
a pigeonhole argument over table and requests, hence the assumption that the requests in flight are finitely many. From it
`TypeCorrect`, `TableAlwaysConsistent` and `AlwaysNearlyChronological`.

`RateAlwaysHolds` needs an invariant about tokens. `RefillInv`: a bucket is full or has what it has earned since
it was last used, so a purge gives nothing away when a bucket refills before it is purged (`RefillsBeforePurge`, the condition in `RateHolds` itself).
`RateInv`: what the source was allowed, what it finds in the table and what requests may still take from entries that have left the table
is at most what `RateHolds` grants. The last term is the number of marks in `Owed`, one for every token such an
entry has or can earn in time; a purged or evicted entry moves its tokens there.

### Access and envelopes

`EnvelopeProofs`. `EInv` says that what serves is the deployment of a valid configuration, that the identities that reach the engine contain
no `NUL`, and that what is brought back was sealed or agreed by this service. `AlwaysGuarded` follows the four middlewares
one by one (`PeerIdentityFacts` … `VerdictFacts`), and has the condition of `Guarded`: it promises a certificate only where connections
are not limited. `SourceNeverForged` needs that a line which a client and any number of proxies wrote ends in what the
proxies saw (`LineFacts`), and that without a header of the client's the first line is the first proxy's (`FirstOfLines`). `OpensOnlySealed`, `AlwaysRoundTrip` and `KeysAlwaysSeparated` rest on three injectivity lemmas, for contexts of any length:
`BoundContextInjective` (identity, `NUL`, context: the identity has no `NUL`, so the first one separates them), `TranscriptInjective`
and `SecretInjective`.

### Memory and body limits

`MemoryProofs`. `MemInv` has three parts beside the types: how the array of the body relates to the limit, the window and the slack
(`BodyInv`); where secrets can be in each phase (`SecretInv`); and that the reader has met each field once and filled its array from it
(`DocInv`). From it `NoSecretEverLeft`, `ReadAlwaysExact` and `AlwaysOneReading`, for every limit, chunk, slack and number of fields.

The body limits are linear integer arithmetic over the code's own numbers, beyond TLC's 32-bit integers:
`OpenBodyLimitFits` (no sum that `OpenBodyLimit` computes leaves an int64, for every
limit), `OneByteMoreFits` (nor does `limit + 1` in `ReadAll`, for the limits `Validate` accepts) and
`SealedFitsOpen`: whatever `/encrypt` produces under its limit, `/decrypt` accepts, when at
most one character in eight of the base64 text is a "/" written `\/`. The comment
of the code counts on one in 64, the average of encrypted bytes; a text that is all "/" would not fit, but
ciphertext does not look like that.

### Server

`ServerProofs`. The typing and the exact counting are inductive once a connection
that is being closed is known to have given its slot back: otherwise its end
could make a slot vanish. The lemma `GiveBackPreserves` is the one that counts: of the closers
of a connection the first gives one slot back and the others none.

### Model-checked only

Liveness (`Converges`, `StartEnds`, `ReplaySucceeds`,
`WaitIsBounded`, `EveryRequestEnds`, `EndsWhenAsked`, `AcceptResumes`), which is beyond the
provers; and the three runs under Findings, whose properties do not hold.

## Not modelled

- The timeouts of `net/http`, the TLS versions and cipher suites (`tls.go`): settings handed to libraries.
- The arithmetic of ML-KEM, X25519, HKDF and AES-GCM: libraries, ideal in `Envelope`.
- The characters of JSON (escapes, numbers, UTF-8) and the text the writer produces: classes in `Memory`.
- The parsing of configuration values; the bounds `Validate` sets on numbers are the assumptions
  of the other modules.
- Formatting, logging, correlation identifiers, the health probe, `umask`, process hardening, the
  example clients and the load tests: no state, or none a property is about.
- `bao kv metadata delete`, after which OpenBao too looks as if it had never held a keypair.
- Trusted proxies of which some append to the line of `X-Forwarded-For` and others add one: `HandedOver` has all of one kind.
- The engine without vault, whose keypair is ephemeral, and the mock engine, refused in production.
- That `limitConn.Close` admits a connection before it has closed another: the disorder is in the code
  (see remarks); `SlotsAreExact` states what does hold.
- The copy of a variable that the Go runtime keeps after `Unsetenv`: it is not reachable from the code.

## Plan

Done: every component above that keeps state, modelled and model-checked. The order was the bootstrap and
migration, the two limiters and the server, then the pipeline with its counters, access and
envelopes, memory, vault sessions and the file of the socket. Done as well: a theorem for every
safety property of the runs that pass.

Left, in this order:

1. An abstract counting semaphore that both `Server` and `ConcurrencyLimit` implement, with the refinements proved.
2. For `Server`, that no connection outlives the end of the process and that an accept loop which has seen the stop never takes a slot
   again, as action properties.
3. For `SocketFile`, what does hold when only one process uses the path.
