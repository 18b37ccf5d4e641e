# TLA+ models of the block explorer

This directory holds TLA+ specifications of the parts of the block explorer whose
correctness depends on order: what runs concurrently, what survives a failure, what is
cached, and what is shown after it has become stale. Every module is translated from the
code and names it; `PROJECT.json` maps each definition to its source lines and lists the
runs, the hazards they are for, the mutants that show each property can fail, and the
theorems.

    tlc -workers 2 -config Session_renewal.cfg MCSessionRefresh     # model-check one run
    tlapm SessionRefresh_proofs.tla                                 # check the proofs

Contents: [1 the system](#1-the-system), [2 how the models are written](#2-how-the-models-are-written),
[3 the modules](#3-the-modules), [4 the runs](#4-the-runs), [5 what is proved](#5-what-is-proved),
[6 where code and text disagree](#6-where-code-and-text-disagree),
[7 what is not modelled](#7-what-is-not-modelled), [8 plan](#8-plan).

## 1 The system

A browser loads a React single-page application, which talks to the **explorer API** (Go,
`backend/cmd/api`) over REST and one WebSocket. The API keeps little of its own: blocks,
transactions and tokens come from the **chain indexer** over gRPC (another repository) or
from the node's RPC, users and permissions from the **privacy proxy** (another program),
and verified contracts from one PostgreSQL table. A separate process, the **public API**,
serves the same data to programs under a rate limit.

| component | state it keeps | operations | interacts with | what is hard | what makes it correct |
|---|---|---|---|---|---|
| Session and token refresh (`api/auth_handlers.go`, `auth/sso.go`) | two cookies in the browser; a singleflight group; the proxy's refresh tokens | refresh middleware, status, logout, callback | every API request; privacy proxy `/refresh`, `/revoke` | a page load is a burst of requests that carry one single-use token; responses in any order; aborted leaders; a ban | one call per token; a burst never revokes itself; nobody is logged out by losing a race; the ban holds within one token lifetime, and the leeway of the token verifier |
| OAuth state store (`auth/sso.go`) | pending login states, bounded | generate, validate, sweep | login and callback handlers | dead states take up room; a browser that comes back late or twice | the room is taken by logins of the last lifetime and sweep interval only |
| JWKS cache (`auth/jwt.go`) | keys by id, time of the last fetch | verify, refetch | the issuer's JWKS endpoint | overlapping fetches stored out of order; unknown keys and the interval of refetches | a withdrawn key runs out, a new one gets in |
| WebSocket hub (`websocket/`, `events/bus.go`) | registered clients, topics, one buffered channel per client, the bus channel | register, unregister, subscribe, broadcast, the two pumps, shutdown | upgrade handler; event bus | five kinds of goroutine; who closes a channel; slow readers; the slot limit | slots and channels agree; no stream has a silent gap; no client stalls the hub |
| Provider cache (`api/cache`, `api/provider.go`) | an expiring LRU for each kind of read, and its flights | get | indexer reads | stampedes, expiry during a fetch, half-failed fetches | what a caller sees of a key never goes back; nothing is fetched twice at once; every get returns |
| View as user (`api/impersonation_*.go`, `hooks/useImpersonation.tsx`, `pages/ViewAsEntry.tsx`) | the token store; in a tab the session, the URL, the header, the timer | start, stop, restore, mirror, expire | every read of the tab | awaits between reading and writing the session; a restart of the backend | a banner is watched by a timer or leaving; one the backend does not honour goes away |
| Contract verification (`verifier/`, `db/verifications.go`, the Etherscan and Sourcify handlers) | the compiler directory, the list of local compilers, the list of published builds, the table | verify, download, import, upload an ABI, scan at start | node RPC, GitHub, Sourcify, PostgreSQL | two downloads of one compiler; a crash in a write; upserts of one row | what is stored was matched; what is installed was checked; of racing downloads the last one counts |
| API handlers (`api/handlers.go` and others) | none | reads, search, charts, paging | all of the above | fan-outs with partial failure; cursors | pages have neither duplicates nor gaps |
| Server and process (`api/server.go`, `cmd/api`) | draining flag | start, readiness, shutdown | hub, chain info | shutdown order | requests in flight finish |
| Chain info, price (`chaininfo/`, `price/`) | one snapshot, one price | refresh, get | node RPC, CoinGecko | partial failure; a lock held over a call | a reader gets one consistent snapshot |
| Public API (`publicapi/`) | a window and a count for each client | limit, sweep, reads | indexer | requests that hold an entry the sweep deletes | the first `limit` requests counted in a window are served, no others |
| Frontend WebSocket client (`lib/websocket.ts`) | the current socket, handlers, topics to subscribe to, reconnection timers | connect, disconnect, subscribe, unsubscribe, reconnect | hub; live pages | callbacks of sockets that were replaced; a timer whose handle is lost | an event runs a handler once; no subscription is lost, and an event that has its frame to itself arrives; a loss leads to another attempt |
| Frontend shell (`components/Layout.tsx`, `SearchBar.tsx`, `AddNetworkButton.tsx`, `lib/metamask.ts`, `lib/auth.tsx`) | the search field, the wallet watcher, menus, theme, header prices, sign-in state | type, suggest, search, add the network, follow a link, sign in and out | API; the wallet | answers to a text that has changed; a wallet that changes under a dialog; what is offered before the mode is known | the list is that of the text; the button agrees with the wallet; no dead link |
| Frontend pages that read (`pages/*.tsx`) and their queries (`App.tsx`, `lib/queryRetry.ts`, `lib/disclosureQuery.ts`) | one query cache; the route; what a page keeps between renders | query, retry, poll, turn pages, announce, redirect | API, one request per query | one cache for all pages; answers in any order; a login that ends; failures after successes | a page shows the answer to what it asks, nothing refused, nothing unchecked |
| Disclosed rows and grants (`Transactions.disclosure.ts`, `useDisclosedTransactions.ts`, `GrantedAddressPage.tsx`) | an infinite query for each page, cursors, windows | look up an edge, read on, merge, retry | grant endpoints | bounded budgets; pages whose rows are filtered; a level that changes | every disclosed row is shown once, at one level |
| Frontend pages that write (`ContractVerification.tsx`, `ContractInteraction.tsx`, `Address.tsx`, `LinkedAddresses.tsx`) | four forms over shared fields, files being read, the wallet's state, a challenge | submit, import, call, connect, link, unlink | API; the wallet | files read in any order; a wallet with prompts, polls and events; a page that goes before its answer | a request is whole; the account shown is the selected one; the list is the server's |
| RPC, indexer and privacy clients, primitives, deployment | none | one call and a conversion, rendering, build | | | unit tests |

The hazards of these parts, each at its line with the properties that would catch it, are
in `PROJECT.json` under `hazards`.

## 2 How the models are written

* One module per component; state as VARIABLES with the names of the code, one action per
  handler, goroutine step or effect, bounded only by the constants marked "bound". The
  steps of an action are the code between two points at which something else can run: an
  await, a channel operation, a lock, a network call, a system call.
* Data is abstract: a token, a page, a version or an address is a number or a model value.
  A time is a small number, or absent where only "before or after its deadline" matters.
* `MC*.tla` modules instantiate a component for TLC; the `.cfg` files give the values.
* Programs outside `src/` (the privacy proxy, the chain, the browser) appear as actions
  marked external in `PROJECT.json`: they may do whatever the code in `src/` can observe.
* Definitions whose comment starts with "Mutant" or "A variant of" are plausible bugs of the
  definition below them. They are not part of any specification: replacing the definition by its
  mutant must make TLC find the property violated.

## 3 The modules

**SessionRefresh.** One browser, several requests in flight. `jar` is the cookie jar;
`Send` copies it into `req[r]`; the middleware (`PassThrough`, `ClearExpired`,
`LeadRefresh`, `JoinRefresh`, `Resume`, `ResumeClears`) decides what the handler sees and
which Set-Cookie headers are in `out[r]`; the handlers (`HandleAPI`, `HandleAuthStatus`,
`HandleAuthLogout`, `HandleAuthCallback`) run on what the middleware left; `Deliver` hands
the response to the browser in any order, `Abort` is a closed tab. `call[l]` is the
singleflight call that request l leads; the call uses l's context, so an abort of the
leader may end it (`CallFails`) while the proxy still serves it (`LateRefresh`). The proxy
rotates a refresh token on use, revokes on logout, and refuses everything after `Ban`.
Tokens are judged twice: the middleware and the status check go by the expiry (`IsExpired`),
`HandleAPI` by the token verifier, if the server has one, which takes a token for `Leeway`
longer (`Authenticates`).

**WsHub.** `Step` is one receive of the hub's select (`RegisterClient`,
`UnregisterClient`, `HandleEvent`, `Stop`) or one turn of its broadcast loop; `rp[c]` and `wp[c]` are the
program counters of a client's two pumps, `buf[c]` the fill of its channel, `slow[c]` the
goroutines that wait to unregister it, `alive[c]` its connection. A send on a closed
channel sets `panicked`, which stops everything. The history variable `skipped` holds the
clients an event was skipped for.

**TtlCache** and **MonotoneReads.** `TtlCache` is `Get` of `api/cache/cache.go`: look,
join or lead the flight of the key, look again (`Recheck`), fetch, store, deliver. An entry
carries the source version it was read at, the time it was stored and whether the read
was whole: the fetch behind the contract cache reads two sources and may get one of them.
`MonotoneReads` is what a cache promises whatever it is made of: a read answers with a
version between the newest one answered when it began and the source's. The promise is
stated of `TtlCache` through `INSTANCE MonotoneReads WITH pending <- ...` and both checked
and proved.

**ViewAs.** The token store and one tab. `session`, `url` and `header` are the three
places a token is kept; `Show`, `Hide`, `Mirror` and the mount effect write them at
different moments. A request that has been sent and not answered is a counter (`stops`) or
a state (`restore`, `entry`). `Load`, `Navigate`, `SwitchAdmin` and `MintElsewhere` are what
the browser and other tabs may do; `Restart` empties the store. A token is `due` once its
hour has passed; the timer fires only then.

**Verification.** Requests of the verifying routes over one compiler directory and one
table. `file[v]` is the compiler on the disk: `OpenFile` truncates it, `WholeWrite` and
`CutShort` end a write, `Exec` and `Compile` run it; a file open for writing does not run and
a running one does not open. Several may write one file: `last[v]` is the one that truncated
it last, and only its end decides what is left; the end of another leaves the file as it is
or as that one would make it. `local` is the map of `SolcManager`. A request has the version it was
submitted with (`job[r].ver`) and the one it runs (`use[r]`), since a version that is not
installed is matched by prefix. `rows` is the table, by the spelling of the address that
was used as its key. `spoilt` has the versions whose write that began last was cut short.
Code is a sequence of pieces, some of them metadata; what each version makes of each source
is a constant. `Compare` is `CompareBytecode`: it cuts the arguments of the request off the
code on the chain (`Trim`) and compares the rest, with the metadata and without.

**LiveSocket.** `sock` is the readyState of every socket that still exists, `ws` the one
the client calls its own; the callbacks of all of them act on the client (`SocketOpened`,
`SocketClosed`). `tracked` is the timer `disconnect()` can cancel, `strays` those whose
handle was overwritten. `srvSubs` is what the hub holds for each socket. `Deliveries` says
which sockets bring an event to a handler, given what else the server has put into the same
frame: it joins what waits for a client with line breaks (`Queued`), and a frame of more than
one message does not parse.

**GrantFeed.** The rows grants disclose, between the rows of the transactions page. The
windows, the lookup of an upper edge and the reading of a grant are operators over a chain
of `NumTxs` transactions (`GrantBoundary`, `InGrantWindow`, `LoadGrantWindow`), `Fetch` is
one turn of the infinite query of a page, `MergeTransactions` composes the page. The rows of a
page are a set, each marked with the request that brought it; the loop of `loadGrantWindow` is
written in closed form, the first of its requests that ends it (`ReadBatches`); the order in
which a page lists its rows is left out.

**WritePages** composes **VerifyForm** (the verification form: `files` has the
contents listed under each name, `batches` are the selections being read; an artifact being
read, one mutation per method, the import from Sourcify),
**WritePanel** (the wallet of an address page and one function card: requests to the wallet
in `asked`, its answers, failures and events in `inbox`; a provider may appear
after the mount, which then has registered no listener, `listens`) and **LinkedWallets** (link sequences and
DELETEs, each with the step it is at, and the cached list). One of them is mounted; what a
page has started goes on when it is gone (`Unmount`, `Disown`), and a finished import pulls
the tab away from whatever is mounted (`PulledAway`).

**Shell** composes **SearchBox** (text, timer, suggestions, requests in flight) and
**NetworkButton** (the watcher of the wallet, the set-up dialog, additions) with what
surrounds the pages: the links that are offered (`Links`), menus, theme, header pollers,
the status check, sign-in and logout.

**ReadPages** is one tab over one query cache. **QueryCache** has the cache and the
vocabulary of the pages: a query is a key, what is sent for it and its options; an entry
has the last answer, the last error and the request in flight. **DetailPages**,
**ListPages** and **GrantPages** say of each page which queries it reads (`...Queries`),
what it shows for what the cache holds (`...View`), where its controls lead (`...Links`) and
what its effects do. `ReadPages` has the tab: a request is answered, fails or is sent again
(`Answer`, `Fail`, `Poll`, `RetryGrant`), a link or a tab is followed (`Follow`, `TurnTo`,
`Load`, `Pause`), a login is looked up and ends (`StatusAnswered`, `Logout`, `LoggedOut`).
With each of these `Show` brings effects, readers and requests up to date, as React does
before anything else runs.

**RequestGuards** puts side by side what stands before the handlers. **RateLimiter** names an
entry after the request that stored it, so that an entry the sweep has deleted lives on for
the requests that hold it in `mine`; the sweep is a run of `Visit` and `Delete` over the keys.
**KeyCache** has a call of `keyForKid` per caller, from the first look (`Verify`) over
`EnsureFresh`, `Look` and `RefetchForUnknownKid` to `LookAgain`, and a fetch between the two
moments at which its document is written (`Serve`) and stored (`Store`). **LoginStates** is the
bounded store. The three share only time, and a behaviour is one of either of them.

The components of the backend meet only through what their models have as inputs: a
request (session, view-as), an event of the bus (hub), a changed source (cache), a row
(verification). In the browser the pages share the route, the session and the cache, and
are composed in `WritePages`, `Shell` and `ReadPages`.

## 4 The runs

Every run is exhaustive and passes; the bounds are the constants of the `.cfg` files.

| run | what it asks | states | bounds, and why they are enough |
|---|---|---|---|
| `session_renewal` | bursts with aborts, faults, bans and status checks: `BurstNotSelfRevoked`, `ClearedOnlyWhenExpired`, `BanWindow` | 3.01 M | two requests are a leader and a waiter; three pairs let a response of the first rotation arrive after the second; a lifetime of no tick puts every token at the edge of renewal; the first tick is past its expiry and within the leeway of the verifier, the second beyond it. `LastTickIsForBans` keeps the second to API requests after a ban, which alone can tell it from the first |
| `session_live` | logins and logouts across each other, without a verifier, also when the code exchange answers without a refresh token: every waiting request is released, `RefreshReleasesWaiters` | 482 k | two requests, two pairs; tokens are due at once, so every request refreshes |
| `hub_clients` | slots, gaps, stalls: `SlotWhileOpen`, `NoSilentGap`, `SlowClientNeverStallsHub`, `SlowClientDropped` | 200 k | two clients for one slot, channels of one message: every full and every empty channel occurs with one event |
| `cache_reads` | `NoNeedlessFetch`, `ReadsNeverGoBack` (the refinement of `MonotoneReads`), `EveryGetReturns` | 381 k | two callers of two keys over one slot: joins, evictions, expiry and a change of the source |
| `view_tab` | `WatchedOrLeaving`, `StaleBannerLeaves` | 354 k | two tokens and two admins: an old token's answer meets a new session; one stop of a token in flight at a time |
| `verify_rows` | `StoredMatches`, `BrokenOnlyIfSpoilt` | 1.88 M | two requests on the same or on different versions, one version a prefix of the other; the contract, which one version compiles to the code on the chain but for its metadata and the other to something else, and an interface, which compiles to nothing; no arguments, or the whole code; two spellings |
| `live_socket` | `EventRunsHandlerOnce`, `LoneEventsReachHandlers`, `LossLeadsToAttempt` | 150 k | three sockets: one current, one replaced while connecting, one closing; two timers: one with a handle, one without; two handlers of a fixed topic and of an address |
| `grants_pages` | `GrantShownAtMostOnce`, `EveryGrantIsShown`, `ShownAtOneLevel`, `ComposedOnce` | 80 k | all visible sets and all grants of four transactions in two blocks, a page and a batch of one, budgets of two: blocks are split between pages, edges are looked up over more pages than the budget, grants are read in more batches than the budget |
| `write_pages` | `MultiPartWhole`, `ListedFilesKeep`, `AccountShownIsSelected`, `ListCurrent` | 534 k | two file names and two contents, selections of one file or of two of the same name, two selections read at a time; two accounts, a provider that comes late, reads that fail, a queue of three to and from the wallet; two users; the first seven inputs of a visit to the form, five to the others |
| `shell` | `NoDeadLink`, `HighlightIsChosen`, `ListOfTheText`, `ButtonAgreesWithWallet` | 606 k | two texts with different matches, two requests in flight, two chains, one addition at a time; `OneBusy` moves the search, the button and the menus one without the others, since they share only the route and the answer of `/stats` |
| `read_pages` | `ShownIsAsked`, `OwnAnswers`, `NewRowsAnnounced`, `GrantShownAsChecked`, `NoIdleSkeleton` | 62 k | sixteen routes; two things happen to a tab (a move, a failure for good, a block, a logout, failed or not, a change of the grant; `Happened`), and one begins while at most one request is under way, on the front page none (`Calm`): every pair of such events on every page, with the answers to what follows in any order. Three events, or two overlapping loads of several requests, are beyond the instance |
| `request_guards` | `LimitOfEntry`, `RetiredKeysRunOut`, `NewKeyRefusedBriefly`, `PlacesAreFreed` | 699 k | three requests of two clients, a limit and a window of one: an orphaned entry, its successor and a count in each; two callers, a rotation, two lifetimes of a document: fetches overlap, and one that began before the rotation ends after it; four logins for two places |

In `request_guards` only a fetch takes time, at most its timeout; the other steps of a
verification, and the sweep of the login states, are over before the clock moves. Without
that no bound in time could hold, since a goroutine may be descheduled for any length.

The inductive invariants of section 5 were checked on the same instances, or on smaller ones,
before they were proved. The theorems hold for every value of the constants, so for the safety
properties the bounds limit nothing; they matter for the liveness properties.
`CHECK_DEADLOCK FALSE` is used for the hub,
because a process that has shut down or panicked stops, and for the pages, because their
users stop giving inputs at the bounds, as do the clients of `request_guards`.

**Fairness.** *Session*: the proxy's call ends (the HTTP client has a timeout of 30 s),
and the goroutine of a request goes on when it can; the browser, the user, the clock and the
proxy's administrator owe nothing. *Hub*: the hub's goroutine is scheduled, and Go's
select draws at random among ready cases, so a case that is ready again and again is taken (strong fairness of
unregistrations, weak fairness of the broadcast loop); clients and networks owe nothing,
not even to read. *Cache*: goroutines are scheduled and a fetch has a deadline.
*View as*: time passes, timers fire, effects run, and the browser ends every request, if
only with an error; the user owes nothing. *Verification* has no liveness property: the
download uses `http.DefaultClient`, which has no deadline, so none could be stated. The
other frontend modules have safety properties only; what they say of a page at rest
(`EveryGrantIsShown`, `AccountShownIsSelected`, `ListCurrent`, `NoIdleSkeleton`) holds in every
state where nothing is under way, without fairness.

## 5 What is proved

Eight proof modules; each EXTENDS what it is about and is checked by `tlapm` to the last leaf.
Two of them are about several components that share no state, `Tab_proofs` about three parts of
a browser tab and `Server_proofs` about two things the API keeps in memory.
They assume only the named assumption on the constants of the component
(`SessionAssumption`, `HubAssumption`, `CacheAssumption` of `TtlCache` and of `QueryCache`,
`ViewAsAssumption`, `VerificationAssumption`, `SocketAssumption`, `WritePagesAssumption`,
`FeedAssumption`, `ShellAssumption`, `ReadAssumption`, and `LimiterAssumption`, `KeyAssumption`,
`LoginAssumption` of `RequestGuards`), which TLC evaluates in every run.

| module | theorems | inductive invariant, and why it is needed |
|---|---|---|
| `SessionRefresh_proofs` | `TypeCorrect`, `Invariance`, `SingleFlight`, `NoSpuriousLogout`, `PairsStayTogether`, `BanIsEnforced` | `IInv`: that waiters wait for a live call is kept only because the leader waits with them (`LeadersWait`); that a burst is not told "revoked" because a call that began with a live token sees it rotated by itself only (`FreshUnlessRotated`); the ban by a bound on every token's expiry (`ExpiryInv`) |
| `Server_proofs`, of `WsHub` | `HubTypeCorrect`, `HubInvariance`, `LimitHolds`, `SlotsAndChannelsAgree`, `GapsEndTheStream` | `HubInv`: a slot and an open channel are the same thing only for clients whose pumps run, which takes that nothing happens to the others (`NothingBeforeServing`) |
| `Server_proofs`, of `TtlCache` | `CacheInvariance`, `FetchesAreNeeded`, `FlightsAreSingle`, `CacheKeepsPromise` | `CacheInv`: `VersionInv` orders the versions along a value's way from the source to the caller; with it every step of the cache is a step of `MonotoneReads` or a stutter, which is `CacheKeepsPromise` |
| `Tab_proofs`, of `ViewAs` | `ViewInvariance`, `SessionIsWatched` | `ViewInv`: a session is watched only as long as a timer belongs to a session and nothing runs before the mount |
| `Tab_proofs`, of `LiveSocket` | `SocketInvariance`, `Once`, `Subscribed`, `LoneEventsHeard` | `SocketInv`: an event comes once because only the current socket carries subscriptions (`SubscriptionsOfCurrent`), which holds because a connection replaces only a socket that is not open, and the topics are always sent through the current one; what is sent at an opening covers every handler (`HandledTopicsPending`) |
| `Tab_proofs`, of `GrantFeed` | `FeedInvariance`, `FeedTypeCorrect`, `NoGrantShownTwice`, `GrantsAreShown`, `GrantsKeepOneLevel`, `PagesComposeOnce` | `FeedInv`, below |
| `Verification_proofs` | `Invariance`, `StoredIsMatched`, `OnlyCheckedBinaries`, `RacesHeal` | `VerificationInv`: `RequestInv` carries what a request has established (a match, a checked download, a file) over the steps of the others; a request's answer is still open while it runs. A match explains the code on the chain because what `Trim` leaves and what it cuts off are the code (`TrimmedIsPart`). A file is incomplete only as long as the request of `last` writes it, or in `spoilt`: nobody else's end changes either (`BrokenOnlyIfSpoilt`) |
| `RequestGuards_proofs` | `Invariance`, `FirstAreServed`, `StaleAreSwept`, `WithdrawnRunOut`, `NewKeysGetIn`, `RoomIsFreed` | `Inv` has a part for each guard. Limiter: an entry counts the requests of its last window, swept or not, and windows do not come back (`CountsHold`). Keys: what is cached was written no longer than a fetch takes before it was stored (`CacheRecent`), and who looks a key up has just seen that it is trusted (`CacheTrusted`); for the new keys, a key the cache lacks was published after its fetch began (`CacheNews`), and the last fetch for an unknown key has been stored, has failed or is under way (`RefetchGoesOn`). Logins: what the last sweep left had not expired then, and what is stored is unused (`LoginInv`) |
| `WritePages_proofs` | `Invariance`, `RequestsAreWhole`, `ListedFilesStay`, `ShownIsTheServers`, `AccountIsTheWallets` | `WriteInv`: in the form, the main file is one of those listed, and a request keeps the files of the moment it was sent; a selection adds only names that are not listed, so what is listed under a name stays until it is removed. For the wallet, a message to a page that listens tells the account of now, or that a read failed, unless a change is behind it in the queue (`MessagesCurrent`), so a page that has no change to hear of shows the account, or shows none and is about to read it or has failed to (`WalletFollows`). In the linked addresses an answer that is under way is current too (`AnswerCurrent`), no list is fresh while it is fetched (`FetchedWhenStale`), and between a change at the server and its announcement nothing is claimed (`NothingDone`). Steps of one page leave the variables of the others alone, but for the unmounting of `PulledAway` |
| `Shell_proofs` | `ShellInvariant`, `LinksAreAlive`, `HighlightIsOfTheUser`, `SuggestionsFollowTheText`, `ButtonShowsTheWallet` | `ShellInv`: the newest request of the search field is for its text and every older one is late, or has been answered (`NewestIsOfTheText`); the last word on its way from the wallet is of the chain the page knows, or is a change, and tells the chain the wallet is on (`LastWordIsOfTheWallet`); what was fetched agrees with the mode (`NavInv`) |
| `ReadPages_proofs` | `ReadInvariance`, `TypeCorrect`, `EveryAnswerIsAsked`, `AnswersAreOfTheSession`, `SkeletonsAreAnswered`, `NewRowsHaveANotice`, `GrantsShowWhatWasChecked` | `ReadInv`, below |

**The pages that read.** Their properties relate what a page shows to a cache that any of the
sixteen pages may have filled, so the invariant has to speak of every entry, not only of those
that are read. `RequestOf` says which request a key stands for; that each page asks for nothing
else under it (`WellAsked`) is a fact about each page's `...Queries`, and makes every entry and
every request under way one of its key (`CacheWhole`). Of what the backend may say only what
the pages rely on is kept (`Plausible`). `OwnSession` says whose answers there are, and which
of another session are left: those marked late and those that are about to be replaced.
`NotesFit` and `NotesTaken` relate the row a list took notice of to its table, `FeedFits` and
`FeedIsThePages` the feed of a grant to the check it hangs on; the latter needs that a
disclosure goes with its last reader (`ReadsWhole`). Every action but those elsewhere ends in
`Show`, so the proof has one lemma for it: a tab that may be rendered (`Renders`) is rendered
to one with the invariant (`ShowStep`), for which effects settle after two rounds
(`EffectsSettle`) and the grant a page shows is not changed by readers that come and go
(`ShownGrant`). Each action then only has to produce such a tab. What the views say of an
entry (`Honest`, `HeadedBy`) is proved page by page.

**The disclosed rows.** `GrantFeed`'s properties are about arithmetic as much as about steps.
Positions keep the order of the transactions, with indices and without (`PositionsAscend`), and
pages descend, so the windows between their last rows are disjoint (`WindowsApart`) and cover
the chain (`WindowsCover`: the first page whose lower end a position reaches has it). That a
page works with its own window in spite of budgets takes `LookupWhole`: the pages a lookup has
passed are empty, nothing is read before it ends, and it ends with the right edge. That its rows
are what the window holds takes `RowsWhole`: each row is of the window and was read, and what was
read of the window is a row. One request keeps both because the loop of a source reads down to a
transaction where it can go on, or to where nothing of the window is left (`LoopReads`). Least
elements are found by the library's minimum of a well-founded order (`LeastExists`); with them
the two folds of `mergeTransactions` are unfolded by the size of the set (`FoldUnfolds`), and
what `Accept` keeps, a fold keeps (`FoldKeeps`): every own row, and one entry for a transaction.

Some theorems are of definitions no run lists: the inductive invariants, the types,
`ConnectionLimit`, `OneFlightPerKey`, `CookiesPaired`, `ConnectedMeansSubscribed`,
`NoForeignBinary` and `SweepLeavesNoStale`. TLC has checked these on the same instances.

Each proof has one lemma per action, and under it one step per conjunct the action can
disturb; the temporal step combines them by PTL.

*Only model-checked:* the liveness properties (`RefreshReleasesWaiters`,
`SlowClientNeverStallsHub`, `SlowClientDropped`, `EveryGetReturns`, `StaleBannerLeaves`,
`LossLeadsToAttempt`), since the prover does not treat fairness and ENABLED, and the
counterexamples of section 6. Every safety property a run checks is a theorem.

## 6 Where code and text disagree

Found while the models were written; `PROJECT.json` quotes each under `findings`, with the
steps of the model that lead to it.

Eleven sentences of the repository are written out as properties, under "What the repository
says and the code does not do" in their modules. No run lists them; added to the `.cfg` of
the run named, TLC finds the counterexample.

1. A logout revokes the refresh token its request was sent with, which the middleware has
   just rotated away: the new one stays live (`LogoutRevokesSession`, `session_live`).
2. "Every waiter receives the same pair": not if the leader's browser goes away, because
   the call runs under its context (`WaitersReceivePair`, `session_live`).
3. "Unregistering drops the client from every topic": a subscription that its ReadPump
   handles just then puts it back (`GoneClientsUnsubscribed`, `hub_clients`).
4. "Errors are not cached": a contract read of which one half failed is
   (`FailuresNotCached`, `cache_reads`).
5. "The ?as= parameter must be read before any route component renders": it is read after
   the effects of the pages below, whose first reads go out unscoped (`ScopedFromMount`,
   `view_tab`).
6. "The first `limit` requests in a window pass; the next is 429": a client whose entry is
   swept between the arrival of a request and its count gets a second entry, and more than
   the limit in one window (`LimitOfClient`, `request_guards`).
7. The enforcement window of a ban "is at most AccessTokenTTL": a server with a token verifier
   takes tokens for its leeway longer, 30 s unless configured (`BanWindowIsTTL`,
   `session_renewal`).
8. "Broadcasting new blocks and transactions to the frontend": messages that wait for a slow
   client share a frame, which the frontend cannot parse; all of them are lost while it is
   connected and subscribed (`JoinedEventsReachHandlers`, `live_socket`).
9. An exact match is an "exact bytecode match": what a request gives as constructor arguments
   is cut off the code on the chain, so with the whole code as arguments an interface, which
   compiles to nothing, matches and is stored (`StoredIsOnChain`, `verify_rows`).
10. "Verification using specific solc versions": another one may run (`UsedIsClaimed`,
   `verify_rows`).
11. A download is reported as installed although another request has truncated the file
   meanwhile and then failed: what is registered need not run (`DownloadedIsWhole`,
   `verify_rows`).

The others are single steps of the models:

* *View as user*: switching targets on the entry page always fails; the URL loses its token
  at once, so refreshes and links do not carry it; no 401 clears the session.
* *Verification*: a row is keyed by the address as it was spelt, so a contract can be
  verified and stay unverified on its page; a truncated compiler is registered at the next
  start.
* *Request guards*: the sliding window of the rate limiter is a fixed one; after a rotation
  only one request fetches the new key and those beside it are refused, and an unknown key
  uses up the interval in which a new one would be fetched.
* *WebSocket client*: address events reach no handler, because the message names the kind
  and not the address; a disconnected client connects again; a replaced socket that closes
  makes the client believe it is offline.
* *Pages that write*: two files of one name in one selection are both listed, and the second
  replaces the first in the request; a wallet whose first read fails is not asked again; a
  provider that appears after the mount is never listened to; an artifact's compiler is matched
  by prefix; the banner of a verification leads to the address in the field; a finished import
  pulls the user away from another page and is not disabled while viewing as another user; the
  wallet comes back after a disconnect, or is waited for after a refusal; wei are sent as whole
  coins; two unnamed arguments share one field; the marks of two unlinks are mixed up.
* *Shell*: late suggestions replace newer ones, and Enter may follow an old one; the network
  can be added with the wrong RPC before the mode is known; a dialog reopens by itself; the
  header polls while the mode is unknown; a failed logout looks like a logout; a login from a
  disclosure page loses the base path.
* *Pages that read*: the notice of new blocks comes back after it was clicked or counts rows
  that are shown; rows flash that are not new; the holdings' skeleton stays after an error;
  a transaction page may show no tab; event signatures share a cache entry; answers of an
  ended session survive a logout in two cases; pages past the end are empty; block 0 links to
  block -1; a hidden creator is a link.

## 7 What is not modelled

* Signature checks, encryption and hashing: what they decide is an outcome.
* Message contents and layouts, except where two of them must agree.
* Read-only handlers and clients that make one call and convert the answer.
* The bytes of code in `bytecode.go`: code is a sequence of pieces, and metadata is a piece
  (the search for its markers, and the length below which there is none, are left out).
* Of the frontend: the browser's history, the signature lookups of a log card, the tree of
  internal calls, clipboard and tooltips, the argument parsing of a function card, the
  settings of the verification form beyond blank or not, the pages for developers
  (`ApiDocs.tsx`, `ChainInfo.tsx`, which are text around one answer). react-query, react-router
  and the wallet are external and modelled from how the code uses them.
* The link between modules that only share a value: a tab that views as another user reads
  through `ReadPages` as if that user were signed in; the events of `LiveSocket` only make a
  page ask again.
* Components of section 1 without a module: `PROJECT.json` says of each whether it is
  planned or why it is left out.

## 8 Plan

What remains, in the order of what can go wrong unnoticed; each adds a module, its
instance, its mutants, and the proof of its invariant unless noted.

1. **Paging** (`paginate`, `cursorPage`, `lookupAddressInfo` and the list handlers of
   `api/handlers.go`, `publicapi/handlers.go`): pages by block number against the whole
   list; all lists of up to five transactions in three blocks, limits 1 to 3. Lemmas: a
   page is a prefix; the union of pages is the list if no block straddles two of them.
2. **Lifecycle** (`api/server.go`, `cmd/api`, `chaininfo`, `price`): start, readiness,
   drain, shutdown, exit, composed with the shutdown of `WsHub`. Properties: readiness is
   gone before the listener is; requests in flight finish or the process says so.
3. **LiveFeed**: `LiveSocket` composed with an abstract hub that `WsHub` implements, so that
   slow clients, their closing and the reconnection meet in one model.
4. **More proofs**: that `WsHub` implements an abstract feed (each client receives a prefix
   of the events after its subscription, and is closed at the first gap); that
   `Verification` implements a table whose every row was matched.
