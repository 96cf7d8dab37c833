# AAGSNC in TLA+

AAGSNC is a collection of small programs that share a repository and, in part, a
purpose: a server that collects track-day schedules from club web sites and
publishes them, a coffee shop with a cart, and tools that personalise smart
cards over the network; and it carries the source of node 0.10.21, which the
server runs on.  This directory holds TLA+ models of the parts that have
state worth reasoning about, the TLC configurations that check them, and TLAPS
proofs of what matters most.

- [1. The system](#1-the-system): components, state, interactions
- [2. The models](#2-the-models): which module models what, and how
- [3. Runs](#3-runs): what TLC checks, bounds, fairness
- [4. Proofs](#4-proofs)
- [5. Findings](#5-findings)
- [6. Not modelled](#6-not-modelled)
- [7. Plan](#7-plan)

## 1. The system

The repository's own programs are about 2,600 lines.  Most of the 8,300 files
come from elsewhere.  Of these, the C and C++ of node's core
(`src/0.8.10/node-v0.10.21/src`, and `tools/wrk` with its HTTP parser) is the
largest body of program that the server depends on and that is in the
repository as source, so it is modelled too, as far as it keeps state.

| Component | Source | State it keeps | Operations |
|---|---|---|---|
| Scrapers | `src/main/nodejs/src/main.js` 1-249, 350-414 | the global list `states`, one entry per club site; the four parsers | `onopentag`, `ontext` of four sites, `getMyState`, `nextState`, `resetState`, `parsedomfor` |
| Track-day server | `main.js` 250-349, 415-478 | `arrayOfSchedules`, open responses, outgoing POSTs; the Cassandra table `schedules` | `/refresh`, `/update`, `/pingback`; `addscheduletodb`, `getschedulefromdb`, `pushtogae`, `pinggae` |
| Connection pool | `src/node_modules/helenus/lib/pool.js`, `connection.js` | `clients`, `dead`, monitor timers | `connect`, `cql`, `getConnection`, `monitorConnections` |
| HTML parser | `src/node_modules/htmlparser2/lib/` | tokenizer state and buffer | `write`, `end` |
| Track-day site | `src/main/python/src/trackdays.py` | `Trackday` entities in the App Engine datastore | `UpdatePage.post`, `MainPage.get` |
| Shop cart | `src/wcr/wcr/cart.py`, `views.py`, `models.py` | `Bag`, `Item`, `Product` rows, Django sessions, cookies | `add_to_cart`, `remove_from_cart`, `clear_cart`, `cart`, `shop`, `detail` |
| Shop content | `src/wcr/wcr/urls.py`, `admin.py` | rows edited in the Django admin | pages that render them |
| Secure-element controller | `src/main/go/src/persomifare.go` | none but the process: a handler per client | `getData`, `pushCard`: begin, send, end; `log.Fatal` on any error |
| Push-provisioning client | `src/main/dart/secontroller/web/pushprovision.dart` | one static `State` of the conversation, the spinner | `startPush`, `loadEnd`, `postSoap` |
| Personalisation pair | `src/main/go/src/persotool.go`, `src/main/dart/persoclient/web/persoclient.dart` | the client's socket, reconnect timer, `isFirstTime`, list of cards | connect, `go`, reply, close, reconnect |
| Peer registry | `src/main/go/p2p/pbscafe/pbscafe.go`, `src/main/go/src/pbsclient.go` | `Peers` entities keyed by remote address | register, list the ten newest |
| Card-data tool | `src/main/go/src/crypt.go`, `perso/persodata.go` | none | decodes card data and prints it again |
| Browser demos | `bleclientview.dart`, `persoui.js`, `database.js` | none another part reads | render, log |

The core of node, below `src/0.8.10/node-v0.10.21/`:

| Component | Source | State it keeps | Operations |
|---|---|---|---|
| Handles and streams | `src/handle_wrap.cc`, `stream_wrap.cc`, `tcp_`, `pipe_`, `tty_`, `udp_`, `timer_`, `signal_`, `process_`, `fs_event_wrap.cc`, `req_wrap.h` | a wrapper for each handle, a request for each write, connect, shutdown, send | open, read, write, send handles, accept, spawn, close, and the callbacks of each |
| Memory of buffers | `src/slab_allocator.cc`, `node_buffer.cc`, `string_bytes.cc`, `lib/buffer.js` | the slab reads share, the pool small buffers share, views of blocks | `Allocate`, `Shrink`, `slice`, `fill`, `copy`, the writes and slices of each encoding |
| HTTP parser and binding | `tools/wrk/src/http_parser.c`, `src/node_http_parser.cc` | state of the message, mark of the open field, strings that were saved | `http_parser_execute`, `parse_url`, pause; `Execute`, `Flush`, `Reinitialize` |
| Crypto | `src/node_crypto.cc`, `lib/tls.js`, `lib/crypto.js` | contexts and their stores, ciphers and digests, keys, connections, requests underway | set up, feed, finish, `computeSecret`, `pbkdf2`, `randomBytes`, `EncIn`, `ClearOut`, ... |
| Names | `src/cares_wrap.cc`, `tree.h` | sockets of c-ares, a timer, queries | `Query`, `ares_sockstate_cb`, `ares_poll_cb`, `RB_INSERT`, `RB_REMOVE` |
| Files | `src/node_file.cc`, `lib/fs.js` | requests underway and the memory they use | 30 calls, each with a callback or at once |
| Ticks and immediates | `src/node.cc`, `node.js` | queue of ticks, `tick_infobox`, spinner, check watcher | `MakeCallback`, `nextTick`, `_tickCallback`, `setImmediate`, exit |
| Zlib | `src/node_zlib.cc`, `lib/zlib.js` | stream, chunk, output buffer | `Init`, `Write`, `Process`, `After`, `Reset`, `Close` |
| Load generator | `tools/wrk/src/wrk.c`, `ae.c`, `ae_epoll.c` | connections, table of events, descriptors | `connect_socket`, `socket_writeable`, `socket_readable`, `reconnect_socket`, `request_complete` |

### How they interact

```
 club sites --HTTP chunks--> 4 parsers --callbacks--> states (shared list)
                                            |
                                            v  addscheduletodb, one pool.connect per row
                              helenus pool ---> Cassandra table schedules
                                            ^
   client --/refresh,/update,/pingback--> request handler
                                            | pushtogae: POST of arrayOfSchedules
                                            v
                              App Engine /update --> datastore (eventually consistent index)

 browser --cookie--> Django view --> Cart --> bag, item rows
                        ^ session read once ... written with the response

 push browser client ----------SOAP POSTs----------> SE platform
 any web-socket client --JSON--> Go SE controller --SOAP POSTs--> SE platform
 card browser client --web socket--> Go personalisation server --> Cassandra
 peer client --HTTP--> App Engine peer registry
```

The server is single-threaded: a callback runs to completion, and between two
callbacks of one command anything else runs.  Only the shop and the App Engine
site run handlers truly side by side.

```
 JavaScript <--methods, callbacks--> wrappers, parsers, streams (C++) <--> libuv loop
     ^                                     |  requests                        |
     +---- ticks, immediates <-- MakeCallback                     thread pool (crypto,
                                                                   files, zlib, names)
```

Node itself has one thread for JavaScript, the C++ functions it calls and the
callbacks of libuv.  A callback enters JavaScript in the middle of a C++
function, and JavaScript may call back into any other, so that what the function
finds when it goes on is not what it left.  Work on passwords, files and
compressed streams goes to libuv's threads, which hold pointers into memory that
JavaScript's collector owns.

### What is hard, and what must hold

- **Scrapers.** Four parsers take turns on one list that is searched by key,
  with a slip in the search (`main.js:41`: a list of one entry is not searched).
  Chunk boundaries fall anywhere, `end()` is called after every chunk, and two
  `/refresh` requests feed the same parser in turns.  It must hold that a row of
  one club never carries a text of another, that a half-read listing is never
  orphaned, and that the damage of a bad boundary stays local.
- **Server and pool.** Every row and every `/update` opens a connection more;
  connections die; INSERTs of one key race on different connections; POSTs of
  ever longer lists overtake one another; any throw ends the process.  A
  statement must find a connection, the table must hold the newest row, and a
  late POST must never bring in anything but an older state of the same list.
- **Site.** Query, deletes and put of two handlers interleave, and the query
  reads an index that lags.  A list must not vanish but for a newer one, and an
  old one must not stay.
- **Cart.** Sessions lapse, are created anew, saved late and over one another;
  items are looked up and written in separate transactions.  No two shoppers may
  ever share a bag, a row may only be touched by the shopper it belongs to, and
  a shopper who does one thing at a time must find in the cart what was asked for.
- **Secure element.** A conversation begun with the platform should be ended,
  though pushes overlap on one `State` and one failing handler of the
  controller ends them all.
- **Personalisation.** The client must have one live socket at most, and load
  the cards once, however often the connection breaks.
- **Peers.** A peer that registered must be listed.
- **Node.** Wrappers and requests must outlive their use by libuv and by the
  C++ function that is underway.  No two reads may share a byte of a slab, and no
  call that checks its arguments may leave its buffer, for arguments of any sign
  and width; the accessors of floats and doubles can be told not to check
  (`noAssert`).  What the script hears of an HTTP message must not depend on
  where its bytes were cut, up to the limit it sets on headers
  (`maxHeaderPairs`).
  A context must check peers against what it was given, a cipher lose no byte,
  both parties of a key exchange get one secret, and OpenSSL see the bytes of a
  peer in order though some were held back.  A query, a file call, a chunk has
  one answer, with memory that is its own till then, unless the script resets a
  zlib stream while a thread works on it.  What was deferred is done
  once, in order.  The load generator must not take one connection's event for
  another's.

Each hazard with its line and the properties that cover it is listed in
`PROJECT.json`.

## 2. The models

| Module | Models | Extends |
|---|---|---|
| `SiteStates` | the shared list and the eight callbacks over it | |
| `Scraper` | pages, chunks and responses that drive the callbacks | `SiteStates` |
| `TrackServer` | commands, statements, the pool, crashes, POSTs | |
| `TrackdaysGae` | `/update` of the App Engine site | |
| `Shop` | the cart, the sessions, the cookies | |
| `PersoLink` | the personalisation client, its server, and the socket between them | |
| `ProvisionClient` | the pushes of the browser client | |
| `Conversation` | what the platform may see of a conversation (abstract) | |
| `SeController` | the controller's handlers, its process, the POSTs | `Conversation` as an instance |
| `NodeHandles` | wrappers of libuv handles and their requests | |
| `SlabAllocator`, `Buffers`, `StringBytes` | the memory reads share, views of memory, bytes and strings | |
| `HttpParser`, `HttpUrl`, `HttpBinding` | the parser of HTTP messages, that of URLs, node's use of the first | |
| `CryptoContexts`, `CryptoObjects`, `DiffieHellman`, `CryptoRequests`, `TlsConnection` | the five kinds of objects of `node_crypto.cc` | |
| `CaresQueries`, `TaskTree` | DNS queries, the tree their sockets are in | |
| `FileRequests`, `ProcessTicks`, `ZlibStreams` | file calls, ticks and immediates, compressed streams | |
| `LoadGenerator` | a thread of `wrk` | |
| `NodeParts` | the parts that hold something for others: handles, slab, buffers, strings, crypto requests, TLS, DNS, files, ticks, zlib, load generator | each as an instance |
| `NodeData` | the parts that turn bytes into what they mean: HTTP, URLs, the binding, contexts, crypto objects, key exchange, sockets' tree | each as an instance |
| `NodeCore` | these eighteen parts, side by side | `NodeParts`, `NodeData` |
| `ScraperProofs`, `ShopProofs`, `SeControllerProofs` | theorems | the module they are about |
| `TrackdayProofs` | theorems | `TrackServer`, `TrackdaysGae` |
| `CardProofs` | theorems | `PersoLink`, `ProvisionClient` |
| `NodePartsProofs`, `NodeDataProofs` | the invariant of each part, as lemmas | `NodeParts`; `NodeData` |
| `NodeCoreProofs` | theorems | `NodeCore`, `NodePartsProofs`, `NodeDataProofs` |
| `MC...` | values of the constants for TLC | the module they check |

`PersoLink`, `ProvisionClient` and `NodeCore` need nothing but numbers, model
values and sets of them for their constants, so their cfg files instantiate them
directly.

Definitions whose comment begins with *Slip* are variants of the definition after
them, as a plausible mistake would have written it.  No action uses them; they
are there to show that each property can be broken by a change to the code.

### SiteStates and Scraper

`states` is the JavaScript array, with the same fields; a text is a piece
`<<what it says, site, listing>>`, so that a row can be told to mix two listings
or two sites.  The open-tag callbacks are tables of moves (tag, states it is
taken from, state it leads to): a tag satisfies at most one `if` of the code.
The Let's Ride scraper gives itself an entry on any tag and then compares the
one it had looked up before, so a first tag never counts; `OnOpenTag` keeps that.

`Scraper` delivers the pages.  A step delivers one parser event, whole or cut
by a chunk boundary.  What a boundary does was read from
`htmlparser2/lib/Tokenizer.js`: a text is emitted in two pieces (`SplitText`),
the half of a tag in the buffer may come out as a text when `end()` is called
while the tokenizer stays inside the tag (`SplitTag`), and what follows from
another response is part of that tag until it ends (`Swallowed`).  `write()`
after `end()` goes on parsing in this version, so parsers are never renewed.

The pages are constants.  `PagesAssumption` says what a scraper is made for, as
its conditions say: listings, each the same sequence of steps (`StepsOf`), with
tags in between that it does not look for, one of them first.  `Place` gives, for
each position of a page, the listing and the step it is due at.  The properties
that count rows and their proofs use it; TLC evaluates it for the pages it runs.

Left out: the group of a Keigwins row is read but never inserted; tags that only
log; failing sites, which log an error (the set `up`).

### TrackServer

A row or an `/update` that needs the database is a *task*: `connecting`, `sent`,
then `done`, `lost`, or `noconn` if `getConnection` found nothing.
`Connected` is the whole callback of `pool.connect`: the connection is pushed to
`clients`, and the statement goes to a random client; the ones found closed move
to `dead`, for which `Reconnect` stands in the monitor.  `Die` is an uncaught
throw (`main.js` throws in both database callbacks, and has no error handler on
the POST): everything in memory is gone, statements already sent may yet arrive.

`needscheduleupdate` always returns true and `resetdb` is empty, so neither has
a step.  The row of a key is named by its number in scraping order, so "newer"
means scraped later.  `raced` is a history variable: keys that had two rows
underway at once.

### TrackdaysGae

One POST is `Query`, then one `Delete` per entity seen, then `Put`; any may be
the last (`Fail`).  `indexed` is what the next query will return; `CatchUp` moves
it towards `table` one entity at a time.  The datastore is external: it is
modelled as far as the handler can see it.

`MainPage.get` changes nothing.  It compares a `datetime` with a string, which
raises as soon as there is an entity, so it answers with a time stamp at most.

### Shop

A request is `Arrive`, `OpenCart` (the session is loaded and `Cart.__init__`
runs), the queries of the view one by one (`GetItem`, `InsertItem`, `SaveItem`,
`FindItem`, `ListItems`, `DeleteItem`, `Deleted`), `Reply` (the middleware
writes the session) and `Receive` (the cookie is set).  `Fail` may end it
anywhere.  Each query commits on its own: the settings have no
`ATOMIC_REQUESTS`.  `Expire`, `Forget` and `Withdraw` are the session lapsing,
the cookie going and the owner deleting a product.

Rows are named after the request that creates them: a request creates one
session, two bags (the second after a clear) and one item at most.  Merged
steps: the product lookup with the arrival, and the insertion of the bag with the
load of the session; nobody can see the bag before the session names it, and the
product is not read again.  `Cart.update` has no effect and no caller.

History variables: `expected` is what the shopper asked for, `calm` the shoppers
for whom nothing overlapped or failed, `twice` the products two adds worked on
at once.

### PersoLink

A socket has two ends: `sock[n]`, what the client knows of it, and `handler[n]`,
where the server's handler for it is.  The client's fields keep their names;
`timers` counts the reconnect timers that are running, `cards` the entries of
`mCardIdentifier`.  `connect`, `onConnected`, `onDisconnected` and `onMessage`
are the methods.  Losing a connection is `Close` (the server's close arrives) or
`Break` (it goes at any time); either may be reported by `onError`, by `onClose`
or by both, which is what the guard of `onDisconnected` is for.  The server's
handler is `Read`, then `Reply`; `Die` is any `log.Fatal` of `fetchCards`,
`Stop` and `Start` are the person at the server's console.

Since the client never asks twice, a connection it does not ask on stays open
until it breaks or the server ends; the model keeps such handlers waiting in
`Read`, as the code does.  `onMessage` may stop at a card that does not decode,
so it adds any number of cards up to `NumCards`.

### Conversation and SeController

`stage[h]` is where handler `h` of `SEController` is: the name of the POST it
waits for, once it has a command (`getData` and `pushCard` do the same).
`post[h]` is a POST on its way, `Arrives` the platform hearing it, `Answered`
the return of `soapRequest`, which looks at no status.  `Fatal` is any
`log.Fatal`: the process ends, and all its handlers with it; what they have sent
may still arrive, also after the next `Start`.  The envelopes are empty strings
in the repository, so a POST is known by the function that makes it.

`Conversation` is what that should look like from the platform: POSTs of a
conversation in order and each once, the client told it is over only when all
of it was heard, conversations given up only all together, and one POST of each
at most still coming after that.  `SeController` implements it under the mapping
`statusOf`; `heard` is the same variable in both.

### ProvisionClient

`startPush` replaces the one `State` and posts; `loadEnd` is the callback of one
POST, in any order, with one of three outcomes: `ok` (200), `none` (status 0: no
answer at all, which the code treats like 200) and `refused` (any other status).
`posts` is the history of all POSTs.  `nextState` is `getStatusState`: the last
state has no case of its own, so the field keeps the value it was entered with,
and that ends the conversation.  The platform appears through its answers only.

### The parts of NodeCore

`NodeCore` chooses a part in its initial state and runs it.  The parts share no
variable: in the code, what one does to another passes through JavaScript, and
each part lets JavaScript do whatever its interface allows.  An interleaving of
two parts would therefore reach no state of either that it does not reach
alone, and one run of eighteen alternatives replaces eighteen runs.

A bound that stands for a machine constant keeps its order and its ratios only:
`U32` and `SizeT` are the widths a sum wraps at, `HttpWidth` that of
`content_length`.  Numbers that are compared with them are scaled with them.

- `NodeHandles`: `wrap[h]` is the C++ object, `uv[h]` the handle as libuv has it,
  `req[r]` a request, `frame` the C++ function that JavaScript returns to, if
  any.  `Return` is the rest of that function, so that everything else may
  happen between a callback and the `delete` after it.  `lib/net.js` and its like
  drop `_handle` in the turn they close it, so a closing handle only meets
  `close`, `ref` and `unref`.
- `SlabAllocator`: `Allocate` from `OnAlloc`, `Shrink` from the read callback.  A
  read that ended leaves what it read in `given`, the regions JavaScript holds.
- `Buffers`: a buffer is a range of a block; a call notes in `touched` the ranges
  it reads or writes, through which view, and whether it was told not to check
  (`noAssert`, of floats and doubles: then a read is wherever the offset says,
  and a write where `ToUint32` of it says).  Checks are made in the integers of
  their types.
- `StringBytes`: encodings as functions from bytes to characters and back, with
  the tables, the skipping of foreign characters and the short cuts by words.
- `HttpParser`: one step takes one byte, where a byte is a class of characters
  that meet the same branch.  A chunk may end and a callback may pause after
  any.  `owed` and `gap` count what no callback has been given yet.
- `HttpUrl`: character by character, over one character of each class.
- `HttpBinding`: bytes are known by the run they belong to and their place
  there; a `StringPtr` is an address in the buffer or a copy.  `hlimit` is
  `maxHeaderPairs` in headers, set when a parser is taken for a connection;
  `parserOnHeaders` stops collecting at it, and `CountedOff` is the loop of
  `parserOnHeadersComplete`.
- `CryptoContexts`: two contexts set up side by side by `createCredentials`, one
  shared store of roots, one error queue.  `CryptoObjects`: one object fed in
  pieces of any size.  `DiffieHellman`: both parties, in small numbers.
  `CryptoRequests`: who owns the memory of a request that a thread works on.
  `TlsConnection`: bytes are their place in the stream; OpenSSL is what takes
  bytes from one BIO, makes or resumes a session, and says when it is done.
- `CaresQueries`: `stack` is what is still to be done by functions that called
  others; c-ares, external, opens and closes sockets and answers when it likes.
  `TaskTree`: the macros of `tree.h`, pointer by pointer.
- `FileRequests`: the arguments are checked, then a thread works, or the call is
  made at once; the collector may take the buffer as soon as nobody refers to it.
- `ProcessTicks`: `frames` is the stack of callbacks; a callback may make ticks,
  call another, return or throw.
- `ZlibStreams`: how much zlib takes and gives is free, what it makes is left
  out.  The script may reset the stream at any time (`ScriptReset`): neither
  `ZCtx::Reset` nor `Zlib.prototype.reset` looks at the thread.  `zreset` keeps
  whether that was while the thread worked (`raced`: from then on zlib stops
  anywhere within its input and its room, the process may end, and
  `SetDictionary` may fail, whose `Error` releases what the thread still uses) or
  after it ended and before `After` read `err_` (`late`).
- `LoadGenerator`: a descriptor that was closed may be the next one opened.

What the libraries (V8, libuv, OpenSSL, c-ares, zlib) do is modelled as the code
relies on it and marked external in `PROJECT.json`.

## 3. Runs

| Run | Module, cfg | Checks | Instance |
|---|---|---|---|
| `scraper_damage` | `MCScraper`, `MCScraper.cfg` | `TypeOK`, `DamageBounded`, `NothingLost` | any one site up, 2 listings a page, 2 refreshes, 2 disturbances |
| `scraper_sites` | `MCScraper`, `MCScraperSites.cfg` | `OneEntryPerSite`, `OwnRows`, `FoundStays` | any one or two sites up, 2 listings, 1 refresh, 1 disturbance a site |
| `track_server` | `MCTrackServer`, `MCTrackServer.cfg` | `AlwaysAConnection`, `PushesArePrefixes`, `StaleOnlyIfRaced` | 3 requests, 2 keys, 2 rows, 3 connections, 1 crash |
| `commands_answered` | `MCTrackServer`, `CommandsAnswered.cfg` | `CommandsAnswered`, violated | 2 requests |
| `connection_per_server` | `MCTrackServer`, `ConnectionPerServer.cfg` | `ConnectionPerServer`, violated | 2 requests |
| `trackdays_gae` | `MCTrackdaysGae`, `MCTrackdaysGae.cfg` | `KeptUntilSuperseded`, `SupersededGone`, `EmptyOnlyMidway` | 4 POSTs |
| `shop` | `MCShop`, `MCShop.cfg` | `TypeOK`, `CartIsolation`, `DuplicateOnlyIfTwoAdds`, `CartAsShopped`, `OthersLeaveIt` | 3 requests, 2 browsers, 2 products |
| `perso_link` | `PersoLink`, `PersoLink.cfg` | `TypeOK`, `OneLink`, `CardsOnce`, `KeepsTrying`, `Answered` | 3 sockets, 3 cards, no bound on time |
| `se_controller` | `MCSeController`, `MCSeController.cfg` | `TypeOK`, `ScriptInConversation`, `OpenOnlyIfAbandoned`, `HoldsConversations` | 4 handlers, 2 secure elements, 3 starts |
| `provision_client` | `ProvisionClient`, `ProvisionClient.cfg` | `ScriptOncePerPush`, `ScriptsArePaidFor`, `NeverStuck`, `PushGoesThrough` | 3 pushes |
| `conversation_ended` | `ProvisionClient`, `ConversationEnded.cfg` | `ConversationEnded`, violated | 1 push |
| `node_core` | `NodeCore`, `NodeCore.cfg` | `NodeTypeOK`, `HandlesOutliveTheirUse`, `BytesApart`, `ParsersFaithful`, `CryptoKeepsItsWord`, `RequestsOwnTheirMemory`, `ConnectionFaithful`, `NamesResolved`, `DeferredIsDone`, `LoadKept` | see below |

What they show:

- `scraper_damage`: whatever the chunk boundaries, each disturbance spoils at
  most two rows, the one it breaks into and, where it goes on in the middle of a
  listing, the next; the cold start of the list spoils one more, of a site that
  another helps to its entry.  An undisturbed scraper loses at most one listing,
  and only if its site made the first entry of the list.  One site is up in this
  run.  That meets the lost listing (Let's Ride gives itself an entry and then
  does not find it), but not an entry that is found late because another site made
  the second: that term of `DamageBounded`, and both properties with several sites
  up, rest on the theorems.
- `scraper_sites`: the parsers may interleave as they like, rows stay with their
  club, and the list holds one entry per site but for the first two.
- `track_server`: `getConnection` always finds an open connection because
  `pool.connect` has just pushed one; the lists one process pushes are prefixes
  of one another; the table holds the newest row of every key that had no two
  rows underway together.
- `trackdays_gae`: handlers side by side leave several lists but do not lose one
  another's; an old list outlives a newer one only if the index hid it; the site
  is empty only between deletes and put, or after a handler failed there.
- `shop`: see the properties in section 1; every one holds through lapses,
  lost responses, withdrawn products and failing queries.
- `perso_link`: whatever breaks or stops, the client has one socket or one timer
  to make the next, lists the cards once, goes on connecting, and gets an answer
  if the connection it asked on lasts.  That a client whose first connection
  breaks stays without cards is why `Answered` has its second half.
- `se_controller`: handlers do not disturb one another's conversations unless
  they name the same secure element, and then only there; only the death of the
  process leaves one open; and the controller implements `Conversation`.
- `provision_client`: overlapping pushes steer one another through the shared
  `State`, but no push sends its script twice, every script follows two answers,
  and the spinner never turns over a conversation that has stopped.
- `node_core`: each property is, for each part it speaks of, that part's own; the
  parts' modules state it.
  `HandlesOutliveTheirUse`: libuv never knows a handle or a request whose memory
  is gone, whatever callbacks close.  `BytesApart`: rooms of reads, buffers and
  strings, each within its memory and apart from the others, but for a float
  or a double that is not checked.
  `ParsersFaithful`: callbacks, fields of a URL and headers given to the script
  are those of the message, however it was cut, the headers up to the limit.  `CryptoKeepsItsWord`: contexts,
  streams and secrets.  `RequestsOwnTheirMemory`: crypto, files and zlib,
  with what a reset under the thread spoils, and no more.
  `ConnectionFaithful`: the bytes, sessions and verdicts of a TLS connection.
  `NamesResolved`: one answer a query, a timer as long as there are sockets, and
  a balanced tree that finds them.  `DeferredIsDone`: ticks and immediates.
  `LoadKept`: events, descriptors, connections and counts of `wrk`.  What the
  code does not quite keep is written into the properties, see section 5.

**Bounds.** Two listings a page are the fewest that let fields of one end up in a
row of the other; two refreshes the fewest that overlap; with two disturbances a
second can hit what the first left behind.  Scrapers of two sites are as good as
four for a property that speaks of two entries at once, and the first two
entries of the list are the special case.  Three server requests let one
`/refresh` race two `/update`s; two rows of one key are a race; with three
connections one can be dead, one open and one new.  Four POSTs let two handlers
overlap after a finished one and before a later one.  Three shop requests let
two adds make a duplicate and a third meet it, and let two requests of one
browser race with one of another.  Quantities are `{2}` because an add of an
existing product adds one whatever the url says.

A socket's name returns when both ends have let go of it, so `perso_link` has no
bound on how often the client reconnects; a third socket lets a handler that is
still fetching outlive its connection while the next one is up.  Four
handlers let two race for one element while two more, before and after a death
of the process, work on it alone; the third start lets a POST outlive two.
Three pushes let answers to the first arrive after the second has been replaced in turn.

In `node_core`, two handles and two requests let a callback of one close, write
to and send the other, with both requests queued.  Two readers in a slab of 64
bytes, asking for 24, 40 or 72, share a slab, outgrow it, and need a buffer of
their own.  A header of ten classes of characters holds a first line and a
header that matters; content lengths of three bits wrap.  A URL of nine
characters has all its fields.  Two contexts are the fewest that share a store;
nine bytes are three blocks and leave every remainder.  With prime 5 and radix 3
a secret may be shorter than the prime.  Two requests and one thread make one
wait.  A hello of three bytes in a stream of four leaves a byte behind it and can
be cut anywhere.  Seven sockets give the tree a depth at which every case of
insertion and removal occurs.  Three ticks at depth two let rounds be exceeded
with a tick left.  Two buffers, with a block more for the pool to be renewed,
can lie side by side in it; lengths 3 and 20 fit in the pool of 16 and do not.
Five bytes leave every remainder of three after a whole group; the long lengths stand on both sides
of the words of the ASCII check.  Chunks of two bytes can be taken by halves.
With three slots two headers fill them and the third flushes these; a limit of
one header is exceeded with a flush and without.  Two connections with two
descriptors can exchange them.

**Symmetry** (`Reqs`, `Browsers`, `Products`, `Tracks`, `Posts`, `Handlers`, `Ses`) is sound: the
values are compared for equality only, no action chooses among them with
`CHOOSE`, and all symmetric runs check safety.  The runs with liveness use none.

**Deadlock** is checked in `perso_link`, which never ends.  Elsewhere it is not,
because requests, posts, pages, pushes, handlers, wrappers and queries are
one-shot in the models: when the last is done, the system rests.

**Fairness.** `PersoLink` assumes weak fairness of the reconnect timer (it
fires), of each handler's `Read` and of its `Reply` or `Die` (the read has data,
the query ends by its own timeout if need be), and of the delivery of what has
been sent (`onMessage`, `Close`: data arrives unless the connection breaks).
Connecting, breaking, stopping and starting are not fair.  `ProvisionClient`
assumes that every XMLHttpRequest ends with `loadend`, as the browser promises.
The other modules assume nothing and claim no liveness.  The track-day server
sets no timeout on any request it sends, retries nothing but pool connections,
and leaves some responses open by design; there is no progress to promise on
conditions the code itself provides.

## 4. Proofs

The proof modules are checked by `tlapm`; a theorem holds for every value of the
constants that satisfies the named assumptions, which TLC evaluates on every run.
Each invariant was first checked by TLC.  The theorems are listed in
`PROJECT.json`.

**ScraperProofs**, from `SitesAssumption`, `ScraperAssumption` (pages are
sequences of events, and the page of a club says nothing of another club's days)
and, for the last two theorems, `PagesAssumption`:

- `TypeCorrect`, `OneEntryPerSiteHolds`, `OwnRowsHolds`, `FoundStaysHolds` from
  `IInv == TypeOK /\ OneEntryPerSite /\ OwnText`.  `OwnRows` alone is not
  inductive: a row copies the fields of the entry the scraper found and the rest
  of a split text, so `OwnText` says that these, too, carry only texts of their
  own site.  `OneEntryPerSite` is inductive with the type, because a scraper
  pushes an entry only when it finds none; the list must then be of one entry at
  most or hold none of that site.  All callbacks of all scrapers are first
  reduced to three shapes (no change, one entry replaced under its key, one entry
  appended); each invariant is proved of the shapes once.
- `DamageBoundedHolds` from `DInv`, which keeps books for each site: the rows that
  are spoiled and those that may yet be spoiled though nothing disturbs the
  scraper any more (`RiskNow`: none, one or two, by how the entry and the place in
  the page stand to each other), taken together, are at most twice the
  disturbances and one for an entry found late.  A whole event never raises that
  sum; a disturbance raises it by two at most; another site's callback only by
  helping a site to its first entry.  The books need to know in which states an
  entry can be (`Known`) and where the pieces of a cut event are (`StreamOK`).
- `NothingLostHolds` from `NInv`: of an undisturbed site, the listings that went
  by, and one more while the scraper is out of step with its page, are at most the
  good rows, and one more for the site with the first entry.  A scraper that is out of
  step waits where the next listing finds it (`Patient`), and responses follow one
  another (`Orderly`).

**TrackdayProofs**, from `TrackServerAssumption`:

- `AlwaysAConnectionHolds`, `PushesArePrefixesHolds`, `StaleOnlyIfRacedHolds` from
  one `IInv`.  Its additions are `Grown` (what the process has posted is a prefix
  of the list it holds, so what it posts next extends it) and `NewestLast` (a row
  that is underway while a newer one of its key is there has raced).
- `KeptUntilSupersededHolds`, `SupersededGoneHolds`, `EmptyOnlyMidwayHolds` of the
  site, from `GInv`: a handler deletes only what its query returned, and that was
  stored before it (`SeenStored`); what was stored before a query and is still
  there was hidden from it or is yet to be deleted (`OldOnes`).

**ShopProofs**, from `ShopAssumption` (names are distinct from `None`):

- `TypeCorrect` from `TInv == TypeOK /\ Staged`: which locals a request has at
  each stage.
- `CartIsolationHolds` and `OthersLeaveItHolds` from `OInv == TInv /\ Owned`.
  Isolation is not inductive: it is kept only because *everything* that leads to a
  bag (cookies, session rows, items, locals of running requests, also stale ones)
  was created by a request of one and the same browser.  `Owned` says so, and
  isolation follows because a bag carries the name of the request that made it.
- `DuplicateOnlyIfTwoAddsHolds` from `DInv == TInv /\ OneAdder /\ ReadsHold /\
  OneRow`: unless two adds met, one request works on a bag and product, what it
  read still holds when it writes, and there is one row.
- `CartAsShoppedHolds` from `EInv`: for a shopper for whom nothing overlapped or
  failed, `Shopping` says at each query of the request under way what it has
  found and what the rows of the bag are, compared with what was asked for.  Other
  shoppers cannot disturb that because of `Owned` and because names of bags,
  sessions and rows are fresh (`Fresh`).

**CardProofs**, from `PersoLinkAssumption` and `ProvisionAssumption` (bounds are
natural numbers):

- `TypeCorrect` and `OneLinkHolds` from `LInv == TypeOK /\ OneLink`, which is
  inductive: a loss is only reported of the one live socket, and then the guard
  lets exactly one timer start; the timer is gone when the next socket is made.
- `CardsOnceHolds` from `CInv == LInv /\ OneQuestion /\ CardsOnce`.  `OneQuestion`
  is the strengthening: no cards are listed while the question is still to be
  put or on its way, and at most one handler is ever on its way to a reply.
- `ScriptOncePerPushHolds`, `ScriptsArePaidForHolds`, `NeverStuckHolds` from
  `WInv`, which counts: scripts sent and to be sent are at most the pushes, and
  twice the scripts, with the half that is paid for the next, at most the answers.

**SeControllerProofs**, from `ControllerAssumption` (the bound on starts is a
natural number):

- `TypeCorrect`, `ScriptInConversationHolds`, `OpenOnlyIfAbandonedHolds` from
  `IInv == TypeOK /\ Held /\ OneWorker /\ LeftMidway /\ ScriptInConversation`.
  `Held` says how much the platform has heard at each stage; `OneWorker`, that an
  element nobody raced for has one worker, whose conversation is open once it
  has begun; `LeftMidway`, that whoever left a conversation open was in the
  middle of it.  None of the properties is inductive without them.
- `HoldsConversationsHolds`: `Spec => Platform!Spec`.  A command is `Take`, an
  arrival `Hear`, the last answer `Finish`, a death `GiveUp`, and every other step
  a stutter.  `Held` is all the mapping needs: the POST that arrives is the next
  of the script, and the last answer comes when three were heard.

**NodeCoreProofs**, which also holds the lemmas on strings, with the invariants of
the other parts in **NodePartsProofs** and **NodeDataProofs**.  `PartStep` says that the part that runs takes its own steps
and stays the same, so that the invariant of a part, conditional on that part, is
one of `NodeCore`.  Assumptions are those of `NodeParts` and `NodeData`, with
their reasons there: sizes are natural numbers, libuv never suggests none,
integers of 32 bits hold every length, a block has a byte, a generator is below
its prime, bytes are bytes.

| Theorem | From | What the strengthening says |
|---|---|---|
| `HandlesOutliveTheirUseHolds` | `HInv` | what libuv knows is live; a request is on such a handle, and what it sends is open; what the C++ function underway goes on with is there |
| `BytesApartHolds` (slab) | `SInv` | rooms end before `offset_`, and all of a slab before the one `last_ptr_` names, which alone gives bytes back |
| `BytesApartHolds` (buffers), `ViewsApartHolds` | `BInv` | a view lies in its block and not before where it was cut first; of two first cuts the one ends before the other; what was cut from the pool is below `used`; what a call touches is in its view, or says that it was not checked |
| `BytesApartHolds` (strings) | itself | a call is one step; all the work is in lemmas on the encodings, see below |
| `RequestsOwnTheirMemoryHolds` | `JInv`, `FInv`, `ZInv` | a request of crypto is untouched, under way or over, and its memory has one owner accordingly; a file call's callback is on the stack once, with the arguments `After` makes; what zlib still reads ends where the chunk does, and what it still writes begins behind every slice handed out; a chunk that is done without an error has nothing left, unless a reset came late or raced |
| `ConnectionFaithfulHolds` | `CInv` | the BIO holds the places behind those OpenSSL has taken, and what the parser of the hello holds back comes behind these; nothing is passed on before it ends; the frame it gathers is one whose length was let pass |
| `QueriesAnsweredHolds` | `QInv` | which functions are on the stack for a query says how far it has come and what it was told |
| `DeferredIsDoneHolds` | `KInv` | a tick was called by the loop over the queue, of which there is one on the stack; ticks wait for it or for the spinner |
| `LoadKeptHolds` | `LInv` | the table of events, epoll and the connections agree on a descriptor; what is waited for was asked for, was lost, or is of no use any more; a thread told to stop makes as many requests more as the round has readable descriptors left |
| `ParsersFaithfulHolds` | `EInv` (messages), `UInv` (URLs), `MInv` (binding) | the field the parser is in is marked and what is marked is owed; fields of a URL still to come are empty and the present one goes up to here; of what was sent, so many headers have left the slots, and the script has these, or the first of them up to the limit; the rest is in the slots, with the last header a half one |
| `CryptoKeepsItsWordHolds` | `XInv` (contexts), `OInv` (ciphers), `DInv` (key exchange) | a context has a store of its own or the shared one, and what it was given is there; a stream gave out whole blocks and all but what it holds; a secret is what the keys it was made of make, padded |

`RoomsApartHolds`, `ContextsKeepTheirTrustHolds`, `ObjectsKeepTheirWordHolds` and
`FieldsAreRunsHolds` state what these say of one part.

The lemmas on operators carry as much as the invariants:

- *Recursive functions.*  Key exchange and encodings compute with recursive
  functions (`mod_exp`, `bn2bin`, `FlattenSeq`).  That such a function exists, and
  what it gives, is proved by induction on a set of numbers that holds 0 and with
  each number the next, which the well-foundedness of the numbers gives; the
  library's induction theorems, which take an operator, are not needed.
- *Key exchange.*  Powers of powers commute modulo the prime; a number is
  what its bytes say, zeros in front of them add nothing, and no secret has more
  bytes than the prime.
- *Bytes and strings.*  Pieces joined by `FlattenSeq` are found where the lengths
  before them add up to.  Base64 makes four characters of three bytes, which
  give the bytes back; characters that are no digits are skipped wherever they
  are, and what is left is decoded the same.  Hexadecimal goes as far as every
  pair is of digits, UCS-2 loses an odd last byte.  `Write` stays in the room it
  is given and, with UTF-8, takes the most characters that fit; the sizes the code
  asks for suffice, and are exact where the properties say so.

Two proofs corrected the models.  That of `MessagesAsSent` failed until
`Reinitialize` cleared `hgot`, the history of what the last message's callback
had, which otherwise belonged to another connection; that of `DamageBounded`
showed that one row for each disturbance is too few: with a third listing on the
page, a cut in Zoom's or PTT's spoils two.

**Model-checked only:**

- `NodeTypeOK`.  The invariants above carry the types their proofs need, but leave
  out the bounds of some counters that the models cap, and the tree's type.
- The tree in `NamesResolved` (the queries in it are proved, `QueriesAnswered`).
  That it stays balanced and finds its sockets is a statement on recursive
  functions over a structure of pointers, in the middle of a rotation as well,
  which is induction over data.
- Liveness (`KeepsTrying`, `Answered`, `PushGoesThrough`): it rests on fairness and
  `ENABLED`, which the prover does not handle.


## 5. Findings

- `commands_answered`: the comment at `main.js:459-460` lists a command
  `gettracks`; the handler has no branch for it and never ends the response.  A
  `/pingback` whose GET fails is left open as well.
- `connection_per_server`: helenus documents one connection per server
  (`pool.js:23`); calling `pool.connect` for every row gives one connection more
  each time, none of which is ever closed.
- `conversation_ended`: `pushprovision.dart:132` posts the state and steps
  afterwards, so a push posts BEGIN twice, SEND once and END never; the
  conversation is documented as "begin, send and end" (`persomifare.go:110`).

Beside these, modelling the core of node showed places where the code does not
do quite what one would expect.  No document or test says otherwise, so they are
no findings; the models follow the code, and the properties say where they make
an exception.

- `node_crypto.cc:488-516`: the store of authorities is made before the
  certificate is read.  If the first one does not parse, the context keeps an
  empty store, and those added later go to one that is never used
  (`TrustAsGiven`).
- `node_crypto.cc:782`: the check of a hello's length leaves `body_offset_` out;
  a frame nearly as long as the buffer is never complete (`HelloDrains`).
- `node_http_parser.cc` with `lib/http.js`: a parser that is taken for another
  connection keeps `_url`, so an unfinished URL may stand before the next one
  (`MessagesAsSent`).
- `node_buffer.cc:412-421`, `458-479`: a float or a double read or written with
  `noAssert` is copied from or to `data + offset`, unchecked, as
  `doc/api/buffer.markdown:434` and `460` warn (`ViewsApart` excepts these calls,
  and says that no others need it).
- `lib/http.js:57-60`, `93-95`: beyond `maxHeaderPairs` headers are left out, 1000
  by default (`doc/api/http.markdown:187-190`,
  `test/simple/test-http-max-headers-count.js`).  The script has the first ones,
  at least as many as the limit if there were as many; of trailers, which are
  not counted off, it may have more (`MessagesAsSent`).
- `lib/buffer.js:365`: the comment says that `base64Write` does not take the
  length it is given into account.  `StringBytes::Write` honours it
  for base64 as for the other encodings, and the model follows the code
  (`BytesFaithful`).
- `wrk.c:326`: the result of `write` is compared as an unsigned number, so a
  failed write goes unnoticed and its connection waits for an answer to what it
  did not write (`lost` in `LoadKept`).
- `node_zlib.cc:86`: a stream closed while a thread works on it fails an
  assertion (`Abort`).
- `node_zlib.cc:362-370`, `455-474`, `lib/zlib.js:322-324`: a stream may be reset
  while a thread works on it.  `err_` is cleared before `After` has read it, so
  a chunk may be reported done with a part of it not taken and no error; where
  the stream has a dictionary, `SetDictionary` may fail and release the stream
  the thread works on, and `After` then releases it again (`zreset` in
  `ZlibKeepsItsBuffers`).
- `http_parser.c`, content length: the check for overflow compares with the
  number before the digit, which a product may exceed after it has wrapped
  (`Larger`).

## 6. Not modelled

- `MainPage.get`, the shop's content pages, the browser demos: they change no
  state another part reads.
- Characters: the text of tags, dates and prices, `Content-Length` counted in
  characters (`main.js:444`), the limits of a quantity.
- `pool.close`, `createKeyspace` and the Thrift layer: the server does not use
  them, or sees only whether they work.
- `crypt.go`: decodes a file and prints it, one run per process; the encryption
  its comments name is not written.
- The peer programs: planned, see below.
- The earlier secure-element controllers (`src/main/pushprovision`,
  `src/main/dart/secontroller/web/persomifare.go`): one POST for one request.
- The GET_COUNTER process and the web socket of the push-provisioning client:
  nothing selects the one, and the call that opens the other is commented out.
- The dialogs in which the personalisation page shows and edits a card.
- Node's dependencies (V8, libuv, OpenSSL, c-ares, zlib, npm), but for what the
  core relies on; go.net, jQuery, Angular, and the other node modules but for what
  helenus and htmlparser2 do to the server.
- Of node's core: `node_root_certs.h`, `node_constants.cc`, `node_crypto_groups.h`
  (tables); `v8_typed_array.cc`, `node_script.cc`, `node_os.cc` and the getters of
  `node.cc` (straight-line calls that keep nothing); tracing, start-up, modules,
  options and the debugger's signal; `StatWatcher`; `SetCiphers`, `SetOptions`,
  `GetPeerCertificate` and queries of a session; integers of several
  bytes in buffers, whose accessors index the buffer byte by byte in JavaScript
  and so stay in it, with `noAssert` or not; addresses, window sizes and socket options.
- Of `wrk`: samples, statistics, options, and the kinds of poll but epoll.
- In `CaresQueries`, memory running out for a task; in `FileRequests`, negative
  lengths.

## 7. Plan

Done:

1. `SiteStates`, `Scraper`: the scrapers, with proofs of all their properties.
2. `TrackServer`, `TrackdaysGae`: the rest of the track-day pipeline, with proofs.
3. `Shop`: the cart, with proofs.
4. `PersoLink` and `ProvisionClient`, with proofs of their safety.
5. `Conversation` and `SeController`, which implements it, with proofs.
6. The parts of `NodeCore`, with proofs of all properties but the two named at
   the end of section 4.

Open:

7. `TrackSystem`: `TrackServer` composed with `TrackdaysGae`, shown to implement
   an abstract specification in which the site holds some list the server once
   had, or none midway.
8. `PeerRegistry`: the ten newest peers, re-registration from another port.
9. An abstract specification of the cart (one bag a browser, operations atomic)
   that `Shop` implements for calm browsers.
10. `TypeOK` of every part of `NodeCore` as a consequence of the part's invariant,
    for those whose invariant leaves a counter's bound out.
