# A specification of influxdb-cxx

influxdb-cxx is a C++17 client library for InfluxDB 1.x and 2.x: an application
builds points, hands them to a client object, and the client sends them, one by
one or in batches, over HTTP, UDP or a Unix socket.  This directory holds TLA+
modules that model the library, TLC configurations that check them on small
instances, and proofs for TLAPS.

## The system

The library is synchronous.  It starts no thread, takes no lock, and keeps
nothing on disk; a call of the application runs to its end, by returning or by
throwing, before the next one begins.  What makes it hard is failure in the
middle of a call: every send may throw, the exception leaves through the client,
and what the client holds at that moment decides which points are sent again,
lost or doubled.

| component | source | state | operations | what makes it correct |
|---|---|---|---|---|
| client | `src/InfluxDB.cxx`, `include/InfluxDB.h` | batch of points, batching flag, batch size, global tags | `write` (point, vector), `flushBatch`, `batchOf`, `clearBatch`, `addGlobalTag`, `batchSize`, `query`, `createDatabaseIfNotExists` | no point disappears without a send that threw, a `clearBatch` or the end of the client; none is accepted twice; the order of writing is kept; a failed batch is kept whole; a full batch does not wait; a line has the global tags of its write |
| HTTP transport | `src/HTTP.cxx` | two libcurl easy handles and the options set on them, URLs, database name | constructor, destructor, `send`, `query`, `createDatabase`, `enableBasicAuth`, `enableTokenAuth` | a transfer uses the data of its own call; failure is thrown; the class of the exception follows the status; libcurl's global state and the handles are given back |
| UDP, Unix socket | `src/UDP.cxx`, `src/UnixSocket.cxx` | a datagram socket and an endpoint, fixed by the constructor | `send` | one datagram for each send, whole or not at all; an error of the socket is thrown as InfluxDBException; nothing is stored whose send threw |
| Boost support | `src/BoostSupport.cxx`, `src/NoBoostSupport.cxx` | none | `withUdpTransport`, `withUnixSocketTransport` | without boost both throw |
| query results | `src/Query.cxx`, `include/InfluxDBTable.h` | none | `queryImpl`, `parseJsonResponse`, `parseErrorMessage` | one table for each statement in order, errors kept apart, every malformed answer an InfluxDBException |
| query parameters | `src/InfluxDBParams.cxx` | a list of names and values | `addParam`, `toJSON`, `size` | the object that is sent is JSON and has every parameter with a name |
| point, line protocol | `src/Point.cxx`, `src/LineProtocol.cxx` | measurement, tags, fields, timestamp | `addField`, `addTag`, `setTimestamp`, `format` | a line reads back as the point |
| factory, connection data, URI | `src/InfluxDBFactory.cxx`, `src/ConnectionInfo.cxx`, `src/UriParser.h` | none | `GetV1`, `GetV2`, `GetTransport`, `ParseHttpUrl` | the transport is the one of the protocol, with the host, port and credentials given |
| JSON | `3rd-party/json/rapidjson`: `reader.h`, `writer.h`, `document.h` as far as the library uses them | of a reader: the stream, the recursion, the document's stack; of a writer: its levels | `Parse` with kParseNumbersAsStringsFlag, `Accept`, the writer's events | what is read is what the text denotes, or an error at its first wrong element; what is written reads back |
| other vendored code | `3rd-party/` | | | not used by the library |

How they interact: the factory parses the URI, builds a transport and hands it to
a client, which owns it.  The client calls `Transport::send` with lines it formats
through `LineProtocol`; `query` and `createDatabaseIfNotExists` go through the
transport too.  HTTP calls libcurl, which calls back to append the body of the
answer to a string of the call in progress; `treatCurlResponse` turns the end of
the transfer into a return or one of four exceptions, and asks `parseErrorMessage`
for the text.  A query takes its parameters through InfluxDBParams to rapidjson's
writer, and its answer through rapidjson's reader to `parseJsonResponse`, which lets
the writer turn cells that are arrays or objects into text.  The only state that objects share is libcurl's global state.

What is hard to test is listed line by line in `PROJECT.json` under "hazards".
The main ones: a send that fails in the middle of a vector; a batch that fails
and keeps growing; the mixture of batched and unbatched writes; tags added while
points wait; a constructor that fails half-way while other objects live; options
that stay on a handle after the call that set them; an error that cannot be
reported because reporting it fails; a batch that outgrows a datagram; a request
that is served after the client has given it up; pointers that are kept where a
value is meant.

## Modules

| module | models | kind |
|---|---|---|
| `BufferedWriter` | what the client promises, without its calls, flag and sizes | abstract specification |
| `InfluxDB` | class InfluxDB | detailed specification |
| `MCInfluxDB` | small instances of it | model checking |
| `HttpResponse` | treatCurlResponse, and parseErrorMessage as far as it throws | operators |
| `Delivery` | what a writer is promised about its points, end to end | abstract specification |
| `WritePath` | client, `HTTP::send` and `treatCurlResponse`, or the `send` of a socket, with a network and a server | composition |
| `WritePathProofs` | theorems about the client (types, conservation, order, refinement, what later steps may not do to earlier ones) and about the path: what is accepted is stored, datagrams, refinement of `Delivery`, bad lines, lines stored twice and their tags, the order of the store | proofs |
| `MCWritePath` | small instances of it | model checking |
| `HTTP` | class HTTP over libcurl | detailed specification |
| `HTTPProofs` | theorems about it: resources, memory of transfers, outcomes | proofs |
| `MCHTTP` | small instances of it | model checking |
| `QueryResult` | parseJsonResponse, from the shape of an answer to tables or an exception | detailed specification |
| `QueryResultProofs` | theorems about it: tables in order, the first flaw decides | proofs |
| `MCQueryResult` | small answers | model checking |
| `UriParser` | ParseHttpUrl and its slices | operators |
| `ConnectionFactory` | InfluxDBFactory, ConnectionInfo, the choice and the construction of the transport, its credentials | detailed specification |
| `ConnectionFactoryProofs` | theorems about it: URIs of any length read back, backends, credentials, the service | proofs |
| `MCConnectionFactory` | URIs | model checking |
| `LineFormat` | classes Point and LineProtocol, against a reader of line protocol | detailed specification |
| `LineFormatProofs` | theorems about it: a line of any length is read back, and exactly when | proofs |
| `MCLineFormat` | points with special characters | model checking |
| `JsonReader` | rapidjson's recursive reader and the handlers of its document | detailed specification |
| `JsonReaderProofs` | theorems about it: types, the document's stack, messages, whole texts are read as what they denote | proofs |
| `JsonWriter` | rapidjson's writer and `Accept` | operators |
| `JsonGrammar` | the texts of JSON and what they denote | reference definition |
| `InfluxDBParams` | class InfluxDBParams | detailed specification |
| `JsonExchange` | parameters out, answers in, cells written again | composition |
| `JsonExchangeProofs` | theorems about it: cells and parameters of any kind are read back | proofs |
| `MCJsonExchange` | short texts, small queries | model checking |
| `Induction` | induction on naturals and sequences, and functions defined by recursion | proofs |

### InfluxDB

State is the class's: `mPointBatch`, `mIsBatchingActivated`, `mBatchSize`,
`mGlobalTags`.  A call of the application is an action; a call that sends is cut
at `Transport::send`, and `pc`, `todo` and `sending` hold what the C++ stack holds
then: where the call is, the points its loop has not come to, the argument of the
send.  `sendReturns` and `sendThrows` are the two ways it goes on, with everything
the code does from there to the next send or the end of the call.

| code | action |
|---|---|
| `batchOf`, `clearBatch`, `addGlobalTag` | same names |
| implicit destructor | `Destroy` |
| `flushBatch` up to the send | `flushBatch`; with nothing to send it is a stutter |
| `write`, both overloads, up to the loop or the send | `writePoint`, `writeVector`, sharing `Hand` |
| `write` of an empty vector without batching | `writeEmptyVector` |
| one turn of the loop, `addPointToBatch` | `addPointToBatch` |
| return of the send: `mPointBatch.clear()`, next turn of the loop | `sendReturns` |
| exception out of the send | `sendThrows` |

A point is the number of its write, and the line of a point is that number: what
the properties tell apart is which points are sent, in which order and when, and
with which global tags, not what the text looks like.  `write` of a batched empty
vector does nothing and is a stutter.

`writeEmptyVector` is where the code has no defined behaviour: it erases the
character before the end of an empty string.  The builds seen either crash or go
on to send bytes that come from no point; both are outcomes of the action.

History variables (`issued`, `fate`, `tagsAt`, `acked`, `lastSent`, `retried`,
`shrunk`, `failures`) record what happened for the properties.  No action reads
them, but for the bounds on points and failures and the numbering of points.

### BufferedWriter and the refinement

`BufferedWriter` says what an application may rely on: a point joins the queue or
is delivered directly when the queue is empty; the queue is delivered whole, or
discarded whole; a run of the newest points may be given up before it was queued;
nothing else happens to a point.  `InfluxDB` implements it under the mapping
queue = `mPointBatch`, delivered = `acked`, newest = `Newest`, the last point that
the call in progress no longer has in hand.

### HTTP and HttpResponse

Objects of class HTTP are built (three steps, each of which may throw), used and
destroyed.  `handles` and `globalInits` are libcurl's: the easy handles open, and
curl_global_init less curl_global_cleanup.  `option` is what was last set on each
handle; `WRITEDATA` and `POSTFIELDS` are pointers to locals of a call, so they are
modelled by the number of that call, its frame.  A request is two steps, options
and transfer, so that one can ask what the handle points to at the transfer.
`headerLists` are the lists that `enableTokenAuth` has allocated; the option
`headers` says that a handle has the pointer to the list of its object.  Nothing
frees them, and the properties say both halves of that: each object that ever got
a token has one, also after its end, and a transfer never has a list that is gone.
`perform` takes any answer: libcurl fails, or a status and a form of body.

External, modelled from how the code uses them: what libcurl and the server answer
(`Responses`), and whether the database exists (`databaseAfter`).  Whether libcurl
takes a URL is the constant `Refused`: libcurl gives up the URL a handle had before it
refuses one longer than its limit, and the code does not look at the result, so that
the transfer has no URL and fails.  A name or a query that libcurl cannot escape makes
a std::logic_error: in the constructor it leaves libcurl initialised (`failedName`), in
a request it ends the call before an option is set (`notEscaped`).

### WritePath

Extends `InfluxDB` and `HttpResponse`: the client's `sendReturns` and `sendThrows`
are no longer free, but follow from its transport, which is one of two kinds for the
life of the client.

* `http`: `HTTP::send` is `post` (the request goes out) and `conclude`, which lets
  `treatCurlResponse` judge the answer that has arrived (`answered`) or none
  (`broken`, libcurl gives up at any time).  Between them, or after the client has
  given up, `serve` lets the server deal with a request that is still under way.  So
  a request may be served before, instead of, or after the repetition of it.
* `datagram`: `UDP::send` and `UnixSocket::send` are the one step `sendTo`.  What
  does not fit is refused, what fits may be refused too, and what is sent comes in
  by `deliver`, in any order, or is lost.

External: `serve`, `deliver` and `Served`.  A server stores the lines and answers 204;
answers 400 when a line is bad, having stored the other lines or none; or answers one
of `Refusals`, where those from 500 on may have stored the lines all the same.  A line
is kept under its point (whose timestamp is set when it is built) and its tags.

Calls stop after `MaxFailures` failures, because a send with a bad line cannot but
fail.  The empty vector is left out: what follows it is undefined, and `InfluxDB`
covers it.

### Delivery and the refinement

`Delivery` knows points that were written, those whose writer was told that they are
accepted, and those in the store.  Over HTTP a point is accepted when it is in the
store, or it is `excused`: the answer was a redirection, which the code takes for
success.  That is the only excuse, so the refinement says that nothing else can make a
`write` or `flushBatch` return for a point that is not stored.  Over datagrams every
accepted point is excused, which is all that can be promised; what is left is that
the store has nothing that was not written and loses nothing.

### QueryResult

A JSON value is modelled by what the code asks of it: which members it has and of
which kind they are.  The outer loop of `parseJsonResponse` is `parseStatement`
(up to the inner loop) and `endSeries` (behind it), the inner loop `parseSeries`;
`parseDocument` is what comes before, and each check that throws is a disjunct of
the step it is in, in the order of the code.  `TableOf` and `Failures` say without
loops what should become of a statement; the properties compare.

`columns`, and each row of `values`, are taken for arrays without a check.
rapidjson has an assertion there that the library's builds compile out, so the
behaviour is undefined: the model crashes, or goes on with a series that is not
`intact`.

### ConnectionFactory and UriParser

`GetV1` and `GetV2` fill a `ConnectionInfo` from any of the arguments, and
`GetTransport` parses the URI and makes the transport or throws.  `ParseHttpUrl` is
translated slice by slice, on URIs that are sequences of delimiters and names;
`Text` (external, RFC 3986) writes a URI from its parts, so that reading can be
compared with writing.  `Pieces` are what texts are made of, the delimiters among them,
and `UriParts` says which delimiter may be in which part: those that would end the part
may not, all others may.  A run takes a few `Uris` out of `UriParts`; the theorems take
any.  Whether the library has boost is a variable fixed at the
beginning, since it selects between two source files; the constructors of the
sockets throw at will, since name resolution and the kernel are external, and what
they throw is no InfluxDBException (`failedSocket`).  Nothing in the repository says
how such a failure is reported; `OnlyKnownBackends` confines it to the calls that ask
for a socket, and no property says more of it.

`enableBasicAuth` and `enableTokenAuth` set an option on each of the two handles, one
after the other.  The former joins user name and password by ":", and `loginOf`
(external) is how libcurl takes that apart again, at the first colon: `LoginIsAsGiven`
says that either handle tells the server what the application gave, exactly when the
user name has no colon.  `UriReadsBack` and `ServiceIsHostAndPort` are equivalences
too, and name the URIs for which the code makes something else of them: a host with
colons is cut, and a port is appended behind a port, a path or a search.

### LineFormat

A point is built by `addTag` and `addField` in any order, global tags are added,
and the text a `const char*` field points to is overwritten.  `format` and what it
calls change no state, so the line is a state function, and the properties are
about the line that would be written in the present state.  Texts are sequences of
characters, of which those with a meaning are told apart.  A number or a time stamp
is one element: how it is printed is not modelled.

`ReadLine` is external: what an InfluxDB server reads in a line.  A separator
behind a backslash belongs to the name, other backslashes stand for themselves, in
a quoted text `\"` and `\\` are one character, a line that begins with `#` is a
comment.  `LineReadsBack` is an equivalence: under `Sound` and `PlainGlobalTags` the
point is read back, and whenever one of their parts fails it is not.  The run checks
it for short texts, `LineFormatProofs` proves it for all.  In particular
`addGlobalTag` escapes nothing, so that one tag with a separator makes every line of
the client wrong, where `addTag` escapes the same text.

### JsonReader, JsonWriter, JsonGrammar, InfluxDBParams and JsonExchange

The reader is the one of the flags `parseJsonResponse` asks for:
kParseNumbersAsStringsFlag over the default ones.  Its C++ functions call each other
recursively; the model keeps `frames`, the objects and arrays begun with the number of
their values, and `pc`, where the innermost function is.  `stack` is the stack of the
document, onto which its handlers put values and from which `EndObject` and `EndArray`
take them by their count.  White space is skipped wherever the code skips it, and only
there.  A parse error goes from where it is found to the end of `Parse`, and empties
the stack.

A text is made up while it is read: `Take` chooses the element behind the one taken,
or the end.  A run of the model is then one text, and texts with the same beginning
share its states, up to the first error.  There are three alphabets: `Structure`
(brackets, commas, colons, white space, one string, one digit, a literal), `Strings`
(what can stand in a string, escapes and halves of surrogate pairs included) and
`Numbers` (a digit 0, a digit 1, sign, point, exponent).  Digits stand for themselves
only as far as 0 in front is special; the three loops over digits, which differ in the
width they compute in, may be left at any digit.

`JsonGrammar` (external, RFC 8259) generates the texts of the same alphabets together
with what they denote; `ReadsTheGrammar` is the equivalence, and says besides that an
error is found at the first element that no JSON text can go on with.

The reader hands numbers to the document as strings, with `RawNumber` in place of
`String`, and the document keeps both the same way.  In the model a number is marked as
one (`<<"number", digits>>`), so that 1 and "1" are told apart; where the code cannot
tell them apart, in `Accept`, `scalar` writes either between quotes.

A writer is a record and every event of it a function of writers.  `Accept` is a
recursive function over how deep a value has containers in one another (`JsonValues`),
and both `Accept` and `toJSON` send their events in a loop, `InTurn`.

The parameters are written by `toJSON` and read by the same reader, which stands for
the one of the server.  A `const char*` parameter is a pointer in `std::variant`: the
application can overwrite what it points to between `addParam` and the query.
`ParamsReadBack` is an equivalence again, with three exceptions that are in the code:
the name and the value of a string end at the first NUL, a `const char*` has what is
there when the query is sent, and an infinite double makes the text no JSON.

`messageOffset` is what `Query.cxx:76` does with the code of a parse error: it is added
to the address of a literal.

A cell of a result that is an array or an object is written by `Accept` and returned as
text.  `CellReadsBack` says that this text denotes the cell as it was in the answer, but
with the string of its digits for each number, however deep (`Stringed`): the cell [1] is
returned as ["1"].

`ReaderSpec` is the reader by itself: it begins with any text, and may at any time be
given another one, which it reads with nothing left of the one before (`Restart`).  It is
what `JsonReaderProofs` is about.

## Runs

| run | checks | shows |
|---|---|---|
| `client_safety` | TypeOK, Conservation, FirstInFirstOut, FailedBatchKeptWhole, FullBatchWasTried, AbandonedBehindFailure, TagsOfWriteAreSent, IsBufferedWriter | the promises about points, over every mixture of calls and failures; a line formatted late misses no global tag of its write |
| `client_empty_vector` | EveryTransmissionCarriesAPoint (violated) | finding: the empty vector |
| `write_path` | PathTypeOK, AcceptedIsStored, NothingPassesPoison, StoredTwiceWasRetried, SameKeyUnlessTagsAdded, StoredInOrder, OutgrownBatchIsStuck, IsDelivery, EveryCallReturns, EveryPointIsSettled | what the client is told is true, a bad line blocks the points behind it, what repetition and late requests can do to the store; a batch that has outgrown a datagram stays; calls end, and points do not wait for ever |
| `http` | TypeOK, LibcurlOutlivesHandles, ResourcesAreAccountedFor, TransferUsesLiveMemory, AnswerIsToOwnRequest | what failed constructors leave behind, and that nothing else is left; options and answers of consecutive requests, also after one whose URL was refused |
| `http_only_200` | SendThrowsUnless200 (violated) | finding: a redirected write counts as done |
| `http_status_exception` | StatusNamesException (violated) | finding: a body that is no JSON object hides the class of the error |
| `http_create_database` | CreateDatabaseCreates (violated) | finding: a failed CREATE DATABASE returns |
| `query_result` | TypeOK, TablesFollowStatements, FirstFlawDecides | one table for each statement, and which flaw of an answer decides |
| `connection_factory` | UriReadsBack, OnlyKnownBackends, LoginIsAsGiven, ServiceIsHostAndPort | the transport is the one that was asked for; which URIs are read back, which logins reach the server, and of which URIs a service with host and port is made |
| `factory_udp_host` | UdpGoesToHost (violated) | finding: the UDP transport is made for the path of the URI |
| `line_format` | TypeOK, LineReadsBack | a line is read as its point, and what that takes |
| `json_exchange` | TypeOK, ReadsTheGrammar, StackFollowsFrames, ParamsReadBack, CellReadsBack, MessageStaysInLiteral | the reader accepts JSON and nothing else and keeps what it denotes; parameters survive being written and read, cells do but for their numbers, which become strings; the arithmetic on the literal stays inside of it |

Bounds and why they are enough:

* `client_safety`: five points, vectors of up to three, batch sizes 0 to 3, two
  failing sends.  Sizes 0 and 1 flush with every point, 2 and 3 are below and at
  the longest vector, so a vector fills a batch in its middle, at its end, or not
  at all.  Five points and two failures allow a batch that fails, grows, fails
  again and is then accepted or cleared, with a vector abandoned in between.  Two
  tags are added at any moment: some points are written before, between and after.
* `write_path`: three points, the second with a bad line, vectors of two, batches of
  two and datagrams of two, so that the bad line is the last of one request or in a
  longer one after a failure, and a batch that has failed outgrows the datagram; three
  failures let a batch fail, grow and fail again, and up to three requests be overtaken
  by a fourth; one tag; one status each for a redirection, a missing database and a
  failure of the server.  Second storing, a second key and storing out of order all
  happen within these bounds.
* `http`: three objects, so that one may live while another fails and a third is
  destroyed; two requests, the least that lets a request find on its handle what
  another has left; all statuses at the edges of the classes, and 302; a token on any of
  the objects.
* `query_result`: two statements of up to two series of seven shapes, so that a flaw
  is in the first or the second of either loop with a sound or another flawed one
  before or behind it; every combination of the other parts of a statement.
* `connection_factory`: six protocols, with none and an unknown one among them, and
  every delimiter once more in a part behind the one it ends; a user name and a
  password with a colon and without.
* `line_format`: three calls on a point, of which two texts (names, values, the
  measurement) are other than a plain one: enough for a name next to any separator
  and for two flaws that could cancel out.  Longer names add no new neighbour to a
  character.

* `json_exchange`: nine elements of structure, which are two members of an object, or a
  container in a container with a neighbour in front and behind; seven elements of a
  string or of a number, more than the longest path through their states without a
  loop.  An exponent may be up to 10 where rapidjson allows 308, so that its limit, and
  what the digits of a fraction add to it, are met with two digits.  Two parameters:
  the comma between them and the counts of the writer.

Deadlock is checked in every run but that of `line_format`, whose points are
complete after `MaxCalls` calls: `Ended` and `Stop` are the states in which the
application has no more calls to make.

### Fairness

`PathFairSpec` has weak fairness on a turn of the loop (`addPointToBatch`), on `post`,
`sendTo` and `answered`, and strong fairness on `flushBatch`.  A C++ call that has begun
goes on, and the kernel ends every `send` of a datagram: the first three.  libcurl sees
an answer that has arrived: the fourth.  Nothing makes an answer come and nothing makes
libcurl give up, since the code sets no timeout on a transfer; so both liveness
properties have `<>[]Waiting` as an alternative, and say that this is the only way in
which a call hangs.  The last is what the README of the library asks of the application
("call `flushBatch()` to flush pending batches"); strong, because a flush is possible
only between two calls.  Without it points wait in the batch for ever, as they do in the
code.  `EveryPointIsSettled` has a second alternative, that sends fail `MaxFailures`
times: a bad line in a batch makes every flush fail.

## Proofs

The first half of `WritePathProofs` is about module `InfluxDB` by itself and proves, for
every value of the constants that satisfies
`BoundsAreNaturals` (the constants are sets of numbers and numbers):

* `TypeCorrect`: Spec => []TypeOK;
* `PointsAreConserved`: Spec => []Conservation;
* `FirstInFirstOutHolds`: Spec => []FirstInFirstOut;
* `ClientImplementsWriter`: Spec => Writer!Spec, the refinement.

Neither Conservation nor FirstInFirstOut is inductive.  The invariant `IInv` adds
what the control state says (`CallState`: outside a call there is nothing in hand;
inside a send of the batch, `sending.points` is the batch; an unbatched send
happens only while the batch is empty), that the points in hand are the newest
ones, consecutive and without a gap (`InHand`), and that accepted points, batch
and points in hand follow one another in order (`Order`).  With it each action is
one step of the proof.  The refinement follows from the same invariant: an append
to the batch is `Enqueue` because the head of `todo` is the point after `Newest`;
a batched send that returns is `Deliver` because what is sent is the queue; a
failed loop is `Skip` because what it had in hand are the newest points.

On `IInv` it builds, from the same assumption, the proofs of the other safety properties
of the run `client_safety`:

* `FullBatchesAreTried`: Spec => []FullBatchWasTried;
* `TagsAreSent`: Spec => []TagsOfWriteAreSent;
* `FailedBatchesAreKept`: Spec => []FailedBatchKeptWhole;
* `AbandonedAreBehind`: Spec => []AbandonedBehindFailure.

They rest on the lemma `FateIsFinal`, that a step gives a new fate only to points
that are held.  FullBatchWasTried is inductive relative to `IInv`.  TagsOfWriteAreSent
needs `TagState`: global tags are only added, and never during a send, so that a
send in progress has those of the client.  FailedBatchKeptWhole needs `FailedBatch`:
the points of the refused batch have been issued, so that their end is final.
AbandonedBehindFailure needs `LoopSend`: a send inside the loop of a write carries
the point just in front of those still to come.

`HTTPProofs`, for any number of objects (finite), queries, statuses and calls, from
`RequestsAreSane`:

* `TypeCorrect`, `ResourcesAreCounted`, `LibcurlStays`, `TransfersUseLiveMemory`,
  `AnswersAreToOwnRequests`: each of the five properties of the run `http`.

The invariant is TypeOK, ResourcesAreAccountedFor, what a request in progress has set
(`RequestIsSet`), that the write handle keeps the URL it was made with
(`WriteUrlIsKept`), that a list that is set is allocated (`ListsAreAllocated`), and the
property about the latest request.  Even the type of `globalInits` needs the
account: that a destructor does not take it below zero follows only from what it counts
(`ReadyIsInitialised`).  The account itself is a cardinality; `CountOneMore` and
`CountOneLess` are its steps.  `LibcurlOutlivesHandles` follows without being inductive.

The second half of `WritePathProofs`, for any server that answers as `Served` says, any number of points
and any sizes, from `BoundsAreNaturals`, `TransportsAreKnown` and `ServerIsSane`:

* `PathTypeCorrect`: PathSpec => []PathTypeOK;
* `AcceptedPointsAreStored`: PathSpec => []AcceptedIsStored;
* `OutgrownBatchesAreStuck`: PathSpec => OutgrownBatchIsStuck;
* `PathIsDelivery`: PathSpec => IsDelivery, the refinement.

Every step of the path is a step of the client or leaves it alone, so the invariant of
the first half is part of this one.  To it `PInv` adds that what is under way was
written (`UnderWay`), that the answer of the call in progress is to the request of that
call and, if it neither throws nor redirects, that its points are stored
(`AnswerIsToCall`), and that what is stored or redirected was written
(`StoredWasWritten`).  AcceptedIsStored alone is not inductive: between `serve` and
`answered` only the answer remembers that the points are stored, and a late request must
not be taken for it.  `Good` is a set with one element, an order-preserving injection,
because what `SelectSeq` yields would take an induction over its definition to prove.

Two more inductive invariants build on `PInv`, from the same assumptions, for the other
invariants of the run `write_path`:

* `PoisonIsNotPassed`: PathSpec => []NothingPassesPoison;
* `StoredTwiceWereRetried`: PathSpec => []StoredTwiceWasRetried;
* `KeysStaySame`: PathSpec => []SameKeyUnlessTagsAdded;
* `StoreIsInOrder`: PathSpec => []StoredInOrder.

The first three need to know of requests that the client has given up.  `HInv` says that a
point none of whose sends threw is in one request or in the store and not in both, and in
neither while it is still to be sent (`Single`); that points whose send threw are no
longer in hand (`RetriedIsSettled`); that each line carries tags the client had at some
time from the write of its point on (`LinesAreTagged`); and that a bad line is in no
request that was answered with success (`PoisonIsRefused`).  The order needs more,
because a late request can store its points behind later ones: a request holds all
points that are held in front of one of its own (`RequestsAreWhole`), so that no point is
stored in front of one still held (`HeldIsStoredFirst`), and a point that was never sent,
or whose only send was redirected, is neither stored nor under way (`UnsentIsGone`).
These three fail for datagrams, which are lost singly.  That the good lines of a request
are all there once one is follows from a count: an injection between finite sets of one
size is onto (`LinesInOrder`).

`QueryResultProofs`, for any answer, from `ShapesAreKnown`:

* `TypeCorrect`, `TablesAreInOrder` and `FirstFlawIsReported`: the three properties of
  the run `query_result`.

The invariant says where the loops are (`Position`), that the statements and series
passed have no flaw (`Passed`, `InSeries`), and that the table in the making is the one
that belongs to the statement as far as it was read (`Begun`).

`ConnectionFactoryProofs`, for any set of `Uris` within `UriParts`, with texts of any
length, from `DelimitersArePieces`, `LoginsAreTexts` and `UrisAreUris`:

* `ReadingBack`, `KnownBackends`, `LoginReachesServer`, `ServiceAddress`: the four
  properties of the run `connection_factory`.

`ReadingBack` is the largest: `ParseHttpUrl` takes five slices, each out of what the one
before it has left.  Two lemmas say what a slice does with a text written as a part, a
delimiter and a rest (the first place of the delimiter is behind the part, provided that
the part has none), and what it does with a text that has no such delimiter; the proof
goes through the slices with the cases of each part present or absent, and shows of each
that the delimiter it looks for is not met earlier, in a part that may hold it.  `CutInside` is the
other half of these equivalences, that a part which has the delimiter is cut short: a host
by the parser, a user name by libcurl.  The invariant of the factory says which texts are in `conn` and what was made of them.

`JsonReaderProofs`, for any alphabets and texts of any length, from
`AlphabetsAreStrings` and `BoundsAreNaturals`:

* `TypeCorrect`: ReaderSpec => []TypeOK;
* `StackCorrect`: ReaderSpec => []StackFollowsFrames;
* `MessageCorrect`: ReaderSpec => []MessageStaysInLiteral.

StackFollowsFrames is not inductive: that `}` takes the right number of entries off the
stack depends on where it may be met.  `IInv` adds where the reader can be inside of an
object and inside of an array (`Placed`), that a container's count is 0 at its first
element, that a count is below the place in the text, and that the stack is a sequence
of some values.  TLC has checked `IInv` on texts of up to six elements.  The height of
the stack is a sum over the containers, a recursive function (`Heights`); that such a
function has the values its definition says is a theorem that has to be proved
(`HeightsDefined`).  `Induction` has what that takes: the induction theorems of the
library have an operator as a parameter, so they are proved again for sets of numbers
in place of predicates (`SetInduction`) and for steps that are functions (`Iteration`).

The same module has what a reader makes of a text that denotes a value:

* `TextsAreRead`: a reader in a text of a guide, which is there as a whole, ends with the
  value the text denotes, and refuses it only if a value is missing in it.

A guide is a set of pairs of a text and what it denotes, for strings, names, values and
what is left of arrays and objects behind one of their values, closed downwards: each
text is made of texts of the guide as the grammar says (`IsGuide`).  The invariant
`Follower` says of a place of the reader what is ahead of it: `Expects` has, for every
container the reader is in, what is left of its text and what its values so far are on
the stack.  So a step of the reader takes one element off what is ahead and one part off
what it denotes, and no induction over texts is needed: a text is taken apart only as far
as the reader has come.  `Nothing` is the value of an empty text, which is what a double
without digits leaves; the reader refuses the text that has it in an array or an object.

`JsonExchangeProofs`, for any alphabets, answers and parameters, from
`AlphabetsAreStrings`, `AlphabetsOfTheGrammar`, `EscapesAreCharacters` (these are names of
characters), `ParamsAreKnown` (parameters have the types of the variant, and a double that
is infinite or no number has no digits) and `NumbersAreWritten` (what the writer is given
as the digits of a number is one by `NumberTexts`):

* `ExchangeKeeps`: the three theorems about the reader hold of it in the exchange, which
  gives it one text after the other;
* `ReaderValues`: what the reader makes of any text is in `JsonValues`, the values that
  `Accept` is defined for, no deeper than the text is long;
* `CellReturns`: ExchangeSpec => []CellReadsBack, the text of a cell denotes the cell
  with a string for each number;
* `ParamsArrive`: ExchangeSpec => []ParamsReadBack.

Both last ones say of the text that the writer puts out that it is one of the greatest
guide over the values that occur in it (`Guide`); `TextsAreRead` does the rest.  A guide
may be anything that is closed downwards, so the greatest one has every text that is
made the right way (`GuideCloses`).  `AcceptWrites` shows that of `Accept`, by induction
over the depth of a value (`SetInduction`), `EscapedReads` and `QuotedReads` of strings,
and `MembersLoop` and `ElementsLoop` of the loops over members and elements, by induction
over how many have been written: what is written so far is what is in front of anything
that may still follow (`MembersPut`, `ElementsPut`).  `Takes` says where a writer may be,
so that none of its assertions fails (`sound`).

That `Accept` is defined for an answer is the invariant `ReadsValues`: every entry of the
document's stack is a value no deeper than the text so far is long, and the names of
members, which `NamesHeld` finds on the stack by the sums of `Heights`, are strings.
The text denotes `Stringed` of the cell, which is a value again (`StringedTyped`).
For the parameters `ParamsFollow` says besides what was kept of each when it was added
(`ParamsHeld`); which of them arrive follows from the value the text denotes, in which a
parameter without digits is `Nothing`.

`LineFormatProofs`, for any texts of any length, any number of tags, fields and global
tags, from `TextsHaveCommon`, `TextsAreTexts` and `BoundsAreNaturals` (the bounds are
numbers, and the one on special texts is not 0, since the measurement may be one):

* `TypeCorrect`: Spec => []TypeOK;
* `LineIsReadBack`: Spec => []LineReadsBack.

The invariant `IInv` says besides the types what the point has kept of the calls, and
that the text of the global tags is the joined text of those given (`KeptOfGiven`).
LineReadsBack then is a statement about `format` and `ReadLine` alone.  Both are made of
recursive functions on texts, so everything rests on induction over sequences
(`SequenceInduction`, again with sets in place of predicates) and on lemmas that say what
a function does with one element more: `FlattenAppend`, `EscapeAppend`, `TagsTextAppend`,
`ReadAppend`, which says of the reader that it goes on where it was.

* Sound implies understood: the reader takes the line in the pieces `format` makes it of.
  `ReadName` says that the escaped text of a name that closes is read as that name, in
  front of whatever follows; `ReadTag`, `ReadString` and `ReadNumber` say it of a tag and
  of values, and `ReadTags` and `ReadFields` go through the lists.
* Understood implies sound.  Five flaws may each make the line something else, and the
  line may be wrong because of more than one.  So the proof does not follow the flaws but
  the reader: `Fits` says, of any line whatever, what it must look like given what has
  been read in it, for instance that it begins with the escaped measurement and tags as
  they were read, and that names were read that close.  `ReaderFits` shows this for
  every line, character by character.  If what was read is the point, then its names
  close, its numbers are numbers, and the line begins with the escaped global tags as
  well as with the global tags as they are.  A text that goes on like its own
  escaped form had nothing to escape (`EscapeUnlike`), so the global tags are plain
  (`GlobalsUnlike`).  With that the line is one of the first half, which is read with
  what the pointers point to now, so that this is what they pointed to.

The arms of every CASE in the models exclude each other: where two apply TLC takes the
first, but the language leaves open which, and nothing could be proved of it.  `Closed`
was such a case until this proof, for an empty measurement.

Only model-checked:

* all liveness, which TLAPS does not cover;
* `ReadsTheGrammar`: that the reader accepts what the sets of `JsonGrammar` have and
  nothing else, and finds an error where no text of them can go on.  These sets are
  built up by the length of a text with limits that are constants of the run, so that
  the equivalence is an induction over them in both directions.

## Not modelled, and the plan

Most of the lines of the repository are vendored: `3rd-party` has more than ten times
the lines of the library.  Of these `date.h` is included by no source of the library,
and of rapidjson the schemas, pointers, regular expressions, streams, encodings,
allocators, SIMD and iterative parsers are not used by it, or only behind what
`JsonReader` and `JsonWriter` model.  They are left out because nothing the library does
depends on what they do, not because they could not be modelled; the library's own
sources are modelled almost completely.

Of the library itself these are left out:

* how numbers are printed: `Point.cxx:190` prints a double into 128 characters, which a
  large magnitude or a large `floatsPrecision` does not fit; that is arithmetic on
  digits which no order of calls changes;
* the text of messages, of exceptions and of error answers, except where it is
  arithmetic (`messageOffset`);
* the defaults of `Transport::query` and `Transport::createDatabase`, which throw;
* names, tags and cells of a series, beyond that a series keeps its place;
* the resolution of host names, and the kernel behind the sockets, which are external;
* tests, examples, build files and packaging.

What could be added, in this order:

1. `parseSeries` with the columns and the rows, so that tags, names and cells of a
   table are told apart.
2. `ReadsTheGrammar` as a theorem: that the texts of `JsonGrammar` are a guide, which
   with `TextsAreRead` is the half about texts that are accepted, and that what the
   reader has taken always begins some text of it.
