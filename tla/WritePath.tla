------------------------------ MODULE WritePath ------------------------------
(***************************************************************************)
(* The way of a point from InfluxDB::write over a transport to the server: *)
(* the client of module InfluxDB with the ends of its sends resolved.      *)
(*                                                                         *)
(* HTTP::send waits for an answer, which treatCurlResponse judges.  A      *)
(* request that the client has given up may still be on its way, and is    *)
(* then served after the client has sent the same points again.            *)
(* UDP::send and UnixSocket::send hand one datagram to the kernel, which   *)
(* takes it whole or not at all, and nothing comes back.                   *)
(*                                                                         *)
(* The network, the kernel and the server are external.  A point is a      *)
(* timestamp and values that do not change, so that storing a line twice   *)
(* under one key (its point and its tags) overwrites it with itself.       *)
(***************************************************************************)
EXTENDS InfluxDB, HttpResponse, FiniteSets

CONSTANTS
    Transports,   \* the kinds of transport looked at
    MaxDatagram,  \* the most points that fit into one datagram
    Poison,       \* points whose line the server does not accept
    Refusals      \* statuses it may answer instead of dealing with the lines

ASSUME TransportsAreKnown ==
    /\ Transports \subseteq {"http", "datagram"}
    /\ MaxDatagram \in Nat

ASSUME ServerIsSane ==
    /\ Poison \subseteq Nat
    /\ Refusals \subseteq Nat \ 0..299

VARIABLES
    transport,    \* what mTransport points to
    current,      \* number of the request of the call in progress, or 0
    answer,       \* the answer to it that has arrived

\* External: the network and the server.
    requests,     \* requests and datagrams sent so far
    network,      \* those not served yet
    stored,       \* lines stored, in that order

\* History.
    redirected    \* points of sends that returned on a redirection

path     == <<transport, current, answer, requests, network, stored, redirected>>
pathVars == <<vars, path>>

-----------------------------------------------------------------------------
Response(code, body) == [curlOk |-> TRUE, code |-> code, body |-> body]

\* What curl_easy_perform makes of an answer that does not come.
NoAnswer == [curlOk |-> FALSE, code |-> 0, body |-> "empty"]

Line(point, tags) == [point |-> point, tags |-> tags]

\* What is on its way when the call in progress has sent it.
Request == [id |-> requests + 1, points |-> sending.points,
            tags |-> sending.tags]

\* The lines of a request.
All(request) ==
    [i \in DOMAIN request.points |-> Line(request.points[i], request.tags)]

\* Those the server can store, in their order (the only element of the set).
Good(request) ==
    LET good == {i \in DOMAIN request.points : request.points[i] \notin Poison}
        inOrder == {f \in [1..Cardinality(good) -> good] :
                       \A i, j \in DOMAIN f : i < j => f[i] < f[j]}
    IN  {[k \in DOMAIN f |-> All(request)[f[k]]] : f \in inOrder}

\* What a server that fails, or that meets a bad line, may have stored.
Perhaps(request) == {<<>>} \union Good(request)

\* The statuses a request may be answered with, each with the lines stored.
\* A bad line makes the answer 400, and the good ones may be stored or not; a
\* server that fails may have stored them too.
Served(request) ==
    (IF Range(request.points) \cap Poison = {}
       THEN {204} \X {All(request)}
       ELSE {400} \X Perhaps(request))
    \union (Refusals \X {<<>>})
    \union ({code \in Refusals : code >= 500} \X Perhaps(request))

\* The body of an answer: none with success, JSON or the page of a proxy else.
BodiesFor(code) == IF code = 204 THEN {"empty"} ELSE {"object", "text"}

PathInit ==
    /\ Init
    /\ transport \in Transports
    /\ current = 0
    /\ answer = NoAnswer
    /\ requests = 0
    /\ network = {}
    /\ stored = <<>>
    /\ redirected = {}

-----------------------------------------------------------------------------
\* The application calls the client; bound: not behind MaxFailures failures.
\* It does not write an empty vector, for which nothing is defined that could
\* be followed to the server.
Call ==
    /\ failures < MaxFailures
    /\ \/ \E size \in BatchSizes : batchOf(size)
       \/ clearBatch
       \/ \E tag \in Tags : addGlobalTag(tag)
       \/ flushBatch
       \/ writePoint
       \/ writeVector
    /\ UNCHANGED path

\* Steps of the client that the transport has no part in.
Local ==
    /\ addPointToBatch \/ Destroy \/ Ended
    /\ UNCHANGED path

\* HTTP::send, the first half of curl_easy_perform: the request is on its way.
post ==
    /\ pc = "sending"
    /\ transport = "http"
    /\ current = 0
    /\ requests' = requests + 1
    /\ current' = requests'
    /\ network' = network \union {Request}
    /\ UNCHANGED <<vars, transport, answer, stored, redirected>>

\* External: the server serves any request under way, also one whose call is
\* over; only the call in progress gets its answer.
serve(request) ==
    /\ transport = "http"
    /\ network' = network \ {request}
    /\ \E served \in Served(request) :
          /\ stored' = stored \o served[2]
          /\ \/ /\ request.id = current
                /\ \E body \in BodiesFor(served[1]) :
                      answer' = Response(served[1], body)
             \/ /\ request.id # current
                /\ UNCHANGED answer
    /\ UNCHANGED <<vars, transport, current, requests, redirected>>

\* HTTP::send, the rest: treatCurlResponse decides between return and
\* exception.
conclude(response) ==
    /\ pc = "sending"
    /\ transport = "http"
    /\ \/ /\ treatCurlResponse(response) = "nothing"
          /\ sendReturns
          /\ redirected' = IF response.code \in 300..399
                             THEN redirected \union Range(sending.points)
                             ELSE redirected
       \/ /\ treatCurlResponse(response) # "nothing"
          /\ sendThrows
          /\ UNCHANGED redirected
    /\ current' = 0
    /\ answer' = NoAnswer
    /\ UNCHANGED <<transport, requests, network, stored>>

successSeen == answer.curlOk /\ answer.code < 400 /\ conclude(answer)

\* libcurl has the answer.
answered == answer.curlOk /\ conclude(answer)

\* libcurl gives up, which it may at any time.
broken == conclude(NoAnswer)

\* UDP::send and UnixSocket::send: what does not fit into a datagram is never
\* sent, and the kernel may refuse any other; the exception is translated.
sendTo ==
    /\ pc = "sending"
    /\ transport = "datagram"
    /\ \/ /\ Len(sending.points) <= MaxDatagram
          /\ sendReturns
          /\ requests' = requests + 1
          /\ network' = network \union {Request}
       \/ /\ sendThrows
          /\ UNCHANGED <<requests, network>>
    /\ UNCHANGED <<transport, current, answer, stored, redirected>>

\* External: a datagram comes in, in any order, or is lost; one with a bad line
\* may be ignored.
deliver(request) ==
    /\ transport = "datagram"
    /\ network' = network \ {request}
    /\ \E lines \in Perhaps(request) : stored' = stored \o lines
    /\ UNCHANGED <<vars, transport, current, answer, requests, redirected>>

PathNext ==
    \/ Call
    \/ Local
    \/ post
    \/ \E request \in network : serve(request)
    \/ answered
    \/ broken
    \/ sendTo
    \/ \E request \in network : deliver(request)

PathSpec == PathInit /\ [][PathNext]_pathVars

\* The client goes on with a call, the kernel ends every send of a datagram,
\* and libcurl sees an answer that has come.  Nothing makes an answer come, and
\* as no timeout is set nothing makes libcurl give up.  The application calls
\* flushBatch again and again, as the README asks it to.
PathFairness ==
    /\ WF_pathVars(addPointToBatch /\ UNCHANGED path)
    /\ WF_pathVars(post)
    /\ WF_pathVars(answered)
    /\ WF_pathVars(sendTo)
    /\ SF_pathVars(failures < MaxFailures /\ flushBatch /\ UNCHANGED path)

PathFairSpec == PathSpec /\ PathFairness

-----------------------------------------------------------------------------
Requests == [id : Nat, points : Seq(Points), tags : Seq(Tags)]

Lines == [point : Points, tags : Seq(Tags)]

\* The values of the variables that this module adds.
PathTypeOK ==
    /\ transport \in Transports
    /\ current \in {0, requests}
    /\ answer \in [curlOk : BOOLEAN, code : Nat, body : Bodies]
    /\ requests \in Nat
    /\ network \subseteq Requests
    /\ stored \in Seq(Lines)
    /\ redirected \in SUBSET Points

StoredPoints == {line.point : line \in Range(stored)}

\* The place of the first line of a point.
First(p) ==
    CHOOSE i \in DOMAIN stored :
        stored[i].point = p /\ \A j \in 1..(i - 1) : stored[j].point # p

\* What a call of write or flushBatch that returned tells the application.
\* Over HTTP its points are stored, unless all that came back is that the
\* request should have gone elsewhere.  Of datagrams it tells the reverse: no
\* point is stored, ever, whose send did not return.
AcceptedIsStored ==
    /\ transport = "http" =>
           Range(acked) \subseteq StoredPoints \union redirected
    /\ transport = "datagram" => StoredPoints \subseteq Range(acked)

\* A line is stored a second time only if its point was in a batch whose
\* HTTP::send threw: never a point that was written without batching, and never
\* one that went in a datagram.
StoredTwiceWasRetried ==
    \A i, j \in DOMAIN stored :
        (i # j /\ stored[i].point = stored[j].point) =>
            /\ transport = "http"
            /\ stored[i].point \in retried
            /\ fate[stored[i].point] # "lost"

\* Storing a line again overwrites the first one, and doubles no point, unless
\* a global tag was added between the write of the point and a later send.
SameKeyUnlessTagsAdded ==
    \A i, j \in DOMAIN stored :
        LET p == stored[i].point
        IN  stored[j].point = p /\ stored[i].tags # stored[j].tags =>
                /\ p \in retried
                /\ Len(tagsAt[p]) < Len(mGlobalTags)

\* Over HTTP points reach the store in the order of writing, late requests or
\* not; but one that was given up (lost by an unbatched write, or cleared or
\* dropped with its batch), or whose repetition was redirected, may come in
\* behind later ones, when its late request does.
StoredInOrder ==
    transport = "http" =>
        \A p, q \in StoredPoints :
            p < q /\ First(q) < First(p) =>
                \/ fate[p] \in {"lost", "cleared", "dropped"}
                \/ p \in redirected /\ p \in retried

\* Over HTTP a point the server does not accept is never accepted (a
\* redirection apart), and it holds up all points behind it for as long as the
\* client keeps it.
NothingPassesPoison ==
    \A p \in Poison \cap 1..issued :
        /\ transport = "http" /\ p \in Range(acked) => p \in redirected
        /\ fate[p] = "held" => \A q \in p..issued : q \notin Range(acked)

\* A batch that has outgrown the datagram is not sent any more, in parts
\* neither: its points are kept until they are cleared or dropped.
OutgrownBatchIsStuck ==
    [][transport = "datagram" /\ Len(mPointBatch) > MaxDatagram =>
          \A p \in Range(mPointBatch) :
              fate'[p] \in {"held", "cleared", "dropped"}]_pathVars

\* The call in progress waits for an answer.
Waiting == pc = "sending" /\ current # 0 /\ ~answer.curlOk

\* Every call of the application comes to its end, unless it waits for ever
\* for an answer that does not come: no other step of a call can hang.
EveryCallReturns ==
    \/ <>[]Waiting
    \/ pc \in {"adding", "sending"} ~> pc \notin {"adding", "sending"}

\* With an application that keeps flushing every point is accepted or given up
\* in one of the ways the application can see, unless a call waits for ever or
\* sends fail again and again.
EveryPointIsSettled ==
    \/ <>[]Waiting
    \/ <>(failures = MaxFailures)
    \/ \A p \in 1..MaxPoints :
          (p <= issued /\ fate[p] = "held") ~> (p <= issued /\ fate[p] # "held")

-----------------------------------------------------------------------------
\* Over HTTP the client and the server keep the promise of module Delivery;
\* of a datagram nothing is promised but that it is no invention.
Promise == INSTANCE Delivery WITH
               written  <- issued,
               accepted <- Range(acked),
               present  <- StoredPoints,
               excused  <- IF transport = "http" THEN redirected
                                                 ELSE Range(acked)

IsDelivery == Promise!Spec
=============================================================================
