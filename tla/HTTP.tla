-------------------------------- MODULE HTTP --------------------------------
(***************************************************************************)
(* Class influxdb::transports::HTTP: how its objects acquire and release   *)
(* what they own in libcurl, and the requests they make on their two       *)
(* handles.  One thread; several objects may live at the same time and     *)
(* share the global state of libcurl.                                      *)
(*                                                                         *)
(* A request is two steps, the options set on a handle and the transfer    *)
(* with what is made of its end: libcurl keeps pointers to the locals of   *)
(* the call (its frame), and between the two steps they must be alive.     *)
(***************************************************************************)
EXTENDS Integers, FiniteSets, HttpResponse

CONSTANTS
    Objects,      \* objects of class HTTP
    Queries,      \* texts of queries
    Refused,      \* those whose URL libcurl does not take (over its limit)
    Codes,        \* status codes a server may answer with
    Answers,      \* forms of body it may answer with
    MaxCalls      \* bound: requests made

CREATE == "CREATE DATABASE"

ASSUME RequestsAreSane ==
    /\ IsFiniteSet(Objects) /\ Objects # {}
    /\ Refused \subseteq Queries
    /\ CREATE \notin Queries
    /\ Codes \subseteq Nat
    /\ Answers \subseteq Bodies
    /\ MaxCalls \in Nat

VARIABLES
    phase,        \* of each object: how far its constructor or destructor got
    dbVersion,    \* of each object
    handles,      \* easy handles open in libcurl, as <<object, kind>>
    option,       \* what was last set on each handle
    call,         \* the request in progress
    calls,        \* frames of calls so far; a frame is named by its number

\* External: libcurl and the server.
    globalInits,  \* curl_global_init less curl_global_cleanup
    headerLists,  \* objects for which a list of headers is allocated
    database,     \* the database exists on the server

\* History.
    last          \* the latest request that ended

held == <<globalInits, headerLists>>

vars == <<phase, dbVersion, handles, option, call, calls, held, database, last>>

Kinds   == {"write", "read"}
NoFrame == 0
NoCall  == [op |-> "none", obj |-> CHOOSE o \in Objects : TRUE,
            text |-> "none"]
NotYet  == [op |-> "none", text |-> "none", asked |-> "none",
            response |-> [curlOk |-> TRUE, code |-> 200, body |-> "empty"],
            thrown |-> "nothing"]

\* headers: the handle has the list of its object.
Unset == [url |-> "none", writeData |-> NoFrame, postFields |-> NoFrame,
          headers |-> FALSE]

Responses == [curlOk : {TRUE}, code : Codes, body : Answers]
                 \union [curlOk : {FALSE}, code : {0}, body : {"empty"}]

Init ==
    /\ phase = [o \in Objects |-> "absent"]
    /\ dbVersion = [o \in Objects |-> 0]
    /\ handles = {}
    /\ option = [h \in Objects \X Kinds |-> Unset]
    /\ call = NoCall
    /\ calls = 0
    /\ globalInits = 0
    /\ headerLists = {}
    /\ database = FALSE
    /\ last = NotYet

Idle == call = NoCall /\ \A o \in Objects : phase[o] \notin {"named", "writing"}

-----------------------------------------------------------------------------
(* Construction and destruction.                                           *)

\* initCurlWrite up to the check of the name.  A name that is missing, or that
\* libcurl cannot escape, is found out after curl_global_init, which nothing
\* then takes back.
initCurlGlobal(o) ==
    /\ Idle
    /\ phase[o] = "absent"
    /\ \/ phase' = [phase EXCEPT ![o] = "failedInit"] /\ UNCHANGED globalInits
       \/ /\ globalInits' = globalInits + 1
          /\ \E to \in {"named", "failedName"} :
                phase' = [phase EXCEPT ![o] = to]
    /\ UNCHANGED <<dbVersion, handles, option, call, calls, headerLists, database,
                   last>>

\* The rest of initCurlWrite: the handle, and the URL it keeps for good.
createWriteHandle(o) ==
    /\ phase[o] = "named"
    /\ \/ /\ phase' = [phase EXCEPT ![o] = "writing"]
          /\ handles' = handles \union {<<o, "write">>}
          /\ option' = [option EXCEPT ![<<o, "write">>].url = "write"]
       \/ /\ phase' = [phase EXCEPT ![o] = "failedWrite"]
          /\ UNCHANGED <<handles, option>>
    /\ UNCHANGED <<dbVersion, call, calls, held, database, last>>

failingReadHandleCleaned(o) ==
    /\ phase' = [phase EXCEPT ![o] = "failedRead"]
    /\ globalInits' = globalInits - 1

\* Without a read handle the constructor throws.  The write handle stays open
\* and libcurl initialised: no destructor runs.
failingReadHandle(o) ==
    /\ phase' = [phase EXCEPT ![o] = "failedRead"]
    /\ UNCHANGED globalInits

\* initCurlRead and the end of the constructor.
createReadHandle(o) ==
    /\ phase[o] = "writing"
    /\ \/ /\ phase' = [phase EXCEPT ![o] = "ready"]
          /\ handles' = handles \union {<<o, "read">>}
          /\ \E v \in {1, 2} : dbVersion' = [dbVersion EXCEPT ![o] = v]
          /\ UNCHANGED globalInits
       \/ /\ failingReadHandle(o)
          /\ UNCHANGED <<handles, dbVersion>>
    /\ UNCHANGED <<option, call, calls, headerLists, database, last>>

freedAtOnce(o) == headerLists

\* The list that curl_slist_append allocates.
listsWith(o) == headerLists \union {o}

\* The factory calls it once, for an object of version 2 with a token, when the
\* object is built.  libcurl keeps the pointer to the list on both handles.
enableTokenAuth(o) ==
    /\ Idle
    /\ phase[o] = "ready"
    /\ dbVersion[o] = 2
    /\ ~option[<<o, "write">>].headers
    /\ headerLists' = listsWith(o)
    /\ option' = [option EXCEPT ![<<o, "read">>].headers = TRUE,
                                ![<<o, "write">>].headers = TRUE]
    /\ UNCHANGED <<phase, dbVersion, handles, call, calls, globalInits, database,
                   last>>

writeHandleOf(o) == {<<o, "write">>}

handlesOf(o) == {<<o, "write">>, <<o, "read">>}

destroyedAsCopy(o) == phase

\* An object is destroyed once.
destroyed(o) == [phase EXCEPT ![o] = "destroyed"]

\* The destructor does not free the list.
Destroy(o) ==
    /\ Idle
    /\ phase[o] = "ready"
    /\ phase' = destroyed(o)
    /\ handles' = handles \ handlesOf(o)
    /\ globalInits' = globalInits - 1
    /\ UNCHANGED <<dbVersion, option, call, calls, headerLists, database, last>>

-----------------------------------------------------------------------------
(* Requests.                                                               *)

Begin(op, o, text) ==
    /\ Idle
    /\ phase[o] = "ready"
    /\ calls < MaxCalls
    /\ calls' = calls + 1
    /\ call' = [op |-> op, obj |-> o, text |-> text]
    /\ UNCHANGED <<phase, dbVersion, handles, held, database, last>>

onlyFields(o) ==
    option' = [option EXCEPT ![<<o, "write">>].postFields = calls']

\* The options of a send: where the answer goes and what to post.
setPost(o) ==
    option' = [option EXCEPT ![<<o, "write">>].writeData = calls',
                             ![<<o, "write">>].postFields = calls']

send(o) ==
    /\ Begin("send", o, "write")
    /\ setPost(o)

setQueryOnce(o, text) ==
    option' = [option EXCEPT
                  ![<<o, "read">>].url = IF @ = "none" THEN text ELSE @,
                  ![<<o, "read">>].writeData = calls']

\* The options of a query.  The result of setting the URL is not looked at:
\* libcurl gives up the URL before, and then does not take one that is too long.
setQuery(o, text) ==
    option' = [option EXCEPT
                  ![<<o, "read">>].url = IF text \in Refused THEN "none" ELSE text,
                  ![<<o, "read">>].writeData = calls']

query(o, text) ==
    /\ Begin("query", o, text)
    /\ setQuery(o, text)

\* InfluxDB::createDatabaseIfNotExists, which calls HTTP::createDatabase.
createDatabase(o) ==
    /\ dbVersion[o] = 1
    /\ Begin("createDatabase", o, CREATE)
    /\ setQuery(o, CREATE)

\* Version 2 is turned down before any request is made.
createDatabaseV2(o) ==
    /\ Idle
    /\ phase[o] = "ready"
    /\ dbVersion[o] # 1
    /\ last' = [NotYet EXCEPT !.op = "createDatabase",
                              !.thrown = "InfluxDBException"]
    /\ UNCHANGED <<phase, dbVersion, handles, option, call, calls, held,
                   database>>

HandleOfCall ==
    <<call.obj, IF call.op = "send" THEN "write" ELSE "read">>

\* createDatabaseIfNotExists turns every std::runtime_error into a plain
\* exception of the library; a std::logic_error is none.
rethrown(op, thrown) ==
    IF op = "createDatabase" /\ thrown \notin {"nothing", "logic_error"}
      THEN "InfluxDBException" ELSE thrown

\* External: whether there is a database when a request has been served.  A
\* server asked to create one does so unless its answer says otherwise; when
\* the answer is lost, it may or may not have.
databaseAfter(asked, response) ==
    IF asked # CREATE THEN {database}
    ELSE IF ~response.curlOk THEN {database, TRUE}
    ELSE {database \/ (response.code = 200 /\ response.body = "object")}

\* HTTP::query of a text that libcurl cannot escape: std::string throws on the
\* null pointer, before any option is set.
notEscaped(op, o, text) ==
    /\ Idle
    /\ phase[o] = "ready"
    /\ last' = [NotYet EXCEPT !.op = op, !.text = text,
                              !.thrown = rethrown(op, "logic_error")]
    /\ UNCHANGED <<phase, dbVersion, handles, option, call, calls, held,
                   database>>

queryNotEscaped(o) ==
    \/ \E text \in Queries : notEscaped("query", o, text)
    \/ /\ dbVersion[o] = 1
       /\ notEscaped("createDatabase", o, CREATE)

\* curl_easy_perform on the handle, the status, and treatCurlResponse.  To have
\* no URL is an error of libcurl.
perform ==
    /\ call # NoCall
    /\ \E response \in Responses :
          LET asked == option[HandleOfCall].url
          IN  /\ asked = "none" => ~response.curlOk
              /\ database' \in databaseAfter(asked, response)
              /\ last' = [op |-> call.op, text |-> call.text, asked |-> asked,
                          response |-> response,
                          thrown |-> rethrown(call.op,
                                              treatCurlResponse(response))]
    /\ call' = NoCall
    /\ UNCHANGED <<phase, dbVersion, handles, option, calls, held>>

\* The application stops.
Stop == Idle /\ UNCHANGED vars

Next ==
    \/ \E o \in Objects :
          \/ initCurlGlobal(o) \/ createWriteHandle(o) \/ createReadHandle(o)
          \/ enableTokenAuth(o) \/ Destroy(o)
          \/ send(o) \/ (\E text \in Queries : query(o, text))
          \/ createDatabase(o) \/ createDatabaseV2(o) \/ queryNotEscaped(o)
    \/ perform
    \/ Stop

Spec == Init /\ [][Next]_vars

-----------------------------------------------------------------------------
Phases == {"absent", "named", "writing", "ready", "destroyed",
           "failedInit", "failedName", "failedWrite", "failedRead"}

Texts == Queries \union {"none", "write", CREATE}

\* The values of the variables, each on its own.
TypeOK ==
    /\ phase \in [Objects -> Phases]
    /\ dbVersion \in [Objects -> 0..2]
    /\ handles \subseteq Objects \X Kinds
    /\ option \in [Objects \X Kinds ->
                      [url : Texts, writeData : Nat, postFields : Nat,
                       headers : BOOLEAN]]
    /\ call \in [op : {"none", "send", "query", "createDatabase"},
                 obj : Objects, text : Texts]
    /\ calls \in 0..MaxCalls
    /\ globalInits \in Nat
    /\ headerLists \subseteq Objects
    /\ database \in BOOLEAN
    /\ last \in [op : {"none", "send", "query", "createDatabase"},
                 text : Texts, asked : Texts,
                 response : [curlOk : BOOLEAN, code : Nat, body : Bodies],
                 thrown : Thrown \union {"logic_error"}]

\* libcurl is never cleaned up under an object that still has handles in it,
\* whatever other objects were built, destroyed or failed to be built.
LibcurlOutlivesHandles ==
    globalInits >= Cardinality({o \in Objects : \E k \in Kinds : <<o, k>> \in handles})

\* The objects for which libcurl is initialised.
Holders == {o \in Objects : phase[o] \notin {"absent", "failedInit", "destroyed"}}

Counted == globalInits = Cardinality(Holders)

HandlesAreOpen ==
    handles = {h \in Objects \X Kinds :
                  \/ phase[h[1]] = "ready"
                  \/ phase[h[1]] \in {"writing", "failedRead"} /\ h[2] = "write"}

ListsHaveOwners ==
    \A o \in headerLists : /\ phase[o] \in {"ready", "destroyed"}
                           /\ \A k \in Kinds : option[<<o, k>>].headers

\* What libcurl holds for the objects is exactly what their constructors
\* took: objects that are gone hold nothing but a list of headers, if they were
\* given a token, and what a constructor that failed has left behind is one
\* global initialisation, and a write handle if it was the read handle that
\* could not be had.
ResourcesAreAccountedFor == Counted /\ HandlesAreOpen /\ ListsHaveOwners

\* A transfer writes to, and reads from, the locals of the call that runs it,
\* on open handles: not those of a call that is over, whose addresses the
\* handle still holds.  The headers it reads, which libcurl has not copied, are
\* those of a list that still exists.
TransferUsesLiveMemory ==
    call # NoCall =>
        /\ HandleOfCall \in handles
        /\ option[HandleOfCall].writeData = calls
        /\ call.op = "send" => option[HandleOfCall].postFields = calls
        /\ option[HandleOfCall].headers => call.obj \in headerLists

\* A request that returns was answered for its own URL.  The handle is used for
\* all of them: none is served for the URL of an earlier one, and one whose URL
\* libcurl did not take, or that could not be put into one, throws.
AnswerIsToOwnRequest ==
    last.asked # last.text => last.asked = "none" /\ last.thrown # "nothing"

\* "\throw InfluxDBException when CURL fails on POSTing or response code != 200"
\* (HTTP.h:52).  204 is the success the tests accept beside it.
SendThrowsUnless200 ==
    last.op = "send" /\ last.thrown = "nothing" =>
        last.response.code \in {200, 204}

\* The exceptions of test "Send throws on unsuccessful response": 404 is
\* NonExistentDatabase, another 4xx BadRequest, 5xx ServerError.
StatusNamesException ==
    last.op = "send" /\ last.response.curlOk /\ last.response.code >= 400 =>
        last.thrown = errorOfStatus(last.response.code)

\* "Creates database used at url if it does not exists" (HTTP.h:59): once
\* createDatabase has returned, there is a database.
CreateDatabaseCreates ==
    last.op = "createDatabase" /\ last.thrown = "nothing" => database
=============================================================================
