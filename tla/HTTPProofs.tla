----------------------------- MODULE HTTPProofs -----------------------------
(***************************************************************************)
(* Theorems about class HTTP, for any number of objects, queries, statuses *)
(* and requests: what its objects hold in libcurl, and what a transfer     *)
(* finds on its handle.                                                    *)
(***************************************************************************)
EXTENDS HTTP, FiniteSetTheorems, TLAPS

-----------------------------------------------------------------------------
(* The answer to a request.                                                *)

\* treatCurlResponse throws one of the exceptions of the library or nothing,
\* and nothing exactly when libcurl succeeded with a status below 400.
LEMMA TreatCurlResponse ==
    ASSUME NEW response, response.curlOk \in BOOLEAN, response.code \in Nat
    PROVE  /\ treatCurlResponse(response) \in Thrown
           /\ treatCurlResponse(response) = "nothing" <=>
                  response.curlOk /\ response.code < 400
<1>1. CASE ~response.curlOk
  BY <1>1 DEF treatCurlResponse, Thrown
<1>2. CASE response.curlOk /\ response.code < 400
  BY <1>2 DEF treatCurlResponse, Thrown
<1>3. CASE response.curlOk /\ response.code >= 400
  <2>1. treatCurlResponse(response) =
            IF parsesErrorMessage(response.body)
              THEN errorOfStatus(response.code) ELSE "InfluxDBException"
    BY <1>3 DEF treatCurlResponse
  <2>2. errorOfStatus(response.code) \in
            {"NonExistentDatabase", "BadRequest", "ServerError"}
    BY <1>3 DEF errorOfStatus
  <2>3. ~(response.code < 400)
    BY <1>3
  <2> QED BY <2>1, <2>2, <2>3 DEF Thrown
<1> QED BY <1>1, <1>2, <1>3

-----------------------------------------------------------------------------
(* Types.                                                                  *)

Handles == Objects \X Kinds

Options == [url : Texts, writeData : Nat, postFields : Nat, headers : BOOLEAN]

\* A request that cannot be made is none: NoCall differs from every other call
\* in its op.
LEMMA NoCallType ==
    NoCall \in [op : {"none"}, obj : Objects, text : {"none"}]
BY RequestsAreSane DEF NoCall

LEMMA ResponseType == Responses \subseteq [curlOk : BOOLEAN, code : Nat, body : Bodies]
<1>1. Codes \subseteq Nat /\ Answers \subseteq Bodies /\ {"empty"} \subseteq Bodies
  BY RequestsAreSane DEF Bodies
<1>2. {TRUE} \subseteq BOOLEAN /\ {FALSE} \subseteq BOOLEAN
  OBVIOUS
<1>3. {0} \subseteq Nat
  OBVIOUS
<1> QED BY <1>1, <1>2, <1>3, Zenon DEF Responses

LEMMA InitType == Init => TypeOK
<1> SUFFICES ASSUME Init PROVE TypeOK
  OBVIOUS
<1>1. Unset \in Options
  BY DEF Unset, Options, Texts, NoFrame
<1>2. option \in [Handles -> Options]
  BY <1>1 DEF Init, Handles
<1>3. call \in [op : {"none", "send", "query", "createDatabase"},
                obj : Objects, text : Texts]
  BY NoCallType DEF Init, Texts
<1>4. last \in [op : {"none", "send", "query", "createDatabase"},
                text : Texts, asked : Texts,
                response : [curlOk : BOOLEAN, code : Nat, body : Bodies],
                thrown : Thrown \union {"logic_error"}]
  BY DEF Init, NotYet, Texts, Thrown, Bodies
<1>5. /\ phase \in [Objects -> Phases]
      /\ dbVersion \in [Objects -> 0..2]
      /\ handles \subseteq Objects \X Kinds
      /\ calls \in 0..MaxCalls
      /\ globalInits \in Nat
      /\ headerLists \subseteq Objects
      /\ database \in BOOLEAN
  <2>1. phase \in [Objects -> Phases]
    BY DEF Init, Phases
  <2>2. MaxCalls \in Nat
    BY RequestsAreSane
  <2>3. dbVersion \in [Objects -> 0..2] /\ calls \in 0..MaxCalls /\ globalInits \in Nat
    BY <2>2 DEF Init
  <2>4. database \in BOOLEAN
    BY DEF Init
  <2> QED BY <2>1, <2>3, <2>4 DEF Init
<1> QED BY <1>2, <1>3, <1>4, <1>5 DEF TypeOK, Handles, Options

\* A step of a request that begins: all but the options and the handle.
LEMMA BeginType ==
    ASSUME TypeOK, NEW o \in Objects, NEW text \in Texts,
           NEW op \in {"send", "query", "createDatabase"}, Begin(op, o, text),
           option' \in [Handles -> Options]
    PROVE  TypeOK'
<1>1. call' \in [op : {"none", "send", "query", "createDatabase"},
                 obj : Objects, text : Texts]
  BY DEF Begin
<1>2. calls' \in 0..MaxCalls
  BY RequestsAreSane DEF Begin, TypeOK
<1> QED BY <1>1, <1>2 DEF Begin, TypeOK, held, Handles, Options

\* A query that is not escaped leaves all as it was but what is recorded.
LEMMA NotEscapedType ==
    ASSUME TypeOK, NEW o \in Objects, NEW op \in {"query", "createDatabase"},
           NEW text \in Texts, notEscaped(op, o, text)
    PROVE  TypeOK'
<1>1. rethrown(op, "logic_error") \in Thrown \union {"logic_error"}
  BY DEF rethrown
<1>2. last' \in [op : {"none", "send", "query", "createDatabase"},
                 text : Texts, asked : Texts,
                 response : [curlOk : BOOLEAN, code : Nat, body : Bodies],
                 thrown : Thrown \union {"logic_error"}]
  BY <1>1 DEF notEscaped, NotYet, Texts, Bodies
<1> QED BY <1>2 DEF notEscaped, TypeOK, held

\* The options that a send, a query, a constructor and a token set.
LEMMA OptionsKeepType ==
    ASSUME TypeOK, NEW o \in Objects
    PROVE  /\ setPost(o) /\ calls' \in Nat => option' \in [Handles -> Options]
           /\ \A text \in Texts :
                 setQuery(o, text) /\ calls' \in Nat =>
                     option' \in [Handles -> Options]
           /\ createWriteHandle(o) => option' \in [Handles -> Options]
           /\ enableTokenAuth(o) => option' \in [Handles -> Options]
<1> DEFINE w == <<o, "write">>
           r == <<o, "read">>
<1>1. w \in Handles /\ r \in Handles
  BY DEF Handles, Kinds
<1>2. option \in [Handles -> Options]
  BY DEF TypeOK, Handles, Options
<1>3. "write" \in Texts
  BY DEF Texts
<1> HIDE DEF w, r
<1>4. setPost(o) /\ calls' \in Nat => option' \in [Handles -> Options]
  BY <1>1, <1>2 DEF setPost, Options, w
<1>5. ASSUME NEW text \in Texts, setQuery(o, text), calls' \in Nat
      PROVE  option' \in [Handles -> Options]
  <2> DEFINE url == IF text \in Refused THEN "none" ELSE text
             new == [option[r] EXCEPT !.url = url, !.writeData = calls']
  <2>1. url \in Texts
    BY DEF Texts
  <2>2. option[r] \in Options
    BY <1>1, <1>2
  <2>3. new \in Options
    <3> HIDE DEF url
    <3> QED BY <2>1, <2>2, <1>5 DEF Options
  <2>4. option' = [option EXCEPT ![r] = new]
    BY <1>1, <1>2, <1>5 DEF setQuery, r
  <2> HIDE DEF new
  <2> QED BY <1>1, <1>2, <2>3, <2>4
<1>6. createWriteHandle(o) => option' \in [Handles -> Options]
  BY <1>1, <1>2, <1>3 DEF createWriteHandle, Options, w
<1>7. enableTokenAuth(o) => option' \in [Handles -> Options]
  BY <1>1, <1>2 DEF enableTokenAuth, Options, w, r
<1> QED BY <1>4, <1>5, <1>6, <1>7

LEMMA HoldersAreFinite == IsFiniteSet(Holders)
<1>1. Holders \subseteq Objects /\ IsFiniteSet(Objects)
  BY RequestsAreSane DEF Holders
<1> QED BY <1>1, FS_Subset

\* libcurl is initialised as long as there is an object that is ready.
LEMMA ReadyIsInitialised ==
    ASSUME TypeOK, ResourcesAreAccountedFor, NEW o \in Objects, phase[o] = "ready"
    PROVE  globalInits - 1 \in Nat
<1>1. globalInits = Cardinality(Holders)
  BY DEF ResourcesAreAccountedFor, Counted
<1>2. Holders # {}
  BY DEF Holders
<1>3. Cardinality(Holders) \in Nat /\ Cardinality(Holders) # 0
  BY <1>2, HoldersAreFinite, FS_CardinalityType, FS_EmptySet
<1> QED BY <1>1, <1>3

LEMMA NextType == TypeOK /\ ResourcesAreAccountedFor /\ [Next]_vars => TypeOK'
<1> SUFFICES ASSUME TypeOK, ResourcesAreAccountedFor, [Next]_vars PROVE TypeOK'
  OBVIOUS
<1> USE DEF Handles, Options
<1>1. ASSUME NEW o \in Objects, initCurlGlobal(o) PROVE TypeOK'
  BY <1>1 DEF initCurlGlobal, TypeOK, Phases
<1>2. ASSUME NEW o \in Objects, createWriteHandle(o) PROVE TypeOK'
  <2>1. option' \in [Handles -> Options]
    BY <1>2, OptionsKeepType
  <2>2. handles' \subseteq Objects \X Kinds /\ phase' \in [Objects -> Phases]
    BY <1>2 DEF createWriteHandle, TypeOK, Phases, Kinds
  <2> QED BY <1>2, <2>1, <2>2 DEF createWriteHandle, TypeOK, held
<1>3. ASSUME NEW o \in Objects, createReadHandle(o) PROVE TypeOK'
  BY <1>3 DEF createReadHandle, failingReadHandle, TypeOK, Phases, Kinds
<1>4. ASSUME NEW o \in Objects, enableTokenAuth(o) PROVE TypeOK'
  <2>1. option' \in [Handles -> Options]
    BY <1>4, OptionsKeepType
  <2> QED BY <1>4, <2>1 DEF enableTokenAuth, listsWith, TypeOK
<1>5. ASSUME NEW o \in Objects, Destroy(o) PROVE TypeOK'
  <2>1. globalInits' \in Nat
    BY <1>5, ReadyIsInitialised DEF Destroy
  <2>2. phase' \in [Objects -> Phases] /\ handles' \subseteq Objects \X Kinds
    BY <1>5 DEF Destroy, destroyed, TypeOK, Phases
  <2> QED BY <1>5, <2>1, <2>2 DEF Destroy, TypeOK
<1>6. ASSUME NEW o \in Objects, send(o) PROVE TypeOK'
  <2>1. calls' \in Nat
    BY <1>6 DEF send, Begin, TypeOK
  <2>2. option' \in [Handles -> Options]
    BY <1>6, <2>1, OptionsKeepType DEF send
  <2> QED BY <1>6, <2>2, BeginType DEF send, Texts
<1>7. ASSUME NEW o \in Objects, NEW text \in Queries \union {CREATE},
             NEW op \in {"query", "createDatabase"},
             Begin(op, o, text), setQuery(o, text)
      PROVE  TypeOK'
  <2>1. calls' \in Nat /\ text \in Texts
    BY <1>7 DEF Begin, TypeOK, Texts
  <2>2. option' \in [Handles -> Options]
    BY <1>7, <2>1, OptionsKeepType
  <2> QED BY <1>7, <2>1, <2>2, BeginType
<1>8. ASSUME NEW o \in Objects, createDatabaseV2(o) PROVE TypeOK'
  BY <1>8 DEF createDatabaseV2, TypeOK, held, NotYet, Texts, Thrown, Bodies
<1>9. CASE perform
  <2>1. PICK response \in Responses :
            /\ database' \in databaseAfter(option[HandleOfCall].url, response)
            /\ last' = [op |-> call.op, text |-> call.text,
                        asked |-> option[HandleOfCall].url,
                        response |-> response,
                        thrown |-> rethrown(call.op, treatCurlResponse(response))]
    BY <1>9 DEF perform
  <2>2. response \in [curlOk : BOOLEAN, code : Nat, body : Bodies]
    BY <2>1, ResponseType
  <2>3. treatCurlResponse(response) \in Thrown
    BY <2>2, TreatCurlResponse
  <2>4. rethrown(call.op, treatCurlResponse(response)) \in Thrown \union {"logic_error"}
    BY <2>3 DEF rethrown, Thrown
  <2>5. option[HandleOfCall].url \in Texts
    BY DEF TypeOK, HandleOfCall, Kinds
  <2>6. last' \in [op : {"none", "send", "query", "createDatabase"},
                   text : Texts, asked : Texts,
                   response : [curlOk : BOOLEAN, code : Nat, body : Bodies],
                   thrown : Thrown \union {"logic_error"}]
    BY <2>1, <2>2, <2>4, <2>5 DEF TypeOK
  <2>7. database' \in BOOLEAN
    BY <2>1 DEF databaseAfter, TypeOK
  <2>8. call' \in [op : {"none", "send", "query", "createDatabase"},
                   obj : Objects, text : Texts]
    BY <1>9, NoCallType DEF perform, Texts
  <2> QED BY <1>9, <2>6, <2>7, <2>8 DEF perform, TypeOK, held
<1>10. CASE UNCHANGED vars
  BY <1>10 DEF vars, held, TypeOK
<1>11. ASSUME NEW o \in Objects, queryNotEscaped(o) PROVE TypeOK'
  BY <1>11, NotEscapedType DEF queryNotEscaped, Texts
<1> QED BY <1>1, <1>2, <1>3, <1>4, <1>5, <1>6, <1>7, <1>8, <1>9, <1>10, <1>11
        DEF Next, Stop, query, createDatabase

-----------------------------------------------------------------------------
(* The inductive invariant.                                                *)

\* A request in progress is one of an object that is ready, while no object is
\* being built, and its handle has what the request has set.
RequestIsSet ==
    call # NoCall =>
        /\ call.op # "none"
        /\ phase[call.obj] = "ready"
        /\ \A o \in Objects : phase[o] \notin {"named", "writing"}
        /\ option[HandleOfCall].writeData = calls
        /\ call.op = "send" => option[HandleOfCall].postFields = calls
        /\ option[HandleOfCall].url \in {call.text, "none"}

\* The write handle keeps the URL it was made with.
WriteUrlIsKept ==
    \A o \in Objects : phase[o] \in {"writing", "ready"} =>
        option[<<o, "write">>].url = "write"

\* A list that is set on a handle is allocated.
ListsAreAllocated ==
    \A h \in Handles : option[h].headers => h[1] \in headerLists

IInv == /\ TypeOK
        /\ ResourcesAreAccountedFor
        /\ RequestIsSet
        /\ WriteUrlIsKept
        /\ ListsAreAllocated
        /\ AnswerIsToOwnRequest

\* What the options of a constructor, a send and a query change and keep.
LEMMA OptionsOfConstructor ==
    ASSUME TypeOK, NEW o \in Objects, createWriteHandle(o)
    PROVE  /\ phase'[o] = "writing" => option'[<<o, "write">>].url = "write"
           /\ \A h \in Handles \ {<<o, "write">>} : option'[h] = option[h]
           /\ \A h \in Handles : option'[h].headers = option[h].headers
<1>1. <<o, "write">> \in Handles /\ option \in [Handles -> Options]
  BY DEF Handles, Options, Kinds, TypeOK
<1>2. phase \in [Objects -> Phases]
  BY DEF TypeOK
<1> QED BY <1>1, <1>2 DEF createWriteHandle, Options

LEMMA OptionsOfSend ==
    ASSUME TypeOK, NEW o \in Objects, setPost(o)
    PROVE  /\ option'[<<o, "write">>].writeData = calls'
           /\ option'[<<o, "write">>].postFields = calls'
           /\ \A h \in Handles : /\ option'[h].headers = option[h].headers
                                 /\ option'[h].url = option[h].url
<1>1. <<o, "write">> \in Handles /\ option \in [Handles -> Options]
  BY DEF Handles, Options, Kinds, TypeOK
<1> QED BY <1>1 DEF setPost, Options

LEMMA OptionsOfQuery ==
    ASSUME TypeOK, NEW o \in Objects, NEW text, setQuery(o, text)
    PROVE  /\ option'[<<o, "read">>].writeData = calls'
           /\ option'[<<o, "read">>].url \in {text, "none"}
           /\ \A h \in Handles \ {<<o, "read">>} : option'[h] = option[h]
           /\ \A h \in Handles : option'[h].headers = option[h].headers
<1>1. <<o, "read">> \in Handles /\ option \in [Handles -> Options]
  BY DEF Handles, Options, Kinds, TypeOK
<1> QED BY <1>1 DEF setQuery, Options

LEMMA OptionsOfToken ==
    ASSUME TypeOK, NEW o \in Objects, enableTokenAuth(o)
    PROVE  /\ \A k \in Kinds : option'[<<o, k>>].headers
           /\ \A h \in Handles : /\ option'[h].url = option[h].url
                                 /\ h[1] # o => option'[h] = option[h]
<1>1. /\ <<o, "read">> \in Handles
      /\ <<o, "write">> \in Handles
      /\ option \in [Handles -> Options]
  BY DEF Handles, Options, Kinds, TypeOK
<1> QED BY <1>1 DEF enableTokenAuth, Options, Kinds

-----------------------------------------------------------------------------
(* What objects hold.                                                      *)

\* curl_global_init is counted for an object that has not had it, and
\* curl_global_cleanup for one that has.
LEMMA CountOneMore ==
    ASSUME Counted, NEW o \in Objects, o \notin Holders,
           Holders' = Holders \union {o}, globalInits' = globalInits + 1
    PROVE  Counted'
<1>1. Cardinality(Holders \union {o}) = Cardinality(Holders) + 1
  BY HoldersAreFinite, FS_AddElement
<1> QED BY <1>1 DEF Counted

LEMMA CountOneLess ==
    ASSUME Counted, NEW o \in Objects, o \in Holders,
           Holders' = Holders \ {o}, globalInits' = globalInits - 1
    PROVE  Counted'
<1>1. Cardinality(Holders \ {o}) = Cardinality(Holders) - 1
  BY HoldersAreFinite, FS_RemoveElement
<1> QED BY <1>1 DEF Counted

LEMMA InitResources == TypeOK /\ Init => ResourcesAreAccountedFor
<1> SUFFICES ASSUME TypeOK, Init PROVE ResourcesAreAccountedFor
  OBVIOUS
<1>1. Holders = {}
  BY DEF Init, Holders
<1>2. Counted
  BY <1>1, FS_EmptySet DEF Counted, Init
<1>3. HandlesAreOpen /\ ListsHaveOwners
  BY DEF Init, HandlesAreOpen, ListsHaveOwners
<1> QED BY <1>2, <1>3 DEF ResourcesAreAccountedFor

\* A step that keeps phases, handles, lists and who has one keeps the account.
LEMMA OtherStepsKeepAccount ==
    ASSUME TypeOK, ResourcesAreAccountedFor,
           UNCHANGED <<phase, handles, held>>,
           \A h \in Handles : option'[h].headers = option[h].headers
    PROVE  ResourcesAreAccountedFor'
<1>1. Counted' /\ HandlesAreOpen'
  BY DEF ResourcesAreAccountedFor, Counted, Holders, HandlesAreOpen, held
<1>2. ListsHaveOwners'
  BY DEF ResourcesAreAccountedFor, ListsHaveOwners, held, Handles, TypeOK
<1> QED BY <1>1, <1>2 DEF ResourcesAreAccountedFor

LEMMA NextResources ==
    TypeOK /\ ResourcesAreAccountedFor /\ [Next]_vars => ResourcesAreAccountedFor'
<1> SUFFICES ASSUME TypeOK, ResourcesAreAccountedFor, [Next]_vars
             PROVE  ResourcesAreAccountedFor'
  OBVIOUS
<1> USE DEF ResourcesAreAccountedFor
<1>1. ASSUME NEW o \in Objects, initCurlGlobal(o)
      PROVE  ResourcesAreAccountedFor'
  <2>1. ASSUME phase' = [phase EXCEPT ![o] = "failedInit"], UNCHANGED globalInits
        PROVE  Counted'
    <3>1. Holders' = Holders
      BY <1>1, <2>1 DEF initCurlGlobal, Holders, TypeOK
    <3> QED BY <2>1, <3>1 DEF Counted
  <2>2. ASSUME globalInits' = globalInits + 1,
               NEW to \in {"named", "failedName"},
               phase' = [phase EXCEPT ![o] = to]
        PROVE  Counted'
    <3>1. Holders' = Holders \union {o} /\ o \notin Holders
      BY <1>1, <2>2 DEF initCurlGlobal, Holders, TypeOK
    <3> QED BY <2>2, <3>1, CountOneMore
  <2>3. Counted'
    BY <1>1, <2>1, <2>2 DEF initCurlGlobal
  <2>4. HandlesAreOpen' /\ ListsHaveOwners'
    BY <1>1 DEF initCurlGlobal, HandlesAreOpen, ListsHaveOwners, TypeOK
  <2> QED BY <2>3, <2>4
<1>2. ASSUME NEW o \in Objects, createWriteHandle(o)
      PROVE  ResourcesAreAccountedFor'
  <2>1. Holders' = Holders
    BY <1>2 DEF createWriteHandle, Holders, TypeOK
  <2>2. Counted'
    BY <1>2, <2>1 DEF createWriteHandle, Counted, held
  <2>3. HandlesAreOpen'
    BY <1>2 DEF createWriteHandle, HandlesAreOpen, TypeOK, Kinds
  <2>4. ListsHaveOwners'
    BY <1>2, OptionsOfConstructor
       DEF createWriteHandle, ListsHaveOwners, TypeOK, Handles, held
  <2> QED BY <2>2, <2>3, <2>4
<1>3. ASSUME NEW o \in Objects, createReadHandle(o)
      PROVE  ResourcesAreAccountedFor'
  <2>1. Holders' = Holders
    BY <1>3 DEF createReadHandle, failingReadHandle, Holders, TypeOK
  <2>2. Counted'
    BY <1>3, <2>1 DEF createReadHandle, failingReadHandle, Counted
  <2>3. HandlesAreOpen'
    BY <1>3 DEF createReadHandle, failingReadHandle, HandlesAreOpen, TypeOK, Kinds
  <2>4. ListsHaveOwners'
    BY <1>3 DEF createReadHandle, failingReadHandle, ListsHaveOwners, TypeOK
  <2> QED BY <2>2, <2>3, <2>4
<1>4. ASSUME NEW o \in Objects, enableTokenAuth(o)
      PROVE  ResourcesAreAccountedFor'
  <2>1. Counted' /\ HandlesAreOpen'
    BY <1>4 DEF enableTokenAuth, Counted, Holders, HandlesAreOpen
  <2>2. ListsHaveOwners'
    BY <1>4, OptionsOfToken
       DEF enableTokenAuth, listsWith, ListsHaveOwners, TypeOK, Handles
  <2> QED BY <2>1, <2>2
<1>5. ASSUME NEW o \in Objects, Destroy(o)
      PROVE  ResourcesAreAccountedFor'
  <2>1. Holders' = Holders \ {o} /\ o \in Holders
    BY <1>5 DEF Destroy, destroyed, Holders, TypeOK
  <2>2. Counted'
    BY <1>5, <2>1, CountOneLess DEF Destroy
  <2>3. HandlesAreOpen'
    BY <1>5 DEF Destroy, destroyed, handlesOf, HandlesAreOpen, TypeOK, Kinds
  <2>4. ListsHaveOwners'
    BY <1>5 DEF Destroy, destroyed, ListsHaveOwners, TypeOK
  <2> QED BY <2>2, <2>3, <2>4
<1>6. ASSUME NEW o \in Objects, send(o)
      PROVE  ResourcesAreAccountedFor'
  BY <1>6, OptionsOfSend, OtherStepsKeepAccount DEF send, Begin
<1>7. ASSUME NEW o \in Objects, NEW text, NEW op, Begin(op, o, text), setQuery(o, text)
      PROVE  ResourcesAreAccountedFor'
  BY <1>7, OptionsOfQuery, OtherStepsKeepAccount DEF Begin
<1>8. CASE perform \/ UNCHANGED vars \/ \E o \in Objects : createDatabaseV2(o) \/ queryNotEscaped(o)
  BY <1>8, OtherStepsKeepAccount DEF perform, vars, createDatabaseV2, queryNotEscaped, notEscaped
<1> QED BY <1>1, <1>2, <1>3, <1>4, <1>5, <1>6, <1>7, <1>8
        DEF Next, Stop, query, createDatabase

-----------------------------------------------------------------------------
(* What a request finds on its handle, and what becomes of it.             *)

LEMMA NextLists ==
    TypeOK /\ ListsAreAllocated /\ [Next]_vars => ListsAreAllocated'
<1> SUFFICES ASSUME TypeOK, ListsAreAllocated, [Next]_vars
             PROVE  ListsAreAllocated'
  OBVIOUS
<1> USE DEF ListsAreAllocated
<1>1. ASSUME NEW o \in Objects, createWriteHandle(o) PROVE ListsAreAllocated'
  BY <1>1, OptionsOfConstructor DEF createWriteHandle, held
<1>2. ASSUME NEW o \in Objects, enableTokenAuth(o) PROVE ListsAreAllocated'
  BY <1>2, OptionsOfToken DEF enableTokenAuth, listsWith
<1>3. ASSUME NEW o \in Objects, send(o) PROVE ListsAreAllocated'
  BY <1>3, OptionsOfSend DEF send, Begin, held
<1>4. ASSUME NEW o \in Objects, NEW text, NEW op, Begin(op, o, text), setQuery(o, text)
      PROVE  ListsAreAllocated'
  BY <1>4, OptionsOfQuery DEF Begin, held
<1>5. CASE UNCHANGED <<option, headerLists>>
  BY <1>5
<1> QED BY <1>1, <1>2, <1>3, <1>4, <1>5
        DEF Next, Stop, vars, held, perform, initCurlGlobal, createReadHandle,
            Destroy, createDatabaseV2, queryNotEscaped, notEscaped, query,
            createDatabase

LEMMA NextWriteUrl ==
    TypeOK /\ WriteUrlIsKept /\ [Next]_vars => WriteUrlIsKept'
<1> SUFFICES ASSUME TypeOK, WriteUrlIsKept, [Next]_vars
             PROVE  WriteUrlIsKept'
  OBVIOUS
<1> USE DEF WriteUrlIsKept
<1>0. \A o \in Objects : /\ <<o, "write">> \in Handles
                         /\ \A p \in Objects : <<o, "write">> # <<p, "read">>
  BY DEF Handles, Kinds
<1>1. ASSUME NEW o \in Objects, createWriteHandle(o) PROVE WriteUrlIsKept'
  <2>1. \A p \in Objects \ {o} : /\ phase'[p] = phase[p]
                                 /\ option'[<<p, "write">>] = option[<<p, "write">>]
    <3> SUFFICES ASSUME NEW p \in Objects \ {o}
                 PROVE  /\ phase'[p] = phase[p]
                        /\ option'[<<p, "write">>] = option[<<p, "write">>]
      OBVIOUS
    <3>1. phase'[p] = phase[p]
      BY <1>1 DEF createWriteHandle, TypeOK
    <3>2. <<p, "write">> \in Handles /\ <<p, "write">> # <<o, "write">>
      BY DEF Handles, Kinds
    <3>3. option'[<<p, "write">>] = option[<<p, "write">>]
      BY <1>1, <3>2 DEF createWriteHandle, TypeOK, Handles
    <3> QED BY <3>1, <3>3
  <2>2. phase'[o] \in {"writing", "ready"} => option'[<<o, "write">>].url = "write"
    BY <1>1, OptionsOfConstructor DEF createWriteHandle, TypeOK
  <2> QED BY <2>1, <2>2
<1>2. ASSUME NEW o \in Objects, enableTokenAuth(o) PROVE WriteUrlIsKept'
  BY <1>0, <1>2, OptionsOfToken DEF enableTokenAuth
<1>3. ASSUME NEW o \in Objects, send(o) PROVE WriteUrlIsKept'
  BY <1>0, <1>3, OptionsOfSend DEF send, Begin
<1>4. ASSUME NEW o \in Objects, NEW text, NEW op, Begin(op, o, text), setQuery(o, text)
      PROVE  WriteUrlIsKept'
  BY <1>0, <1>4, OptionsOfQuery DEF Begin
<1>5. ASSUME UNCHANGED option,
             \A o \in Objects : phase'[o] \in {"writing", "ready"} =>
                                    phase[o] \in {"writing", "ready"}
      PROVE  WriteUrlIsKept'
  BY <1>5
<1>6. ASSUME NEW o \in Objects,
             initCurlGlobal(o) \/ createReadHandle(o) \/ Destroy(o)
      PROVE  WriteUrlIsKept'
  BY <1>5, <1>6 DEF initCurlGlobal, createReadHandle, failingReadHandle, Destroy,
                    destroyed, TypeOK
<1>7. CASE perform \/ UNCHANGED vars \/ \E o \in Objects : createDatabaseV2(o) \/ queryNotEscaped(o)
  BY <1>5, <1>7 DEF perform, vars, createDatabaseV2, queryNotEscaped, notEscaped
<1> QED BY <1>1, <1>2, <1>3, <1>4, <1>6, <1>7
        DEF Next, Stop, query, createDatabase

\* A request that begins has set its handle.
LEMMA RequestBegins ==
    ASSUME TypeOK, WriteUrlIsKept, NEW o \in Objects
    PROVE  /\ send(o) => RequestIsSet'
           /\ \A text : \A op \in {"query", "createDatabase"} :
                 Begin(op, o, text) /\ setQuery(o, text) => RequestIsSet'
<1>1. ASSUME send(o) PROVE RequestIsSet'
  <2>1. /\ call' = [op |-> "send", obj |-> o, text |-> "write"]
        /\ HandleOfCall' = <<o, "write">>
        /\ phase' = phase /\ phase[o] = "ready"
    BY <1>1 DEF send, Begin, HandleOfCall
  <2>2. \A p \in Objects : phase[p] \notin {"named", "writing"}
    BY <1>1 DEF send, Begin, Idle
  <2>3. option'[<<o, "write">>].url = "write"
    BY <1>1, <2>1, OptionsOfSend DEF send, WriteUrlIsKept, Handles, Kinds
  <2> QED BY <1>1, <2>1, <2>2, <2>3, OptionsOfSend DEF send, RequestIsSet
<1>2. ASSUME NEW text, NEW op \in {"query", "createDatabase"},
             Begin(op, o, text), setQuery(o, text)
      PROVE  RequestIsSet'
  <2>1. /\ call' = [op |-> op, obj |-> o, text |-> text]
        /\ HandleOfCall' = <<o, "read">>
        /\ phase' = phase /\ phase[o] = "ready"
    BY <1>2 DEF Begin, HandleOfCall
  <2>2. \A p \in Objects : phase[p] \notin {"named", "writing"}
    BY <1>2 DEF Begin, Idle
  <2> QED BY <1>2, <2>1, <2>2, OptionsOfQuery DEF RequestIsSet
<1> QED BY <1>1, <1>2

LEMMA NextRequest ==
    TypeOK /\ WriteUrlIsKept /\ RequestIsSet /\ [Next]_vars => RequestIsSet'
<1> SUFFICES ASSUME TypeOK, WriteUrlIsKept, RequestIsSet, [Next]_vars
             PROVE  RequestIsSet'
  OBVIOUS
<1>1. ASSUME NEW o \in Objects, send(o) PROVE RequestIsSet'
  BY <1>1, RequestBegins
<1>2. ASSUME NEW o \in Objects, NEW text, NEW op \in {"query", "createDatabase"},
             Begin(op, o, text), setQuery(o, text)
      PROVE  RequestIsSet'
  BY <1>2, RequestBegins
<1>3. CASE call' = NoCall
  BY <1>3 DEF RequestIsSet
<1>4. ASSUME NEW o \in Objects, createWriteHandle(o) \/ createReadHandle(o)
      PROVE  call' = NoCall
  BY <1>4 DEF createWriteHandle, createReadHandle, RequestIsSet
<1>5. ASSUME NEW o \in Objects,
             \/ initCurlGlobal(o) \/ enableTokenAuth(o)
             \/ Destroy(o) \/ createDatabaseV2(o) \/ queryNotEscaped(o)
      PROVE  call' = NoCall
  BY <1>5 DEF initCurlGlobal, enableTokenAuth, Destroy, createDatabaseV2, Idle,
              queryNotEscaped, notEscaped
<1>6. perform => call' = NoCall
  BY DEF perform
<1>7. CASE UNCHANGED vars
  BY <1>7 DEF vars, RequestIsSet, HandleOfCall
<1> QED BY <1>1, <1>2, <1>3, <1>4, <1>5, <1>6, <1>7
        DEF Next, Stop, query, createDatabase

\* The request that ends is recorded with its fate.
LEMMA NextOutcome ==
    TypeOK /\ RequestIsSet /\ AnswerIsToOwnRequest /\ [Next]_vars
        => AnswerIsToOwnRequest'
<1> SUFFICES ASSUME TypeOK, RequestIsSet, AnswerIsToOwnRequest, [Next]_vars
             PROVE  AnswerIsToOwnRequest'
  OBVIOUS
<1>1. CASE perform
  <2>1. PICK response \in Responses :
            /\ option[HandleOfCall].url = "none" => ~response.curlOk
            /\ last' = [op |-> call.op, text |-> call.text,
                        asked |-> option[HandleOfCall].url,
                        response |-> response,
                        thrown |-> rethrown(call.op, treatCurlResponse(response))]
    BY <1>1 DEF perform
  <2>2. option[HandleOfCall].url \in {call.text, "none"}
    BY <1>1 DEF perform, RequestIsSet
  <2>3. ~response.curlOk => treatCurlResponse(response) = "ConnectionError"
    BY DEF treatCurlResponse
  <2>4. ~response.curlOk => rethrown(call.op, treatCurlResponse(response)) # "nothing"
    BY <2>3 DEF rethrown
  <2> QED BY <2>1, <2>2, <2>4 DEF AnswerIsToOwnRequest
<1>2. ASSUME NEW o \in Objects, createDatabaseV2(o)
      PROVE  AnswerIsToOwnRequest'
  BY <1>2 DEF createDatabaseV2, NotYet, AnswerIsToOwnRequest
<1>3. ASSUME NEW o \in Objects, queryNotEscaped(o)
      PROVE  AnswerIsToOwnRequest'
  BY <1>3 DEF queryNotEscaped, notEscaped, rethrown, NotYet, AnswerIsToOwnRequest
<1>4. CASE UNCHANGED last
  BY <1>4 DEF AnswerIsToOwnRequest
<1> QED BY <1>1, <1>2, <1>3, <1>4
        DEF Next, Stop, vars, initCurlGlobal, createWriteHandle, createReadHandle,
            enableTokenAuth, Destroy, send, query, createDatabase, Begin

-----------------------------------------------------------------------------
(* The theorems.                                                           *)

LEMMA InitIInv == Init => IInv
<1> SUFFICES ASSUME Init PROVE IInv
  OBVIOUS
<1>1. TypeOK /\ ResourcesAreAccountedFor
  BY InitType, InitResources
<1>2. RequestIsSet /\ WriteUrlIsKept /\ ListsAreAllocated
  BY DEF Init, RequestIsSet, WriteUrlIsKept, ListsAreAllocated, Handles, Unset
<1>3. AnswerIsToOwnRequest
  BY DEF Init, NotYet, AnswerIsToOwnRequest
<1> QED BY <1>1, <1>2, <1>3 DEF IInv

LEMMA NextIInv == IInv /\ [Next]_vars => IInv'
BY NextType, NextResources, NextRequest, NextWriteUrl, NextLists, NextOutcome DEF IInv

\* What objects hold, what a handle is set to and what became of the latest
\* request, taken together, no step of any object disturbs.
THEOREM InvariantHolds == Spec => []IInv
BY InitIInv, NextIInv, PTL DEF Spec

\* Every variable of the objects and of libcurl keeps to its type.
THEOREM TypeCorrect == Spec => []TypeOK
<1>1. IInv => TypeOK
  BY DEF IInv
<1> QED BY InvariantHolds, <1>1, PTL

\* However objects are built, destroyed and fail to be built, what libcurl
\* holds for them is what their phases say.
THEOREM ResourcesAreCounted == Spec => []ResourcesAreAccountedFor
<1>1. IInv => ResourcesAreAccountedFor
  BY DEF IInv
<1> QED BY InvariantHolds, <1>1, PTL

\* No destructor takes libcurl from under the handles of another object.
THEOREM LibcurlStays == Spec => []LibcurlOutlivesHandles
<1>1. IInv => LibcurlOutlivesHandles
  <2> SUFFICES ASSUME IInv PROVE LibcurlOutlivesHandles
    OBVIOUS
  <2> DEFINE owners == {o \in Objects : \E k \in Kinds : <<o, k>> \in handles}
  <2>1. owners \subseteq Holders
    BY DEF IInv, ResourcesAreAccountedFor, HandlesAreOpen, Holders
  <2>2. /\ Cardinality(owners) <= Cardinality(Holders)
        /\ IsFiniteSet(owners)
    BY <2>1, HoldersAreFinite, FS_Subset
  <2>3. Cardinality(owners) \in Nat /\ Cardinality(Holders) \in Nat
    BY <2>2, HoldersAreFinite, FS_CardinalityType
  <2>4. globalInits = Cardinality(Holders)
    BY DEF IInv, ResourcesAreAccountedFor, Counted
  <2>5. globalInits >= Cardinality(owners)
    BY <2>2, <2>3, <2>4
  <2> QED BY <2>5 DEF LibcurlOutlivesHandles
<1> QED BY InvariantHolds, <1>1, PTL

\* A transfer finds the data of its own call and headers that still exist.
THEOREM TransfersUseLiveMemory == Spec => []TransferUsesLiveMemory
<1>1. IInv => TransferUsesLiveMemory
  <2> SUFFICES ASSUME IInv, call # NoCall
               PROVE  /\ HandleOfCall \in handles
                      /\ option[HandleOfCall].writeData = calls
                      /\ call.op = "send" =>
                             option[HandleOfCall].postFields = calls
                      /\ option[HandleOfCall].headers => call.obj \in headerLists
    BY DEF TransferUsesLiveMemory
  <2>1. HandleOfCall \in Handles /\ HandleOfCall[1] = call.obj
    BY DEF IInv, TypeOK, HandleOfCall, Handles, Kinds
  <2>2. HandleOfCall \in handles
    BY <2>1 DEF IInv, RequestIsSet, ResourcesAreAccountedFor, HandlesAreOpen, Handles
  <2>3. option[HandleOfCall].headers => call.obj \in headerLists
    BY <2>1 DEF IInv, ListsAreAllocated
  <2> QED BY <2>2, <2>3 DEF IInv, RequestIsSet
<1> QED BY InvariantHolds, <1>1, PTL

\* A request is answered for its own URL, or it throws.
THEOREM AnswersAreToOwnRequests == Spec => []AnswerIsToOwnRequest
<1>1. IInv => AnswerIsToOwnRequest
  BY DEF IInv
<1> QED BY InvariantHolds, <1>1, PTL
=============================================================================
