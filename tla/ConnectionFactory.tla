-------------------------- MODULE ConnectionFactory --------------------------
(***************************************************************************)
(* InfluxDBFactory: from the arguments of GetV1 and GetV2 to a client with *)
(* its transport, or an exception.                                         *)
(***************************************************************************)
EXTENDS Integers, Sequences, UriParser

CONSTANTS
    Pieces,     \* what texts are made of: delimiters, runs of other characters
    Uris,       \* URIs given as "host", by their parts
    Usernames,  \* names and passwords given; <<>> is none
    Passwords

ASSUME DelimitersArePieces == {":", "/", "?", "@", "8086", "0"} \subseteq Pieces

ASSUME LoginsAreTexts == Usernames \union Passwords \subseteq Seq(Pieces)

\* The ports an application gives, and the database, the retention policy and
\* the token; "" is none.
Ports  == {0, 8086}
Given  == {"", "given"}

\* None of these delimiters is in s.
Free(s, delimiters) == \A i \in DOMAIN s : s[i] \notin delimiters

\* Which delimiters may be in which part of a URI (RFC 3986): a part has none
\* that would end it, a path begins with "/", a host does not end with ":", and
\* there is no password without a user.  That is all: a password and the host
\* may have colons, a path "@" and ":", a search anything.
UriParts ==
    {parts \in [protocol : Seq(Pieces), user : Seq(Pieces),
                password : Seq(Pieces), host : Seq(Pieces), port : Ports,
                path : Seq(Pieces), search : Seq(Pieces)] :
        /\ Free(parts.protocol, {":"})
        /\ Free(parts.user, {":", "@", "/", "?"})
        /\ Free(parts.password, {"@", "/", "?"})
        /\ Free(parts.host, {"@", "/", "?"})
        /\ Free(parts.path, {"?"})
        /\ parts.user = <<>> => parts.password = <<>>
        /\ parts.host # <<>> => parts.host[Len(parts.host)] # ":"
        /\ parts.path # <<>> => parts.path[1] = "/"}

ASSUME UrisAreUris == \A parts \in Uris : parts \in UriParts

VARIABLES
    boost,       \* the library was built with boost
    uri,         \* parts of the URI given
    conn,        \* internal::ConnectionInfo
    transport,   \* what was made
    auth,        \* what was set on each handle of an HTTP transport
    outcome      \* how the call of the factory ended

vars == <<boost, uri, conn, transport, auth, outcome>>

Handles == {"write", "read"}

NoAuth      == [userpwd |-> <<>>, token |-> ""]
NoTransport == [kind |-> "none", address |-> <<>>, port |-> 0]
NoConn == [dbVersion |-> 0, host |-> <<>>, port |-> 0, dbName |-> "",
           rp |-> "", token |-> "", username |-> <<>>, password |-> <<>>]
NoUri == [protocol |-> <<>>, user |-> <<>>, password |-> <<>>, host |-> <<>>,
          port |-> 0, path |-> <<>>, search |-> <<>>]

\* External: the text of a URI with these parts (RFC 3986), and with any text
\* for its port.
Userinfo(parts) ==
    IF parts.user = <<>> THEN <<>>
    ELSE parts.user
         \o (IF parts.password = <<>> THEN <<>> ELSE <<":">> \o parts.password)
         \o <<"@">>

Written(parts, port) ==
    (IF parts.protocol = <<>> THEN <<>> ELSE parts.protocol \o PROTOCOL_END)
    \o Userinfo(parts) \o parts.host \o port \o parts.path
    \o (IF parts.search = <<>> THEN <<>> ELSE <<"?">> \o parts.search)

Text(parts) == Written(parts, IF parts.port = 0 THEN <<>> ELSE <<":", "8086">>)

Init ==
    /\ boost \in BOOLEAN
    /\ uri = NoUri
    /\ conn = NoConn
    /\ transport = NoTransport
    /\ auth = [h \in Handles |-> NoAuth]
    /\ outcome = "none"

-----------------------------------------------------------------------------
Connect(parts, info) ==
    /\ outcome = "none"
    /\ conn = NoConn
    /\ uri' = parts
    /\ conn' = info
    /\ UNCHANGED <<boost, transport, auth, outcome>>

\* createConnectionInfoV1 and createConnectionInfoV2.
GetV1 ==
    \E parts \in Uris, port \in Ports, dbName \in Given,
       username \in Usernames, password \in Passwords :
        Connect(parts, [NoConn EXCEPT !.dbVersion = 1, !.host = Text(parts),
                           !.port = port, !.dbName = dbName,
                           !.username = username, !.password = password])

GetV2 ==
    \E parts \in Uris, port \in Ports, dbName, token, rp \in Given :
        Connect(parts, [NoConn EXCEPT !.dbVersion = 2, !.host = Text(parts),
                           !.port = port, !.dbName = dbName,
                           !.token = token, !.rp = rp])

throw(exception) ==
    /\ outcome' = exception
    /\ UNCHANGED <<boost, uri, conn, transport, auth>>

hostAlone(info) == info.host

\* ":" and the number of the port.
numbered(port) == <<":", IF port = 8086 THEN "8086" ELSE "0">>

\* HTTP::obtainInfluxServiceUrl.
serviceUrl(info) == info.host \o numbered(info.port)

onWriteHandle(credentials) ==
    auth' = [auth EXCEPT !["write"].userpwd = credentials]

enableBasicAuth(credentials) ==
    auth' = [auth EXCEPT !["write"].userpwd = credentials,
                         !["read"].userpwd = credentials]

enableTokenAuth(token) ==
    auth' = [auth EXCEPT !["read"].token = token, !["write"].token = token]

\* The constructor of HTTP throws without a database name, when libcurl cannot
\* be had, and a logic_error when it cannot escape a name.
withHttpTransport ==
    LET hasLogin == conn.dbVersion = 1 /\ conn.username # <<>>
        hasToken == conn.dbVersion = 2 /\ conn.token # ""
    IN  \/ throw("InfluxDBException")
        \/ /\ conn.dbName # ""
           /\ throw("logic_error")
        \/ /\ conn.dbName # ""
           /\ transport' = [kind |-> "http", address |-> serviceUrl(conn),
                            port |-> conn.port]
           /\ \/ /\ hasLogin
                 /\ enableBasicAuth(conn.username \o <<":">> \o conn.password)
              \/ /\ ~hasLogin /\ hasToken
                 /\ enableTokenAuth(conn.token)
              \/ ~hasLogin /\ ~hasToken /\ UNCHANGED auth
           /\ outcome' = "returned"
           /\ UNCHANGED <<boost, uri, conn>>

\* A library built without boost has neither of the sockets.
noSocket ==
    /\ ~boost
    /\ throw("InfluxDBException")

\* The constructors let the exceptions of boost through: no such host, no
\* socket to be had, a path too long.
failedSocket ==
    /\ boost
    /\ throw("system_error")

madeSocket(kind, address, port) ==
    /\ boost
    /\ transport' = [kind |-> kind, address |-> address, port |-> port]
    /\ outcome' = "returned"
    /\ UNCHANGED <<boost, uri, conn, auth>>

withUdpTransport(hostname, port) ==
    noSocket \/ failedSocket \/ madeSocket("udp", hostname, port)

\* Not every system has these sockets.
withUnixSocketTransport(socketPath) ==
    \/ noSocket \/ failedSocket \/ madeSocket("unix", socketPath, 0)
    \/ /\ boost
       /\ throw("InfluxDBException")

anyVersion(protocol) == protocol \in {<<"udp">>, <<"unix">>}

\* The sockets are for version 1.
takesSocket(protocol) ==
    conn.dbVersion = 1 /\ protocol \in {<<"udp">>, <<"unix">>}

GetTransport ==
    /\ conn # NoConn
    /\ outcome = "none"
    /\ LET parsed == ParseHttpUrl(conn.host)
       IN  \/ /\ parsed.protocol \in {<<"http">>, <<"https">>}
              /\ withHttpTransport
           \/ /\ takesSocket(parsed.protocol)
              /\ parsed.protocol = <<"udp">>
              /\ withUdpTransport(parsed.path, conn.port)
           \/ /\ takesSocket(parsed.protocol)
              /\ parsed.protocol = <<"unix">>
              /\ withUnixSocketTransport(parsed.path)
           \/ /\ parsed.protocol \notin {<<"http">>, <<"https">>}
              /\ ~takesSocket(parsed.protocol)
              /\ throw("InfluxDBException")

\* The call is over.
Ended == outcome # "none" /\ UNCHANGED vars

Next == GetV1 \/ GetV2 \/ GetTransport \/ Ended

Spec == Init /\ [][Next]_vars

-----------------------------------------------------------------------------
Plain(host) == Free(host, {":"})

\* A URI with a protocol is read back into the parts it was written from, also
\* where a delimiter of one part occurs in another: all of them, exactly when
\* its host has no colons.  Another host, an IPv6 address, is cut at the first
\* one; the parts the factory goes by, protocol and path, are right even then.
UriReadsBack ==
    uri.protocol # <<>> =>
        LET parsed == ParseHttpUrl(Text(uri))
        IN  /\ \A part \in {"protocol", "user", "password", "path", "search"} :
                  parsed[part] = uri[part]
            /\ parsed = uri <=> Plain(uri.host)

\* The factory makes a transport for http and https, and for udp and unix
\* with version 1 and boost; for everything else, a URI without protocol
\* included, it throws InfluxDBException, whatever the other arguments.
OnlyKnownBackends ==
    LET isHttp   == uri.protocol \in {<<"http">>, <<"https">>}
        isSocket == uri.protocol \in {<<"udp">>, <<"unix">>}
                    /\ conn.dbVersion = 1 /\ boost
    IN  /\ outcome = "returned" =>
              (isHttp /\ conn.dbName # "") \/ isSocket
        /\ outcome = "logic_error" => isHttp /\ conn.dbName # ""
        /\ outcome = "system_error" => isSocket

\* External: libcurl cuts the user name off at the first ":".
loginOf(userpwd) ==
    LET cut == TailSlice(userpwd, <<":">>, FALSE)
    IN  [user |-> cut.subject, password |-> cut.output]

\* The server is told, by the reads as by the writes, the user name and the
\* password that the application gave, a password with colons included: exactly
\* when the user name has none.  With version 2 it is told the token.
LoginIsAsGiven ==
    transport.kind = "http" =>
        \A h \in Handles :
            /\ conn.dbVersion = 1 /\ conn.username # <<>> =>
                  (loginOf(auth[h].userpwd) = [user |-> conn.username,
                                               password |-> conn.password]
                      <=> Plain(conn.username))
            /\ conn.dbVersion = 2 => auth[h].token = conn.token

\* The port is appended to the text of the URI.  What comes of it is the URI
\* with that port exactly when the text ends with the host: behind a port, a
\* path or a search it is no port.
ServiceIsHostAndPort ==
    transport.kind = "http" =>
        (transport.address = Written(uri, numbered(conn.port))
            <=> uri.port = 0 /\ uri.path = <<>> /\ uri.search = <<>>)

\* "\param host InfluxDB 1.x server address" (InfluxDBFactory.h:51): a UDP
\* transport sends to the host of the URI.
UdpGoesToHost ==
    transport.kind = "udp" => transport.address = uri.host
=============================================================================
