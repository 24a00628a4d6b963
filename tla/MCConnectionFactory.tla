------------------------- MODULE MCConnectionFactory -------------------------
(***************************************************************************)
(* URIs for the factory.                                                   *)
(***************************************************************************)
EXTENDS ConnectionFactory

PiecesMC == {":", "/", "?", "@", "8086", "0", "http", "https", "udp", "unix",
             "httpX", "user", "pass", "word", "localhost", "[", "]", "1",
             "a", "b", "q", "r"}

\* Every delimiter also in a part that may hold it: ":" in a password and in
\* the host, "@" and ":" in a path, "://" and "?" in a search.
UrisMC ==
    {parts \in
        [protocol : {<<>>, <<"http">>, <<"https">>, <<"udp">>, <<"unix">>,
                     <<"httpX">>},
         user : {<<>>, <<"user">>}, password : {<<>>, <<"pass", ":", "word">>},
         host : {<<>>, <<"localhost">>, <<"[", ":", ":", "1", "]">>},
         port : Ports,
         path : {<<>>, <<"/", "a", "/", "@", ":", "b">>},
         search : {<<>>, <<"q", ":", "/", "/", "?", "r">>}] :
     parts.user = <<>> => parts.password = <<>>}

\* Names and passwords with ":" and without.
UsernamesMC == {<<>>, <<"user">>, <<"user", ":", "a">>}
PasswordsMC == {<<>>, <<"pass", ":", "word">>}
=============================================================================
