\* The host of a UDP transport.
CONSTANTS
    Pieces <- PiecesMC
    Uris <- UrisMC
    Usernames <- UsernamesMC
    Passwords <- PasswordsMC
SPECIFICATION Spec
INVARIANT UdpGoesToHost
