\* Every URI of UrisMC with every version, port, name and credentials.
CONSTANTS
    Pieces <- PiecesMC
    Uris <- UrisMC
    Usernames <- UsernamesMC
    Passwords <- PasswordsMC
SPECIFICATION Spec
INVARIANTS
    UriReadsBack
    OnlyKnownBackends
    LoginIsAsGiven
    ServiceIsHostAndPort
