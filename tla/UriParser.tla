------------------------------ MODULE UriParser ------------------------------
(***************************************************************************)
(* ParseHttpUrl of UriParser.h: a URI cut into its parts by slices at the  *)
(* first place of a delimiter.                                             *)
(*                                                                         *)
(* A URI is a sequence of characters and names: ":", "/", "?" and "@" are  *)
(* one element each, and so is a run of other characters.                  *)
(***************************************************************************)
EXTENDS Integers, Sequences

PROTOCOL_END == <<":", "/", "/">>

\* Where delimiter d is in s.
Places(s, d) ==
    {i \in 1..(Len(s) - Len(d) + 1) : SubSeq(s, i, i + Len(d) - 1) = d}

lastPlace(s, d) == CHOOSE i \in Places(s, d) : \A j \in Places(s, d) : i >= j

\* std::string::find, for a delimiter that is there.
find(s, d) == CHOOSE i \in Places(s, d) : \A j \in Places(s, d) : i <= j

\* What a slice returns, and what it leaves of its subject.
Slice(output, subject) == [output |-> output, subject |-> subject]

\* TailSlice: the part behind the delimiter is cut off, with the delimiter or
\* without.
TailSlice(s, d, keep) ==
    IF Places(s, d) = {} THEN Slice(<<>>, s)
    ELSE LET at == find(s, d)
             start == IF keep THEN at ELSE at + Len(d)
         IN  Slice(SubSeq(s, start, Len(s)), SubSeq(s, 1, at - 1))

\* HeadSlice: the part in front of the delimiter is cut off.
HeadSlice(s, d) ==
    IF Places(s, d) = {} THEN Slice(<<>>, s)
    ELSE LET at == find(s, d)
         IN  Slice(SubSeq(s, 1, at - 1), SubSeq(s, at + Len(d), Len(s)))

\* atoi: 0 for what does not begin with a number.  Only "8086" is one here.
atoi(s) == IF s # <<>> /\ s[1] = "8086" THEN 8086 ELSE 0

\* The slices in the order of the code: each works on what the one before
\* has left.
ParseHttpUrl(uri) ==
    LET protocol == HeadSlice(uri, PROTOCOL_END)
        search   == TailSlice(protocol.subject, <<"?">>, FALSE)
        path     == TailSlice(search.subject, <<"/">>, TRUE)
        userpass == HeadSlice(path.subject, <<"@">>)
        password == TailSlice(userpass.output, <<":">>, FALSE)
        port     == TailSlice(userpass.subject, <<":">>, FALSE)
    IN  [protocol |-> protocol.output,
         user     |-> password.subject,
         password |-> password.output,
         host     |-> port.subject,
         port     |-> atoi(port.output),
         path     |-> path.output,
         search   |-> search.output]
=============================================================================
