------------------------- MODULE JsonExchangeProofs -------------------------
(***************************************************************************)
(* Theorems about JsonExchange: what jsonToString and toJSON write is read *)
(* back as what was written, for every answer, every text and any number   *)
(* of parameters.                                                          *)
(*                                                                         *)
(* The greatest guide over some values has every text that is made as JSON *)
(* is. The writer is shown to put out such texts, by induction over how    *)
(* deep containers are in one another and over the elements of each;       *)
(* module JsonReaderProofs then says what a reader makes of them. What the *)
(* reader makes of an answer is a value that Accept is defined for.        *)
(***************************************************************************)
EXTENDS JsonExchange, JsonReaderProofs

-----------------------------------------------------------------------------
(* The greatest guide.                                                     *)

\* A guide has at most the texts of another one.
Within(g, h) ==
    /\ g.letters = h.letters /\ g.domain = h.domain
    /\ g.strings \subseteq h.strings /\ g.names \subseteq h.names
    /\ g.values \subseteq h.values /\ g.elements \subseteq h.elements
    /\ g.members \subseteq h.members

LEMMA StringsGrow ==
    ASSUME NEW g, NEW h, Within(g, h), NEW x, IsString(x, g)
    PROVE  IsString(x, h)
<1>1. g.strings \subseteq h.strings /\ g.letters = h.letters
  BY DEF Within
<1>2. CASE x = Means(<<"quote">>, <<>>)
  BY <1>2 DEF IsString
<1>3. CASE ~(x = Means(<<"quote">>, <<>>))
  <2>1. PICK r \in g.strings :
          \/ \E c \in g.letters \ {"quote", "backslash", "newline"} :
                x = Means(Cons(c, r.text), Cons(c, r.value))
          \/ \E c \in {"quote", "backslash"} :
                x = Means(Cons("backslash", Cons(c, r.text)), Cons(c, r.value))
          \/ x = Means(Cons("backslash", Cons("n", r.text)),
                       Cons("newline", r.value))
          \/ x = Means(Cons("backslash", Cons("u0000", r.text)),
                       Cons("nul", r.value))
          \/ x = Means(Cons("backslash", Cons("uD83D",
                           Cons("backslash", Cons("uDE00", r.text)))),
                       Cons("wide", r.value))
    BY <1>3, Zenon DEF IsString
  <2>2. r \in h.strings
    BY <1>1
  <2> QED BY <1>1, <2>1, <2>2, Zenon DEF IsString
<1> QED BY <1>2, <1>3

LEMMA NamesGrow ==
    ASSUME NEW g, NEW h, Within(g, h), NEW x, IsName(x, g)
    PROVE  IsName(x, h)
<1>1. \A r \in g.strings : r \in h.strings
  BY DEF Within
<1> QED BY <1>1, Zenon DEF IsName

LEMMA ValuesGrow ==
    ASSUME NEW g, NEW h, Within(g, h), NEW x, IsValue(x, g)
    PROVE  IsValue(x, h)
<1>1. /\ \A k \in g.names : k \in h.names
      /\ \A v \in g.values : v \in h.values
      /\ \A r \in g.elements : r \in h.elements
      /\ \A r \in g.members : r \in h.members
  BY DEF Within
<1>2. CASE IsContainer(x, g)
  <2>1. IsContainer(x, h)
    BY <1>1, <1>2, Zenon DEF IsContainer
  <2> QED BY <2>1, Zenon DEF IsValue
<1>3. CASE \E k \in g.names : x = Means(k.text, <<"string", k.value>>)
  BY <1>1, <1>3, Zenon DEF IsValue
<1>4. CASE ~IsContainer(x, g) /\ ~(\E k \in g.names : x = Means(k.text, <<"string", k.value>>))
  BY <1>4, Zenon DEF IsValue
<1> QED BY <1>2, <1>3, <1>4

LEMMA ElementsGrow ==
    ASSUME NEW g, NEW h, Within(g, h), NEW x, IsElements(x, g)
    PROVE  IsElements(x, h)
<1>1. /\ \A v \in g.values : v \in h.values
      /\ \A r \in g.elements : r \in h.elements
  BY DEF Within
<1> QED BY <1>1, Zenon DEF IsElements

LEMMA MembersGrow ==
    ASSUME NEW g, NEW h, Within(g, h), NEW x, IsMembers(x, g)
    PROVE  IsMembers(x, h)
<1>1. /\ \A k \in g.names : k \in h.names
      /\ \A v \in g.values : v \in h.values
      /\ \A r \in g.members : r \in h.members
  BY DEF Within
<1> QED BY <1>1, Zenon DEF IsMembers

\* What a guide over letters L can have for values of D.
Pairs(L, X) == [text : Seq(L), value : X]

Record(L, D, S, N, V, E, M) ==
    [letters |-> L, domain |-> D, strings |-> S, names |-> N, values |-> V,
     elements |-> E, members |-> M]

Guides(L, D) ==
    {g \in [letters : {L}, domain : {D},
            strings : SUBSET Pairs(L, Seq(L)), names : SUBSET Pairs(L, Seq(L)),
            values : SUBSET Pairs(L, D), elements : SUBSET Pairs(L, Seq(D)),
            members : SUBSET Pairs(L, Seq(Seq(L) \X D))] : IsGuide(g)}

\* All of them together.
Guide(L, D) ==
    Record(L, D, UNION {g.strings : g \in Guides(L, D)},
                 UNION {g.names : g \in Guides(L, D)},
                 UNION {g.values : g \in Guides(L, D)},
                 UNION {g.elements : g \in Guides(L, D)},
                 UNION {g.members : g \in Guides(L, D)})

AreLetters(L) == "end" \notin L /\ Marks \union NumberLetters \subseteq L

LEMMA GuideFields ==
    ASSUME NEW L, NEW D
    PROVE  /\ Guide(L, D).letters = L /\ Guide(L, D).domain = D
           /\ Guide(L, D).strings = UNION {g.strings : g \in Guides(L, D)}
           /\ Guide(L, D).names = UNION {g.names : g \in Guides(L, D)}
           /\ Guide(L, D).values = UNION {g.values : g \in Guides(L, D)}
           /\ Guide(L, D).elements = UNION {g.elements : g \in Guides(L, D)}
           /\ Guide(L, D).members = UNION {g.members : g \in Guides(L, D)}
  BY DEF Guide, Record

LEMMA GuideHas ==
    ASSUME NEW L, NEW D, NEW g \in Guides(L, D)
    PROVE  Within(g, Guide(L, D))
<1>1. g.letters = L /\ g.domain = D
  BY DEF Guides
<1> QED BY <1>1, GuideFields DEF Within

LEMMA GuideTyped ==
    ASSUME NEW L, NEW D, AreLetters(L)
    PROVE  Typed(Guide(L, D))
<1> DEFINE G == Guide(L, D)
<1>1. \A g \in Guides(L, D) :
         /\ g.strings \subseteq [text : Seq(L), value : Seq(L)]
         /\ g.names \subseteq [text : Seq(L), value : Seq(L)]
         /\ g.values \subseteq [text : Seq(L), value : D]
         /\ g.elements \subseteq [text : Seq(L), value : Seq(D)]
         /\ g.members \subseteq [text : Seq(L), value : Seq(Seq(L) \X D)]
  BY DEF Guides, Pairs
<1>2. G.letters = L /\ G.domain = D
  BY GuideFields
<1>3. G.strings \subseteq [text : Seq(L), value : Seq(L)]
  BY <1>1, GuideFields
<1>4. G.names \subseteq [text : Seq(L), value : Seq(L)]
  BY <1>1, GuideFields
<1>5. G.values \subseteq [text : Seq(L), value : D]
  BY <1>1, GuideFields
<1>6. G.elements \subseteq [text : Seq(L), value : Seq(D)]
  BY <1>1, GuideFields
<1>7. G.members \subseteq [text : Seq(L), value : Seq(Seq(L) \X D)]
  BY <1>1, GuideFields
<1> HIDE DEF G
<1> QED BY <1>2, <1>3, <1>4, <1>5, <1>6, <1>7 DEF Typed, AreLetters, G

\* It is a guide.
LEMMA GuideIsGuide ==
    ASSUME NEW L, NEW D, AreLetters(L)
    PROVE  IsGuide(Guide(L, D))
<1> DEFINE G == Guide(L, D)
<1>1. Typed(G)
  BY GuideTyped
<1>2. \A g \in Guides(L, D) : IsGuide(g) /\ Within(g, G)
  BY GuideHas DEF Guides
<1>3. ASSUME NEW x \in G.strings
      PROVE  IsString(x, G)
  <2>1. PICK g \in Guides(L, D) : x \in g.strings
    BY GuideFields
  <2> QED BY <1>2, <2>1, StringsGrow DEF IsGuide
<1>4. ASSUME NEW x \in G.names
      PROVE  IsName(x, G)
  <2>1. PICK g \in Guides(L, D) : x \in g.names
    BY GuideFields
  <2> QED BY <1>2, <2>1, NamesGrow DEF IsGuide
<1>5. ASSUME NEW x \in G.values
      PROVE  IsValue(x, G)
  <2>1. PICK g \in Guides(L, D) : x \in g.values
    BY GuideFields
  <2> QED BY <1>2, <2>1, ValuesGrow DEF IsGuide
<1>6. ASSUME NEW x \in G.elements
      PROVE  IsElements(x, G)
  <2>1. PICK g \in Guides(L, D) : x \in g.elements
    BY GuideFields
  <2> QED BY <1>2, <2>1, ElementsGrow DEF IsGuide
<1>7. ASSUME NEW x \in G.members
      PROVE  IsMembers(x, G)
  <2>1. PICK g \in Guides(L, D) : x \in g.members
    BY GuideFields
  <2> QED BY <1>2, <2>1, MembersGrow DEF IsGuide
<1> QED BY <1>1, <1>3, <1>4, <1>5, <1>6, <1>7 DEF IsGuide

\* Texts made of the greatest guide's are its own.
Fits(G, L, D, S, N, V, E, M) ==
    /\ S \in SUBSET Pairs(L, Seq(L)) /\ \A x \in S : IsString(x, G)
    /\ N \in SUBSET Pairs(L, Seq(L)) /\ \A x \in N : IsName(x, G)
    /\ V \in SUBSET Pairs(L, D) /\ \A x \in V : IsValue(x, G)
    /\ E \in SUBSET Pairs(L, Seq(D)) /\ \A x \in E : IsElements(x, G)
    /\ M \in SUBSET Pairs(L, Seq(Seq(L) \X D)) /\ \A x \in M : IsMembers(x, G)

Has(G, S, N, V, E, M) ==
    /\ S \subseteq G.strings /\ N \subseteq G.names /\ V \subseteq G.values
    /\ E \subseteq G.elements /\ M \subseteq G.members

LEMMA GuideCloses ==
    ASSUME NEW L, NEW D, AreLetters(L), NEW G, G = Guide(L, D),
           NEW S, NEW N, NEW V, NEW E, NEW M, Fits(G, L, D, S, N, V, E, M)
    PROVE  Has(G, S, N, V, E, M)
<1>0. /\ S \in SUBSET Pairs(L, Seq(L)) /\ \A x \in S : IsString(x, G)
      /\ N \in SUBSET Pairs(L, Seq(L)) /\ \A x \in N : IsName(x, G)
      /\ V \in SUBSET Pairs(L, D) /\ \A x \in V : IsValue(x, G)
      /\ E \in SUBSET Pairs(L, Seq(D)) /\ \A x \in E : IsElements(x, G)
      /\ M \in SUBSET Pairs(L, Seq(Seq(L) \X D)) /\ \A x \in M : IsMembers(x, G)
  BY DEF Fits
<1> DEFINE h == Record(L, D, G.strings \union S, G.names \union N, G.values \union V,
                       G.elements \union E, G.members \union M)
<1>1. IsGuide(G) /\ G.letters = L /\ G.domain = D
  BY GuideIsGuide, GuideFields
<1>2. /\ h.letters = L /\ h.domain = D /\ h.strings = G.strings \union S
      /\ h.names = G.names \union N /\ h.values = G.values \union V
      /\ h.elements = G.elements \union E /\ h.members = G.members \union M
  BY DEF Record
<1>3. h \in [letters : {L}, domain : {D},
            strings : SUBSET Pairs(L, Seq(L)), names : SUBSET Pairs(L, Seq(L)),
            values : SUBSET Pairs(L, D), elements : SUBSET Pairs(L, Seq(D)),
            members : SUBSET Pairs(L, Seq(Seq(L) \X D))]
  <2>1. /\ G.strings \subseteq Pairs(L, Seq(L)) /\ G.names \subseteq Pairs(L, Seq(L))
        /\ G.values \subseteq Pairs(L, D) /\ G.elements \subseteq Pairs(L, Seq(D))
        /\ G.members \subseteq Pairs(L, Seq(Seq(L) \X D))
    BY <1>1 DEF IsGuide, Typed, Pairs
  <2>2. /\ G.strings \union S \in SUBSET Pairs(L, Seq(L))
        /\ G.names \union N \in SUBSET Pairs(L, Seq(L))
        /\ G.values \union V \in SUBSET Pairs(L, D)
        /\ G.elements \union E \in SUBSET Pairs(L, Seq(D))
        /\ G.members \union M \in SUBSET Pairs(L, Seq(Seq(L) \X D))
    BY <1>0, <2>1
  <2> QED BY <2>2 DEF Record
<1> HIDE DEF h
<1>4. Within(G, h)
  BY <1>1, <1>2 DEF Within
<1>5. Typed(h)
  BY <1>2, <1>3 DEF Typed, Pairs, AreLetters
<1>6. /\ \A x \in h.strings : IsString(x, G)
      /\ \A x \in h.names : IsName(x, G)
      /\ \A x \in h.values : IsValue(x, G)
      /\ \A x \in h.elements : IsElements(x, G)
      /\ \A x \in h.members : IsMembers(x, G)
  BY <1>0, <1>1, <1>2 DEF IsGuide
<1>7. IsGuide(h)
  BY <1>4, <1>5, <1>6, StringsGrow, NamesGrow, ValuesGrow, ElementsGrow, MembersGrow DEF IsGuide
<1>8. h \in Guides(L, D)
  BY <1>3, <1>7 DEF Guides
<1>9. Within(h, G)
  BY <1>8, GuideHas
<1> QED BY <1>2, <1>9 DEF Within, Has

-----------------------------------------------------------------------------
(* The values, elements and members that the greatest guide has.           *)

\* The greatest guide over its letters and its values.
IsGreatest(G, L, D) == AreLetters(L) /\ G = Guide(L, D)

LEMMA GreatestIs ==
    ASSUME NEW L, NEW D, NEW G, IsGreatest(G, L, D)
    PROVE  IsGuide(G) /\ G.letters = L /\ G.domain = D /\ AreLetters(L)
  BY GuideIsGuide, GuideFields DEF IsGreatest

LEMMA GreatestTyped ==
    ASSUME NEW L, NEW D, NEW G, IsGreatest(G, L, D)
    PROVE  /\ \A x \in G.strings : x.text \in Seq(L) /\ x.value \in Seq(L)
           /\ \A x \in G.names : x.text \in Seq(L) /\ x.value \in Seq(L)
           /\ \A x \in G.values : x.text \in Seq(L) /\ x.value \in D
           /\ \A x \in G.elements : x.text \in Seq(L) /\ x.value \in Seq(D)
           /\ \A x \in G.members : x.text \in Seq(L) /\ x.value \in Seq(Seq(L) \X D)
<1>1. /\ G.strings \subseteq [text : Seq(L), value : Seq(L)]
      /\ G.names \subseteq [text : Seq(L), value : Seq(L)]
      /\ G.values \subseteq [text : Seq(L), value : D]
      /\ G.elements \subseteq [text : Seq(L), value : Seq(D)]
      /\ G.members \subseteq [text : Seq(L), value : Seq(Seq(L) \X D)]
  BY GreatestIs DEF IsGuide, Typed
<1>2. ASSUME NEW X, NEW Y, NEW Z, Z \subseteq [text : X, value : Y]
      PROVE  \A x \in Z : x.text \in X /\ x.value \in Y
  BY <1>2
<1> QED BY <1>1, <1>2

LEMMA GreatestStrings ==
    ASSUME NEW L, NEW D, NEW G, IsGreatest(G, L, D),
           NEW t \in Seq(L), NEW v \in Seq(L), IsString(Means(t, v), G)
    PROVE  Means(t, v) \in G.strings
<1>1. {Means(t, v)} \in SUBSET Pairs(L, Seq(L))
  BY DEF Pairs, Means
<1>2. Fits(G, L, D, {Means(t, v)}, {}, {}, {}, {})
  BY <1>1 DEF Fits
<1>3. Has(G, {Means(t, v)}, {}, {}, {}, {})
  BY <1>2, GuideCloses DEF IsGreatest
<1> QED BY <1>3 DEF Has

LEMMA GreatestNames ==
    ASSUME NEW L, NEW D, NEW G, IsGreatest(G, L, D),
           NEW t \in Seq(L), NEW v \in Seq(L), IsName(Means(t, v), G)
    PROVE  Means(t, v) \in G.names
<1>1. {Means(t, v)} \in SUBSET Pairs(L, Seq(L))
  BY DEF Pairs, Means
<1>2. Fits(G, L, D, {}, {Means(t, v)}, {}, {}, {})
  BY <1>1 DEF Fits
<1>3. Has(G, {}, {Means(t, v)}, {}, {}, {})
  BY <1>2, GuideCloses DEF IsGreatest
<1> QED BY <1>3 DEF Has

LEMMA GreatestValues ==
    ASSUME NEW L, NEW D, NEW G, IsGreatest(G, L, D),
           NEW t \in Seq(L), NEW v \in D, IsValue(Means(t, v), G)
    PROVE  Means(t, v) \in G.values
<1>1. {Means(t, v)} \in SUBSET Pairs(L, D)
  BY DEF Pairs, Means
<1>2. Fits(G, L, D, {}, {}, {Means(t, v)}, {}, {})
  BY <1>1 DEF Fits
<1>3. Has(G, {}, {}, {Means(t, v)}, {}, {})
  BY <1>2, GuideCloses DEF IsGreatest
<1> QED BY <1>3 DEF Has

LEMMA GreatestElements ==
    ASSUME NEW L, NEW D, NEW G, IsGreatest(G, L, D),
           NEW t \in Seq(L), NEW v \in Seq(D), IsElements(Means(t, v), G)
    PROVE  Means(t, v) \in G.elements
<1>1. {Means(t, v)} \in SUBSET Pairs(L, Seq(D))
  BY DEF Pairs, Means
<1>2. Fits(G, L, D, {}, {}, {}, {Means(t, v)}, {})
  BY <1>1 DEF Fits
<1>3. Has(G, {}, {}, {}, {Means(t, v)}, {})
  BY <1>2, GuideCloses DEF IsGreatest
<1> QED BY <1>3 DEF Has

LEMMA GreatestMembers ==
    ASSUME NEW L, NEW D, NEW G, IsGreatest(G, L, D),
           NEW t \in Seq(L), NEW v \in Seq(Seq(L) \X D), IsMembers(Means(t, v), G)
    PROVE  Means(t, v) \in G.members
<1>1. {Means(t, v)} \in SUBSET Pairs(L, Seq(Seq(L) \X D))
  BY DEF Pairs, Means
<1>2. Fits(G, L, D, {}, {}, {}, {}, {Means(t, v)})
  BY <1>1 DEF Fits
<1>3. Has(G, {}, {}, {}, {}, {Means(t, v)})
  BY <1>2, GuideCloses DEF IsGreatest
<1> QED BY <1>3 DEF Has

LEMMA MarksAreLetters ==
    ASSUME NEW L, AreLetters(L)
    PROVE  /\ "quote" \in L /\ "backslash" \in L /\ "n" \in L /\ "u0000" \in L
           /\ "newline" \in L /\ "nul" \in L /\ "null" \in L /\ "true" \in L /\ "false" \in L
           /\ "[" \in L /\ "]" \in L /\ "," \in L /\ ":" \in L /\ Left \in L /\ Right \in L
           /\ NumberLetters \subseteq L
  BY DEF AreLetters, Marks

-----------------------------------------------------------------------------
(* What texts can be made of.                                              *)

LEMMA StringEnd ==
    ASSUME NEW L, NEW D, NEW G, IsGreatest(G, L, D)
    PROVE  Means(<<"quote">>, <<>>) \in G.strings
<1>9. "quote" \in L
  BY MarksAreLetters DEF IsGreatest
<1>1. <<"quote">> \in Seq(L) /\ <<>> \in Seq(L)
  BY <1>9
<1>2. IsString(Means(<<"quote">>, <<>>), G)
  BY DEF IsString
<1> QED BY <1>1, <1>2, GreatestStrings

LEMMA StringCharacter ==
    ASSUME NEW L, NEW D, NEW G, IsGreatest(G, L, D), NEW r \in G.strings,
           NEW c \in L \ {"quote", "backslash", "newline"}
    PROVE  Means(Cons(c, r.text), Cons(c, r.value)) \in G.strings
<1>1. r.text \in Seq(L) /\ r.value \in Seq(L) /\ G.letters = L
  BY GreatestTyped, GreatestIs
<1>2. Cons(c, r.text) \in Seq(L) /\ Cons(c, r.value) \in Seq(L)
  BY <1>1, ConsType
<1>3. IsString(Means(Cons(c, r.text), Cons(c, r.value)), G)
  BY <1>1, Zenon DEF IsString
<1> QED BY <1>2, <1>3, GreatestStrings

LEMMA StringEscaped ==
    ASSUME NEW L, NEW D, NEW G, IsGreatest(G, L, D), NEW r \in G.strings,
           NEW c, NEW d,
           \/ c \in {"quote", "backslash"} /\ d = c
           \/ c = "n" /\ d = "newline"
           \/ c = "u0000" /\ d = "nul"
    PROVE  Means(Cons("backslash", Cons(c, r.text)), Cons(d, r.value)) \in G.strings
<1>1. r.text \in Seq(L) /\ r.value \in Seq(L)
  BY GreatestTyped
<1>2. c \in L /\ d \in L /\ "backslash" \in L
  BY MarksAreLetters DEF IsGreatest
<1>3. Cons(c, r.text) \in Seq(L) /\ Cons(d, r.value) \in Seq(L)
  BY <1>1, <1>2, ConsType
<1>4. Cons("backslash", Cons(c, r.text)) \in Seq(L)
  BY <1>2, <1>3, ConsType
<1>5. IsString(Means(Cons("backslash", Cons(c, r.text)), Cons(d, r.value)), G)
  <2>1. CASE c \in {"quote", "backslash"} /\ d = c
    BY <2>1, Zenon DEF IsString
  <2>2. CASE c = "n" /\ d = "newline"
    BY <2>2, Zenon DEF IsString
  <2>3. CASE c = "u0000" /\ d = "nul"
    BY <2>3, Zenon DEF IsString
  <2> QED BY <2>1, <2>2, <2>3
<1> QED BY <1>3, <1>4, <1>5, GreatestStrings

LEMMA NameQuoted ==
    ASSUME NEW L, NEW D, NEW G, IsGreatest(G, L, D), NEW r \in G.strings
    PROVE  Means(Cons("quote", r.text), r.value) \in G.names
<1>1. r.text \in Seq(L) /\ r.value \in Seq(L) /\ "quote" \in L
  BY GreatestTyped, MarksAreLetters DEF IsGreatest
<1>2. Cons("quote", r.text) \in Seq(L)
  BY <1>1, ConsType
<1>3. IsName(Means(Cons("quote", r.text), r.value), G)
  BY Zenon DEF IsName
<1> QED BY <1>1, <1>2, <1>3, GreatestNames

LEMMA ValueName ==
    ASSUME NEW L, NEW D, NEW G, IsGreatest(G, L, D), NEW k \in G.names,
           <<"string", k.value>> \in D
    PROVE  Means(k.text, <<"string", k.value>>) \in G.values
<1>1. k.text \in Seq(L)
  BY GreatestTyped
<1>2. IsValue(Means(k.text, <<"string", k.value>>), G)
  BY Zenon DEF IsValue
<1> QED BY <1>1, <1>2, GreatestValues

LEMMA ValueLiteral ==
    ASSUME NEW L, NEW D, NEW G, IsGreatest(G, L, D), NEW l \in Literals,
           <<l, <<>>>> \in D
    PROVE  Means(<<l>>, <<l, <<>>>>) \in G.values
<1>9. l \in L
  BY MarksAreLetters DEF IsGreatest, Literals
<1>1. <<l>> \in Seq(L)
  BY <1>9
<1>2. IsValue(Means(<<l>>, <<l, <<>>>>), G)
  BY Zenon DEF IsValue
<1> QED BY <1>1, <1>2, GreatestValues

LEMMA ValueNumber ==
    ASSUME NEW L, NEW D, NEW G, IsGreatest(G, L, D), NEW t \in Seq(L), IsNumber(t),
           <<"number", t>> \in D
    PROVE  Means(t, <<"number", t>>) \in G.values
<1>1. IsValue(Means(t, <<"number", t>>), G)
  <2> DEFINE x == Means(t, <<"number", t>>)
  <2>1. x.text = t /\ x.value = <<"number", t>>
    BY DEF Means
  <2> HIDE DEF x
  <2>2. IsValue(x, G)
    BY <2>1, Zenon DEF IsValue
  <2> QED BY <2>2 DEF x
<1> QED BY <1>1, GreatestValues

LEMMA ValueNothing ==
    ASSUME NEW L, NEW D, NEW G, IsGreatest(G, L, D), Nothing \in D
    PROVE  Means(<<>>, Nothing) \in G.values
<1>1. IsValue(Means(<<>>, Nothing), G)
  BY Zenon DEF IsValue
<1>2. <<>> \in Seq(L)
  OBVIOUS
<1> QED BY <1>1, <1>2, GreatestValues

LEMMA ValueNoElements ==
    ASSUME NEW L, NEW D, NEW G, IsGreatest(G, L, D), <<"array", <<>>>> \in D
    PROVE  Means(<<"[", "]">>, <<"array", <<>>>>) \in G.values
<1>1. IsValue(Means(<<"[", "]">>, <<"array", <<>>>>), G)
  BY Zenon DEF IsValue, IsContainer
<1>9. "[" \in L /\ "]" \in L
  BY MarksAreLetters DEF IsGreatest
<1>2. <<"[", "]">> \in Seq(L)
  BY <1>9
<1> QED BY <1>1, <1>2, GreatestValues

LEMMA ValueNoMembers ==
    ASSUME NEW L, NEW D, NEW G, IsGreatest(G, L, D), <<"object", <<>>>> \in D
    PROVE  Means(<<Left, Right>>, <<"object", <<>>>>) \in G.values
<1>1. IsValue(Means(<<Left, Right>>, <<"object", <<>>>>), G)
  BY Zenon DEF IsValue, IsContainer
<1>9. Left \in L /\ Right \in L
  BY MarksAreLetters DEF IsGreatest
<1>2. <<Left, Right>> \in Seq(L)
  BY <1>9
<1> QED BY <1>1, <1>2, GreatestValues

LEMMA ValueElements ==
    ASSUME NEW L, NEW D, NEW G, IsGreatest(G, L, D), NEW v \in G.values, NEW r \in G.elements,
           v.value # Nothing, <<"array", Cons(v.value, r.value)>> \in D
    PROVE  Means(Cons("[", v.text \o r.text), <<"array", Cons(v.value, r.value)>>) \in G.values
<1>1. v.text \in Seq(L) /\ r.text \in Seq(L) /\ "[" \in L
  BY GreatestTyped, MarksAreLetters DEF IsGreatest
<1>2. v.text \o r.text \in Seq(L)
  BY <1>1, ConcatAhead
<1>3. Cons("[", v.text \o r.text) \in Seq(L)
  BY <1>1, <1>2, ConsType
<1>4. IsValue(Means(Cons("[", v.text \o r.text), <<"array", Cons(v.value, r.value)>>), G)
  BY Zenon DEF IsValue, IsContainer
<1> QED BY <1>3, <1>4, GreatestValues

LEMMA ValueMembers ==
    ASSUME NEW L, NEW D, NEW G, IsGreatest(G, L, D), NEW k \in G.names, NEW v \in G.values,
           NEW r \in G.members, <<"object", Cons(<<k.value, v.value>>, r.value)>> \in D
    PROVE  Means(Cons(Left, k.text \o Cons(":", v.text \o r.text)),
                 <<"object", Cons(<<k.value, v.value>>, r.value)>>) \in G.values
<1>1. k.text \in Seq(L) /\ v.text \in Seq(L) /\ r.text \in Seq(L) /\ Left \in L /\ ":" \in L
  BY GreatestTyped, MarksAreLetters DEF IsGreatest
<1>2. v.text \o r.text \in Seq(L)
  BY <1>1, ConcatAhead
<1>3. Cons(":", v.text \o r.text) \in Seq(L)
  BY <1>1, <1>2, ConsType
<1>4. k.text \o Cons(":", v.text \o r.text) \in Seq(L)
  BY <1>1, <1>3, ConcatAhead
<1>5. Cons(Left, k.text \o Cons(":", v.text \o r.text)) \in Seq(L)
  BY <1>1, <1>4, ConsType
<1>6. IsValue(Means(Cons(Left, k.text \o Cons(":", v.text \o r.text)),
                 <<"object", Cons(<<k.value, v.value>>, r.value)>>), G)
  BY Zenon DEF IsValue, IsContainer
<1> QED BY <1>5, <1>6, GreatestValues

LEMMA ElementsEnd ==
    ASSUME NEW L, NEW D, NEW G, IsGreatest(G, L, D)
    PROVE  Means(<<"]">>, <<>>) \in G.elements
<1>9. "]" \in L
  BY MarksAreLetters DEF IsGreatest
<1>1. <<"]">> \in Seq(L)
  BY <1>9
<1>2. IsElements(Means(<<"]">>, <<>>), G)
  BY Zenon DEF IsElements
<1>3. <<>> \in Seq(D)
  OBVIOUS
<1> QED BY <1>1, <1>2, <1>3, GreatestElements

LEMMA ElementsNext ==
    ASSUME NEW L, NEW D, NEW G, IsGreatest(G, L, D), NEW v \in G.values, NEW r \in G.elements,
           v.value # Nothing
    PROVE  Means(Cons(",", v.text \o r.text), Cons(v.value, r.value)) \in G.elements
<1>1. /\ v.text \in Seq(L) /\ r.text \in Seq(L) /\ "," \in L
      /\ v.value \in D /\ r.value \in Seq(D)
  BY GreatestTyped, MarksAreLetters DEF IsGreatest
<1>2. v.text \o r.text \in Seq(L)
  BY <1>1, ConcatAhead
<1>3. Cons(",", v.text \o r.text) \in Seq(L) /\ Cons(v.value, r.value) \in Seq(D)
  BY <1>1, <1>2, ConsType
<1>4. IsElements(Means(Cons(",", v.text \o r.text), Cons(v.value, r.value)), G)
  BY Zenon DEF IsElements
<1> QED BY <1>3, <1>4, GreatestElements

LEMMA MembersEnd ==
    ASSUME NEW L, NEW D, NEW G, IsGreatest(G, L, D)
    PROVE  Means(<<Right>>, <<>>) \in G.members
<1>9. Right \in L
  BY MarksAreLetters DEF IsGreatest
<1>1. <<Right>> \in Seq(L)
  BY <1>9
<1>2. IsMembers(Means(<<Right>>, <<>>), G)
  BY Zenon DEF IsMembers
<1>3. <<>> \in Seq(Seq(L) \X D)
  OBVIOUS
<1> QED BY <1>1, <1>2, <1>3, GreatestMembers

LEMMA MembersNext ==
    ASSUME NEW L, NEW D, NEW G, IsGreatest(G, L, D), NEW k \in G.names, NEW v \in G.values,
           NEW r \in G.members
    PROVE  Means(Cons(",", k.text \o Cons(":", v.text \o r.text)),
                 Cons(<<k.value, v.value>>, r.value)) \in G.members
<1>1. /\ k.text \in Seq(L) /\ v.text \in Seq(L) /\ r.text \in Seq(L) /\ "," \in L /\ ":" \in L
      /\ k.value \in Seq(L) /\ v.value \in D /\ r.value \in Seq(Seq(L) \X D)
  BY GreatestTyped, MarksAreLetters DEF IsGreatest
<1>2. v.text \o r.text \in Seq(L)
  BY <1>1, ConcatAhead
<1>3. Cons(":", v.text \o r.text) \in Seq(L)
  BY <1>1, <1>2, ConsType
<1>4. k.text \o Cons(":", v.text \o r.text) \in Seq(L)
  BY <1>1, <1>3, ConcatAhead
<1>5. Cons(",", k.text \o Cons(":", v.text \o r.text)) \in Seq(L)
  BY <1>1, <1>4, ConsType
<1>6. Cons(<<k.value, v.value>>, r.value) \in Seq(Seq(L) \X D)
  BY <1>1, ConsType
<1>7. IsMembers(Means(Cons(",", k.text \o Cons(":", v.text \o r.text)),
                 Cons(<<k.value, v.value>>, r.value)), G)
  BY Zenon DEF IsMembers
<1> QED BY <1>5, <1>6, <1>7, GreatestMembers

-----------------------------------------------------------------------------
(* What the writer puts out.                                               *)

\* Equations of sequences, as predicates.
Regroups(a, b, c) == (a \o b) \o c = a \o (b \o c)

LEMMA Regroup ==
    ASSUME NEW S, NEW a \in Seq(S), NEW b \in Seq(S), NEW c \in Seq(S)
    PROVE  Regroups(a, b, c)
  BY Associative DEF Regroups

FirstStays(c, s, u) == Cons(c, s) \o u = Cons(c, s \o u)

LEMMA FirstOfConcat ==
    ASSUME NEW S, NEW c \in S, NEW s \in Seq(S), NEW u \in Seq(S)
    PROVE  FirstStays(c, s, u)
  BY ConsConcat DEF FirstStays

LEMMA ElementsAre ==
    /\ Characters \subseteq Elements
    /\ "quote" \in Elements /\ "backslash" \in Elements /\ "n" \in Elements
    /\ "u0000" \in Elements /\ "null" \in Elements /\ "true" \in Elements
    /\ "false" \in Elements /\ "[" \in Elements /\ "]" \in Elements
    /\ "," \in Elements /\ ":" \in Elements
    /\ Left \in Elements /\ Right \in Elements
    /\ NumberLetters \subseteq Elements
    /\ "end" \notin Elements
<1>1. Characters \subseteq Elements
  BY Zenon DEF Elements
<1>2. /\ "quote" \in Elements /\ "backslash" \in Elements /\ "n" \in Elements
      /\ "u0000" \in Elements /\ "null" \in Elements /\ "true" \in Elements
      /\ "false" \in Elements /\ "[" \in Elements /\ "]" \in Elements
      /\ "," \in Elements /\ ":" \in Elements
  BY Zenon DEF Elements
<1>3. Left \in Elements /\ Right \in Elements
  BY Zenon DEF Elements, Left, Right
<1>4. NumberLetters \subseteq Elements
  <2>1. /\ "-" \in Elements /\ "0" \in Elements /\ "1" \in Elements
        /\ "." \in Elements /\ "e" \in Elements /\ "+" \in Elements
    BY Zenon DEF Elements
  <2> QED BY <2>1 DEF NumberLetters, Digits
<1>5. "end" \notin Elements
  <2>1. Elements = Characters \union {"quote", "backslash", "n", "u0000", "null", "true",
                       "false", Left, Right, "[", "]", ",", ":",
                       "-", "0", "1", ".", "e", "+"}
    BY Zenon DEF Elements, Left, Right
  <2>2. "end" \notin Characters
    BY DEF Characters
  <2>3. "end" # Left /\ "end" # Right
    BY Curly DEF OtherMarks
  <2> QED BY <2>1, <2>2, <2>3
<1> QED BY <1>1, <1>2, <1>3, <1>4, <1>5

\* The letters of what is written.
Written == Elements \union Marks \union NumberLetters

LEMMA WrittenLetters ==
    /\ AreLetters(Written) /\ Elements \subseteq Written /\ Characters \subseteq Written
<1>1. "end" \notin Marks
  BY Curly DEF Marks, OtherMarks
<1>2. "end" \notin NumberLetters
  BY DEF NumberLetters, Digits
<1> QED BY <1>1, <1>2, ElementsAre DEF Written, AreLetters

\* A character of a string, as it is written and as it is read.
EscapePut(G, c, r) ==
    /\ escape(c) \in Seq(Elements)
    /\ Means(escape(c) \o r.text, Cons(c, r.value)) \in G.strings

LEMMA EscapeReads ==
    ASSUME NEW D, NEW G, IsGreatest(G, Written, D), NEW c \in Characters, NEW r \in G.strings
    PROVE  EscapePut(G, c, r)
<1>1. r.text \in Seq(Written)
  BY GreatestTyped
<1>2. \A d \in Written : <<d>> \o r.text = Cons(d, r.text)
  BY <1>1, OneAhead
<1>3. \A d, e \in Written : <<d, e>> \o r.text = Cons(d, Cons(e, r.text))
  <2>1. ASSUME NEW d \in Written, NEW e \in Written
        PROVE  <<d, e>> \o r.text = Cons(d, Cons(e, r.text))
    <3>1. <<e>> \in Seq(Written) /\ <<d, e>> = Cons(d, <<e>>)
      BY PairAhead
    <3>2. FirstStays(d, <<e>>, r.text)
      BY <1>1, <3>1, FirstOfConcat
    <3> QED BY <1>2, <3>1, <3>2, Zenon DEF FirstStays
  <2> QED BY <2>1
<1>4. /\ c \in Written /\ "backslash" \in Written /\ "n" \in Written /\ "u0000" \in Written
      /\ "quote" \in Written
  BY ElementsAre DEF Written
<1>5. CASE c \in {"quote", "backslash"}
  <2>1. escape(c) = <<"backslash", c>>
    BY <1>5 DEF escape
  <2>2. Means(Cons("backslash", Cons(c, r.text)), Cons(c, r.value)) \in G.strings
    BY <1>5, StringEscaped
  <2>3. escape(c) \in Seq(Elements)
    <3>1. "backslash" \in Elements /\ c \in Elements
      BY ElementsAre
    <3> QED BY <2>1, <3>1
  <2>4. escape(c) \o r.text = Cons("backslash", Cons(c, r.text))
    BY <1>3, <1>4, <2>1
  <2> QED BY <2>2, <2>3, <2>4 DEF EscapePut
<1>6. CASE c = "newline"
  <2>1. escape(c) = <<"backslash", "n">>
    BY <1>6 DEF escape
  <2>2. Means(Cons("backslash", Cons("n", r.text)), Cons(c, r.value)) \in G.strings
    BY <1>6, StringEscaped
  <2>3. escape(c) \in Seq(Elements)
    <3>1. "backslash" \in Elements /\ "n" \in Elements
      BY ElementsAre
    <3> QED BY <2>1, <3>1
  <2>4. escape(c) \o r.text = Cons("backslash", Cons("n", r.text))
    BY <1>3, <1>4, <2>1
  <2> QED BY <2>2, <2>3, <2>4 DEF EscapePut
<1>7. CASE c = "nul"
  <2>1. escape(c) = <<"backslash", "u0000">>
    BY <1>7 DEF escape
  <2>2. Means(Cons("backslash", Cons("u0000", r.text)), Cons(c, r.value)) \in G.strings
    BY <1>7, StringEscaped
  <2>3. escape(c) \in Seq(Elements)
    <3>1. "backslash" \in Elements /\ "u0000" \in Elements
      BY ElementsAre
    <3> QED BY <2>1, <3>1
  <2>4. escape(c) \o r.text = Cons("backslash", Cons("u0000", r.text))
    BY <1>3, <1>4, <2>1
  <2> QED BY <2>2, <2>3, <2>4 DEF EscapePut
<1>8. CASE c \notin {"quote", "backslash", "newline", "nul"}
  <2>1. escape(c) = <<c>>
    BY <1>8 DEF escape
  <2>2. Means(Cons(c, r.text), Cons(c, r.value)) \in G.strings
    BY <1>4, <1>8, StringCharacter
  <2>3. escape(c) \in Seq(Elements)
    <3>1. c \in Elements
      BY ElementsAre
    <3> QED BY <2>1, <3>1
  <2>4. escape(c) \o r.text = Cons(c, r.text)
    BY <1>2, <1>4, <2>1
  <2> QED BY <2>2, <2>3, <2>4 DEF EscapePut
<1> QED BY <1>5, <1>6, <1>7, <1>8

\* The characters of a string, escaped.
Escaped(s) == FlattenSeq([i \in DOMAIN s |-> escape(s[i])])

LEMMA EscapedNone == Escaped(<<>>) = <<>>
<1>1. [i \in DOMAIN <<>> |-> escape(<<>>[i])] = <<>>
  OBVIOUS
<1> QED BY <1>1, FlattenEmpty DEF Escaped

LEMMA EscapedMore ==
    ASSUME NEW s \in Seq(Characters), NEW c \in Characters
    PROVE  /\ Escaped(s) \in Seq(Elements) /\ escape(c) \in Seq(Elements)
           /\ Escaped(Append(s, c)) = Escaped(s) \o escape(c)
<1> DEFINE p == [i \in DOMAIN s |-> escape(s[i])]
           t == Append(s, c)
           q == [i \in DOMAIN t |-> escape(t[i])]
<1>1. \A d \in Characters : escape(d) \in Seq(Elements)
  <2>1. ASSUME NEW d \in Characters
        PROVE  escape(d) \in Seq(Elements)
    <3>1. d \in Elements /\ "backslash" \in Elements /\ "n" \in Elements /\ "u0000" \in Elements
      BY ElementsAre
    <3> QED BY <3>1 DEF escape
  <2> QED BY <2>1
<1>2. /\ DOMAIN s = 1..Len(s) /\ Len(s) \in Nat
      /\ DOMAIN t = 1..(Len(s) + 1) /\ t[Len(s) + 1] = c
      /\ \A i \in 1..Len(s) : t[i] = s[i] /\ s[i] \in Characters
  OBVIOUS
<1>3. p \in Seq(Seq(Elements)) /\ Len(p) = Len(s)
  <2>1. p \in [1..Len(s) -> Seq(Elements)]
    BY <1>1, <1>2
  <2> HIDE DEF p
  <2> QED BY <1>2, <2>1
<1>4. q = Append(p, escape(c))
  <2>1. q \in Seq(Seq(Elements)) /\ Len(q) = Len(s) + 1
    <3>1. \A i \in 1..(Len(s) + 1) : t[i] \in Characters
      BY <1>2
    <3>2. q \in [1..(Len(s) + 1) -> Seq(Elements)]
      BY <1>1, <1>2, <3>1
    <3> HIDE DEF q
    <3> QED BY <1>2, <3>2
  <2>2. Append(p, escape(c)) \in Seq(Seq(Elements)) /\ Len(Append(p, escape(c))) = Len(s) + 1
    BY <1>1, <1>3
  <2>3. \A i \in 1..(Len(s) + 1) : q[i] = Append(p, escape(c))[i]
    <3>1. ASSUME NEW i \in 1..(Len(s) + 1)
          PROVE  q[i] = Append(p, escape(c))[i]
      <4>1. q[i] = escape(t[i])
        BY <1>2
      <4>2. CASE i = Len(s) + 1
        <5>1. Append(p, escape(c))[i] = escape(c)
          BY <1>3, <4>2
        <5> QED BY <1>2, <4>1, <4>2, <5>1
      <4>3. CASE i # Len(s) + 1
        <5>1. i \in 1..Len(s)
          BY <1>2, <4>3
        <5>2. p[i] = escape(s[i])
          BY <1>2, <5>1
        <5>3. Append(p, escape(c))[i] = p[i]
          BY <1>3, <5>1
        <5> QED BY <1>2, <4>1, <5>1, <5>2, <5>3
      <4> QED BY <4>2, <4>3
    <3> QED BY <3>1
  <2> HIDE DEF p, q
  <2> QED BY <2>1, <2>2, <2>3, SeqEqual
<1>5. escape(c) \in Seq(Elements)
  BY <1>1
<1> HIDE DEF p, q
<1>6. FlattenSeq(p) \in Seq(Elements) /\ FlattenSeq(q) = FlattenSeq(p) \o escape(c)
  BY <1>3, <1>4, <1>5, FlattenAppend
<1> QED BY <1>5, <1>6 DEF Escaped, p, q, t

\* A string is read as it is written, whatever it goes on with.
EscapedPut(G, s, r) ==
    /\ Escaped(s) \in Seq(Elements)
    /\ Means(Escaped(s) \o r.text, s \o r.value) \in G.strings

LEMMA EscapedReads ==
    ASSUME NEW D, NEW G, IsGreatest(G, Written, D), NEW s \in Seq(Characters), NEW r \in G.strings
    PROVE  EscapedPut(G, s, r)
<1> DEFINE P == {t \in Seq(Characters) : \A x \in G.strings : EscapedPut(G, t, x)}
<1>0. \A x \in G.strings : x.text \in Seq(Written) /\ x.value \in Seq(Written)
  BY GreatestTyped
<1>1. <<>> \in P
  <2>1. ASSUME NEW x \in G.strings
        PROVE  EscapedPut(G, <<>>, x)
    <3>1. <<>> \o x.text = x.text /\ <<>> \o x.value = x.value
      BY <1>0
    <3>4. x \in [text : Seq(Written), value : Seq(Written)]
      BY GreatestIs DEF IsGuide, Typed
    <3>2. x = Means(x.text, x.value)
      BY <3>4 DEF Means
    <3>3. <<>> \in Seq(Elements)
      OBVIOUS
    <3> QED BY <3>1, <3>2, <3>3, EscapedNone DEF EscapedPut
  <2> QED BY <2>1
<1>2. ASSUME NEW t \in Seq(Characters), NEW c \in Characters, t \in P
      PROVE  Append(t, c) \in P
  <2>1. Append(t, c) \in Seq(Characters)
    OBVIOUS
  <2>2. ASSUME NEW x \in G.strings
        PROVE  EscapedPut(G, Append(t, c), x)
    <3> DEFINE y == Means(escape(c) \o x.text, Cons(c, x.value))
    <3>1. escape(c) \in Seq(Elements) /\ y \in G.strings
      BY EscapeReads DEF EscapePut
    <3>2. Escaped(t) \in Seq(Elements) /\ Means(Escaped(t) \o y.text, t \o y.value) \in G.strings
      BY <1>2, <3>1 DEF EscapedPut
    <3>3. y.text = escape(c) \o x.text /\ y.value = Cons(c, x.value)
      BY DEF Means
    <3>4. Escaped(Append(t, c)) = Escaped(t) \o escape(c)
      BY EscapedMore
    <3>5. /\ escape(c) \in Seq(Written) /\ Escaped(t) \in Seq(Written) /\ t \in Seq(Written)
          /\ c \in Written
      BY <3>1, <3>2, WrittenLetters
    <3>6. x.text \in Seq(Written) /\ x.value \in Seq(Written)
      BY <1>0
    <3> HIDE DEF y
    <3>11. Regroups(Escaped(t), escape(c), x.text)
      BY <3>5, <3>6, Regroup
    <3>7. Escaped(t) \o (escape(c) \o x.text) = (Escaped(t) \o escape(c)) \o x.text
      BY <3>11, Zenon DEF Regroups
    <3>8. t \o Cons(c, x.value) = Append(t, c) \o x.value
      BY <3>5, <3>6, AppendAhead
    <3>9. Escaped(t) \o escape(c) \in Seq(Elements)
      BY <3>1, <3>2
    <3>10. Means(Escaped(Append(t, c)) \o x.text, Append(t, c) \o x.value) \in G.strings
      BY <3>2, <3>3, <3>4, <3>7, <3>8
    <3> QED BY <3>4, <3>9, <3>10 DEF EscapedPut
  <2> QED BY <2>1, <2>2
<1> HIDE DEF P
<1>3. Seq(Characters) \subseteq P
  BY <1>1, <1>2, SequenceInduction
<1>4. s \in P
  BY <1>3
<1> QED BY <1>4 DEF P

Quoted(s) == <<"quote">> \o Escaped(s) \o <<"quote">>

\* A string, as it is written and as it is read.
LEMMA QuotedReads ==
    ASSUME NEW D, NEW G, IsGreatest(G, Written, D), NEW s \in Seq(Characters)
    PROVE  Quoted(s) \in Seq(Elements) /\ Means(Quoted(s), s) \in G.names
<1> DEFINE r == Means(<<"quote">>, <<>>)
           x == Means(Escaped(s) \o <<"quote">>, s)
<1>1. r \in G.strings /\ r.text = <<"quote">> /\ r.value = <<>>
  BY StringEnd DEF Means
<1>2. EscapedPut(G, s, r)
  BY <1>1, EscapedReads
<1>3. s \o <<>> = s
  OBVIOUS
<1> HIDE DEF r
<1>4. Escaped(s) \in Seq(Elements) /\ x \in G.strings
  BY <1>1, <1>2, <1>3 DEF EscapedPut
<1>5. x.text = Escaped(s) \o <<"quote">> /\ x.value = s
  BY DEF Means
<1> HIDE DEF x
<1>6. Means(Cons("quote", Escaped(s) \o <<"quote">>), s) \in G.names
  BY <1>4, <1>5, NameQuoted
<1>7. "quote" \in Elements
  BY ElementsAre
<1>8. <<"quote">> \in Seq(Elements)
  BY <1>7
<1>9. Quoted(s) = Cons("quote", Escaped(s) \o <<"quote">>)
  <2>1. Quoted(s) = <<"quote">> \o (Escaped(s) \o <<"quote">>)
    BY <1>4, <1>8, Associative DEF Quoted
  <2> QED BY <2>1 DEF Cons
<1>10. Quoted(s) \in Seq(Elements)
  BY <1>4, <1>8 DEF Quoted
<1> QED BY <1>6, <1>9, <1>10

-----------------------------------------------------------------------------
(* What becomes of a writer.                                               *)

IsTurn(steps, begun, n, h) ==
    h = [i \in 0..n |-> IF i = 0 THEN begun ELSE steps[i][h[i - 1]]]

LEMMA TurnExists ==
    ASSUME NEW n \in Nat, NEW steps, NEW begun
    PROVE  \E h : IsTurn(steps, begun, n, h)
<1> DEFINE E == {m \in Nat : \E h : IsTurn(steps, begun, m, h)}
<1>1. 0 \in E
  <2> DEFINE h == [i \in 0..0 |-> begun]
  <2>1. h = [i \in 0..0 |-> IF i = 0 THEN begun ELSE steps[i][h[i - 1]]]
    OBVIOUS
  <2> HIDE DEF h
  <2> QED BY <2>1 DEF IsTurn
<1>2. ASSUME NEW m \in Nat, m \in E
      PROVE  m + 1 \in E
  <2>1. PICK h : IsTurn(steps, begun, m, h)
    BY <1>2
  <2>2. \A i \in 0..m : h[i] = IF i = 0 THEN begun ELSE steps[i][h[i - 1]]
    BY <2>1 DEF IsTurn
  <2> DEFINE k == [i \in 0..(m + 1) |-> IF i <= m THEN h[i] ELSE steps[m + 1][h[m]]]
  <2>3. ASSUME NEW i \in 0..(m + 1)
        PROVE  k[i] = IF i = 0 THEN begun ELSE steps[i][k[i - 1]]
    <3>1. CASE i <= m
      <4>1. k[i] = h[i] /\ i \in 0..m
        BY <3>1
      <4>2. i # 0 => i - 1 \in 0..(m + 1) /\ i - 1 <= m /\ k[i - 1] = h[i - 1]
        BY <3>1
      <4> HIDE DEF k
      <4> QED BY <2>2, <4>1, <4>2
    <3>2. CASE ~(i <= m)
      <4>1. i = m + 1 /\ i # 0 /\ i - 1 = m
        BY <3>2
      <4>2. k[i] = steps[m + 1][h[m]] /\ k[m] = h[m]
        BY <4>1
      <4> HIDE DEF k
      <4> QED BY <4>1, <4>2
    <3> QED BY <3>1, <3>2
  <2>4. k = [i \in 0..(m + 1) |-> IF i = 0 THEN begun ELSE steps[i][k[i - 1]]]
    BY <2>3
  <2> HIDE DEF k
  <2>5. IsTurn(steps, begun, m + 1, k)
    BY <2>4 DEF IsTurn
  <2> QED BY <2>5
<1> HIDE DEF E
<1>3. Nat \subseteq E
  BY <1>1, <1>2, SetInduction
<1>4. n \in E
  BY <1>3
<1> QED BY <1>4 DEF E

\* A loop, step by step.
LEMMA TurnValues ==
    ASSUME NEW S, NEW steps \in Seq(S), NEW begun
    PROVE  \E h : /\ InTurn(steps, begun) = h[Len(steps)]
                  /\ h[0] = begun
                  /\ \A i \in 1..Len(steps) : h[i] = steps[i][h[i - 1]]
<1>1. Len(steps) \in Nat
  OBVIOUS
<1> DEFINE h == CHOOSE x : IsTurn(steps, begun, Len(steps), x)
<1>2. InTurn(steps, begun) = h[Len(steps)]
  BY DEF InTurn, IsTurn
<1>3. IsTurn(steps, begun, Len(steps), h)
  BY <1>1, TurnExists
<1> HIDE DEF h
<1>4. \A i \in 0..Len(steps) : h[i] = IF i = 0 THEN begun ELSE steps[i][h[i - 1]]
  BY <1>3 DEF IsTurn
<1>5. 0 \in 0..Len(steps) /\ \A i \in 1..Len(steps) : i \in 0..Len(steps) /\ i # 0
  BY <1>1
<1> QED BY <1>2, <1>4, <1>5

Levels == Seq([inArray : BOOLEAN, valueCount : Nat])

\* A writer in a container that was begun by another one.
InContainer(w, inArray, out, count) ==
    [out |-> out, levels |-> Append(w.levels, [inArray |-> inArray, valueCount |-> count]),
     hasRoot |-> w.hasRoot, sound |-> w.sound]

\* What goes in front of a value of a container that has as many.
Between(inArray, count) ==
    IF count = 0 THEN <<>> ELSE IF inArray \/ count % 2 = 0 THEN <<",">> ELSE <<":">>

LEMMA BetweenType ==
    ASSUME NEW inArray, NEW count
    PROVE  Between(inArray, count) \in Seq(Elements)
<1>1. "," \in Elements /\ ":" \in Elements
  BY ElementsAre
<1>2. \A c \in Elements : <<c>> \in Seq(Elements)
  OBVIOUS
<1>3. <<>> \in Seq(Elements)
  OBVIOUS
<1> QED BY <1>1, <1>2, <1>3, Zenon DEF Between

LEMMA InContainerType ==
    ASSUME NEW w \in Writers, NEW inArray \in BOOLEAN, NEW out \in Seq(Elements), NEW count \in Nat
    PROVE  /\ InContainer(w, inArray, out, count) \in Writers
           /\ InContainer(w, inArray, out, count).levels # <<>>
           /\ level(InContainer(w, inArray, out, count)) = [inArray |-> inArray, valueCount |-> count]
<1> DEFINE e == [inArray |-> inArray, valueCount |-> count]
<1>1. e \in [inArray : BOOLEAN, valueCount : Nat]
  OBVIOUS
<1>2. w.levels \in Levels /\ w.hasRoot \in BOOLEAN /\ w.sound \in BOOLEAN
  BY DEF Writers, Levels
<1> HIDE DEF e
<1>3. /\ Append(w.levels, e) \in Levels /\ Append(w.levels, e) # <<>>
      /\ Last(Append(w.levels, e)) = e
  BY <1>1, <1>2 DEF Levels, Last
<1>4. InContainer(w, inArray, out, count) =
         [out |-> out, levels |-> Append(w.levels, e), hasRoot |-> w.hasRoot, sound |-> w.sound]
  BY DEF InContainer, e
<1>5. InContainer(w, inArray, out, count) \in Writers
  BY <1>2, <1>3, <1>4 DEF Writers, Levels
<1>6. InContainer(w, inArray, out, count).levels = Append(w.levels, e)
  BY <1>4
<1> QED BY <1>3, <1>5, <1>6 DEF level, e

LEMMA PutInContainer ==
    ASSUME NEW w, NEW inArray, NEW out, NEW count, NEW t
    PROVE  Put(InContainer(w, inArray, out, count), t) = InContainer(w, inArray, out \o t, count)
<1>1. \A x : [InContainer(w, inArray, out, count) EXCEPT !.out = x]
              = InContainer(w, inArray, x, count)
  BY DEF InContainer
<1>2. InContainer(w, inArray, out, count).out = out
  BY DEF InContainer
<1> QED BY <1>1, <1>2 DEF Put

LastBecomes(s, e, f) == [Append(s, e) EXCEPT ![Len(s) + 1] = f] = Append(s, f)

LEMMA LastChanged ==
    ASSUME NEW S, NEW s \in Seq(S), NEW e \in S, NEW f \in S
    PROVE  LastBecomes(s, e, f)
<1> DEFINE a == [Append(s, e) EXCEPT ![Len(s) + 1] = f]
           b == Append(s, f)
<1>1. a \in Seq(S) /\ Len(a) = Len(s) + 1
  OBVIOUS
<1>2. b \in Seq(S) /\ Len(b) = Len(s) + 1
  OBVIOUS
<1>3. ASSUME NEW i \in 1..(Len(s) + 1)
      PROVE  a[i] = b[i]
  <2>1. CASE i = Len(s) + 1
    BY <2>1
  <2>2. CASE i # Len(s) + 1
    <3>1. i \in 1..Len(s)
      BY <2>2
    <3>2. b[i] = s[i] /\ Append(s, e)[i] = s[i]
      BY <3>1
    <3>3. a[i] = Append(s, e)[i]
      <4> DEFINE u == Append(s, e)
      <4>1. u \in Seq(S) /\ i \in 1..Len(u)
        BY <3>1
      <4> HIDE DEF u
      <4>2. [u EXCEPT ![Len(s) + 1] = f][i] = u[i]
        BY <2>2, <4>1
      <4> QED BY <4>2 DEF u
    <3> QED BY <3>2, <3>3
  <2> QED BY <2>1, <2>2
<1> HIDE DEF a, b
<1>4. a = b
  BY <1>1, <1>2, <1>3, SeqEqual
<1> QED BY <1>4 DEF LastBecomes, a, b

LEMMA PrefixInContainer ==
    ASSUME NEW w \in Writers, NEW inArray \in BOOLEAN, NEW out \in Seq(Elements), NEW count \in Nat,
           NEW isString \in BOOLEAN, inArray \/ count % 2 = 1 \/ isString
    PROVE  Prefix(InContainer(w, inArray, out, count), isString) =
              InContainer(w, inArray, out \o Between(inArray, count), count + 1)
<1> DEFINE e == [inArray |-> inArray, valueCount |-> count]
           f == [inArray |-> inArray, valueCount |-> count + 1]
           c == InContainer(w, inArray, out, count)
           l == Append(w.levels, e)
<1>1. c \in Writers /\ c.levels # <<>> /\ level(c) = e
  BY InContainerType
<1>2. c.levels = l /\ c.out = out /\ c.hasRoot = w.hasRoot /\ c.sound = w.sound
  BY DEF InContainer
<1>3. separator(c) = Between(inArray, count)
  <2>1. level(c).inArray = inArray /\ level(c).valueCount = count
    BY <1>1
  <2> HIDE DEF c, e
  <2> QED BY <1>1, <2>1, Zenon DEF separator, Between
<1>4. w.levels \in Levels /\ w.sound \in BOOLEAN
  BY DEF Writers, Levels
<1>5. [l EXCEPT ![Len(l)].valueCount = @ + 1] = Append(w.levels, f)
  <2>1. e \in [inArray : BOOLEAN, valueCount : Nat] /\ f \in [inArray : BOOLEAN, valueCount : Nat]
    OBVIOUS
  <2>2. [e EXCEPT !.valueCount = @ + 1] = f
    OBVIOUS
  <2> HIDE DEF e, f
  <2>3. /\ l \in Levels /\ Len(l) = Len(w.levels) + 1 /\ Len(w.levels) \in Nat
        /\ l[Len(l)] = e /\ \A i \in 1..Len(w.levels) : l[i] = w.levels[i]
    BY <1>4, <2>1 DEF Levels
  <2>4. [l EXCEPT ![Len(l)].valueCount = @ + 1] = [l EXCEPT ![Len(l)] = f]
    BY <2>2, <2>3
  <2>6. LastBecomes(w.levels, e, f)
    BY <1>4, <2>1, LastChanged DEF Levels
  <2>5. [l EXCEPT ![Len(w.levels) + 1] = f] = Append(w.levels, f)
    BY <2>6 DEF LastBecomes
  <2> QED BY <2>3, <2>4, <2>5
<1>6. (c.sound /\ (level(c).inArray \/ level(c).valueCount % 2 = 1 \/ isString)) = w.sound
  BY <1>1, <1>2, <1>4
<1> HIDE DEF e, f, l, c
<1>7. Put(c, separator(c)) = [c EXCEPT !.out = out \o Between(inArray, count)]
  BY <1>2, <1>3 DEF Put
<1> DEFINE d == Put(c, separator(c))
<1>8. /\ d.out = out \o Between(inArray, count) /\ d.levels = l /\ d.hasRoot = w.hasRoot
      /\ d.sound = w.sound /\ d = [out |-> d.out, levels |-> d.levels, hasRoot |-> d.hasRoot,
                                   sound |-> d.sound]
  BY <1>1, <1>2, <1>7 DEF Writers
<1>9. Prefix(c, isString) =
         [d EXCEPT !.levels[Len(c.levels)].valueCount = @ + 1,
                   !.sound = @ /\ (level(c).inArray \/ level(c).valueCount % 2 = 1 \/ isString)]
  BY <1>1 DEF Prefix, d
<1> HIDE DEF d
<1>10. Prefix(c, isString) =
         [out |-> d.out, levels |-> [l EXCEPT ![Len(l)].valueCount = @ + 1],
          hasRoot |-> d.hasRoot,
          sound |-> (c.sound /\ (level(c).inArray \/ level(c).valueCount % 2 = 1 \/ isString))]
  BY <1>2, <1>8, <1>9
<1>11. Prefix(c, isString) =
         [out |-> out \o Between(inArray, count), levels |-> Append(w.levels, f),
          hasRoot |-> w.hasRoot, sound |-> w.sound]
  BY <1>5, <1>6, <1>8, <1>10
<1> QED BY <1>11 DEF InContainer, c, f

-----------------------------------------------------------------------------
(* A writer that takes a value, and containers.                            *)

\* A writer that takes a value: a new one, or one that is in a container, in an
\* object behind a name.
Takes(w) ==
    \/ w = NewWriter
    \/ \E b \in Writers, inArray \in BOOLEAN, out \in Seq(Elements), count \in Nat :
          /\ w = InContainer(b, inArray, out, count)
          /\ inArray \/ count % 2 = 1

LEMMA NewWriterIs ==
    /\ NewWriter \in Writers
    /\ \A isString \in BOOLEAN :
          Prefix(NewWriter, isString)
             = [out |-> <<>>, levels |-> <<>>, hasRoot |-> TRUE, sound |-> TRUE]
    /\ [out |-> <<>>, levels |-> <<>>, hasRoot |-> TRUE, sound |-> TRUE] \in Writers
<1>1. <<>> \in Seq(Elements) /\ <<>> \in Seq([inArray : BOOLEAN, valueCount : Nat])
  OBVIOUS
<1>2. NewWriter \in Writers
  BY <1>1 DEF NewWriter, Writers
<1>3. [out |-> <<>>, levels |-> <<>>, hasRoot |-> TRUE, sound |-> TRUE] \in Writers
  BY <1>1 DEF Writers
<1>4. ASSUME NEW isString \in BOOLEAN
      PROVE  Prefix(NewWriter, isString)
             = [out |-> <<>>, levels |-> <<>>, hasRoot |-> TRUE, sound |-> TRUE]
  BY DEF Prefix, NewWriter
<1> QED BY <1>2, <1>3, <1>4

LEMMA TakesPrefix ==
    ASSUME NEW w, Takes(w)
    PROVE  /\ w \in Writers /\ Prefix(w, FALSE) \in Writers
           /\ Prefix(w, TRUE) = Prefix(w, FALSE)
<1>1. CASE w = NewWriter
  BY <1>1, NewWriterIs
<1>2. CASE w # NewWriter
  <2>1. PICK b \in Writers, inArray \in BOOLEAN, out \in Seq(Elements), count \in Nat :
           /\ w = InContainer(b, inArray, out, count)
           /\ inArray \/ count % 2 = 1
    BY <1>2 DEF Takes
  <2> DEFINE o == out \o Between(inArray, count)
  <2>2. o \in Seq(Elements) /\ count + 1 \in Nat
    BY BetweenType
  <2>3. w \in Writers
    BY <2>1, InContainerType
  <2>4. Prefix(w, FALSE) = InContainer(b, inArray, o, count + 1)
    BY <2>1, PrefixInContainer
  <2>5. Prefix(w, TRUE) = InContainer(b, inArray, o, count + 1)
    BY <2>1, PrefixInContainer
  <2> HIDE DEF o
  <2>6. InContainer(b, inArray, o, count + 1) \in Writers
    BY <2>2, InContainerType
  <2> QED BY <2>3, <2>4, <2>5, <2>6
<1> QED BY <1>1, <1>2

LEMMA WriterIs ==
    ASSUME NEW w \in Writers
    PROVE  /\ w = [out |-> w.out, levels |-> w.levels, hasRoot |-> w.hasRoot, sound |-> w.sound]
           /\ w.out \in Seq(Elements) /\ w.levels \in Levels /\ w.hasRoot \in BOOLEAN
           /\ w.sound \in BOOLEAN
  BY DEF Writers, Levels

LEMMA PutIs ==
    ASSUME NEW w \in Writers, NEW t \in Seq(Elements)
    PROVE  /\ Put(w, t) \in Writers
           /\ Put(w, t) = [out |-> w.out \o t, levels |-> w.levels, hasRoot |-> w.hasRoot,
                           sound |-> w.sound]
<1>1. w.out \o t \in Seq(Elements)
  BY WriterIs
<1>2. \A x : [w EXCEPT !.out = x] = [out |-> x, levels |-> w.levels, hasRoot |-> w.hasRoot,
                                     sound |-> w.sound]
  BY WriterIs
<1>3. Put(w, t) = [out |-> w.out \o t, levels |-> w.levels, hasRoot |-> w.hasRoot,
                   sound |-> w.sound]
  BY <1>2 DEF Put
<1> QED BY <1>1, <1>3, WriterIs DEF Writers, Levels

LEMMA NestIs ==
    ASSUME NEW p \in Writers, NEW inArray \in BOOLEAN, NEW t
    PROVE  Put(nest(p, inArray), t) = InContainer(p, inArray, p.out \o t, 0)
<1>1. nest(p, inArray) = InContainer(p, inArray, p.out, 0)
  <2>1. \A x : [p EXCEPT !.levels = x] = [out |-> p.out, levels |-> x, hasRoot |-> p.hasRoot,
                                         sound |-> p.sound]
    BY WriterIs
  <2> QED BY <2>1 DEF nest, InContainer
<1> QED BY <1>1, PutInContainer

LEMMA UnnestIs ==
    ASSUME NEW p \in Writers, NEW inArray \in BOOLEAN, NEW out \in Seq(Elements), NEW count \in Nat,
           inArray \/ count % 2 = 0
    PROVE  unnest(InContainer(p, inArray, out, count), inArray)
              = [out |-> out, levels |-> p.levels, hasRoot |-> p.hasRoot, sound |-> p.sound]
<1> DEFINE e == [inArray |-> inArray, valueCount |-> count]
           c == InContainer(p, inArray, out, count)
<1>1. level(c) = e
  BY InContainerType
<1>2. c = [out |-> out, levels |-> Append(p.levels, e), hasRoot |-> p.hasRoot, sound |-> p.sound]
  BY DEF InContainer
<1>3. Front(Append(p.levels, e)) = p.levels
  <2>1. p.levels \in Levels /\ e \in [inArray : BOOLEAN, valueCount : Nat]
    BY WriterIs
  <2> HIDE DEF e
  <2> QED BY <2>1 DEF Front, Levels
<1>4. (c.sound /\ level(c).inArray = inArray /\ (inArray \/ level(c).valueCount % 2 = 0)) = p.sound
  <2>1. c.sound = p.sound /\ p.sound \in BOOLEAN
    BY <1>2, WriterIs
  <2> QED BY <1>1, <2>1
<1>5. unnest(c, inArray) =
        [out |-> out, levels |-> Front(Append(p.levels, e)), hasRoot |-> p.hasRoot,
         sound |-> (c.sound /\ level(c).inArray = inArray
                      /\ (inArray \/ level(c).valueCount % 2 = 0))]
  <2> HIDE DEF e
  <2>1. ASSUME NEW x, NEW y \in BOOLEAN
        PROVE  [c EXCEPT !.levels = x, !.sound = y]
                  = [out |-> out, levels |-> x, hasRoot |-> p.hasRoot, sound |-> y]
    <3> DEFINE l == Append(p.levels, e)
               d == [c EXCEPT !.levels = x]
    <3>1. c = [out |-> out, levels |-> l, hasRoot |-> p.hasRoot, sound |-> p.sound]
      BY <1>2
    <3>2. p.sound \in BOOLEAN /\ p.hasRoot \in BOOLEAN
      BY WriterIs
    <3> HIDE DEF c, l
    <3>3. d = [out |-> out, levels |-> x, hasRoot |-> p.hasRoot, sound |-> p.sound]
      BY <3>1, <3>2
    <3> HIDE DEF d
    <3>4. [d EXCEPT !.sound = y] = [out |-> out, levels |-> x, hasRoot |-> p.hasRoot, sound |-> y]
      BY <3>2, <3>3
    <3> QED BY <3>4 DEF d
  <2>3. (c.sound /\ level(c).inArray = inArray /\ (inArray \/ level(c).valueCount % 2 = 0)) \in BOOLEAN
    BY <1>4, WriterIs
  <2>2. c.levels = Append(p.levels, e)
    BY <1>2
  <2> HIDE DEF c
  <2> QED BY <2>1, <2>2, <2>3 DEF unnest
<1> HIDE DEF c, e
<1>6. unnest(c, inArray) = [out |-> out, levels |-> p.levels, hasRoot |-> p.hasRoot, sound |-> p.sound]
  BY <1>3, <1>4, <1>5
<1> QED BY <1>6 DEF c

LEMMA EndIs ==
    ASSUME NEW p \in Writers, NEW inArray \in BOOLEAN, NEW x \in Seq(Elements), NEW count \in Nat,
           inArray \/ count % 2 = 0, NEW t \in Seq(Elements)
    PROVE  Put(unnest(InContainer(p, inArray, p.out \o x, count), inArray), t) = Put(p, x \o t)
<1>1. p.out \o x \in Seq(Elements) /\ p.out \in Seq(Elements) /\ x \o t \in Seq(Elements)
  BY WriterIs
<1> DEFINE o == p.out \o x
           u == [out |-> o, levels |-> p.levels, hasRoot |-> p.hasRoot, sound |-> p.sound]
<1>2. unnest(InContainer(p, inArray, o, count), inArray) = u
  <2>1. o \in Seq(Elements)
    BY <1>1
  <2> HIDE DEF o
  <2> QED BY <2>1, UnnestIs
<1>3. u \in Writers /\ u.out = o /\ u.levels = p.levels /\ u.hasRoot = p.hasRoot /\ u.sound = p.sound
  BY <1>1, WriterIs DEF Writers, Levels
<1> HIDE DEF u
<1>4. Put(u, t) = [out |-> o \o t, levels |-> p.levels, hasRoot |-> p.hasRoot, sound |-> p.sound]
  BY <1>3, PutIs
<1>5. Put(p, x \o t) = [out |-> p.out \o (x \o t), levels |-> p.levels, hasRoot |-> p.hasRoot,
                        sound |-> p.sound]
  BY <1>1, PutIs
<1>6. Regroups(p.out, x, t)
  BY <1>1, Regroup
<1>7. o \o t = p.out \o (x \o t)
  BY <1>6, Zenon DEF Regroups, o
<1> QED BY <1>2, <1>4, <1>5, <1>7

-----------------------------------------------------------------------------
(* What has been written of a container.                                   *)

\* What has been written of an array, which is to go on with more elements.
ElementsPut(y, s, D, G) ==
    /\ y \in Seq(Elements) /\ s \in Seq(D)
    /\ \A r \in G.elements :
          <<"array", s \o r.value>> \in D =>
             Means(y \o r.text, <<"array", s \o r.value>>) \in G.values

LEMMA ValuesTexts ==
    ASSUME NEW D, NEW G, IsGreatest(G, Written, D), NEW t, NEW v, Means(t, v) \in G.values
    PROVE  t \in Seq(Written) /\ v \in D
<1>1. Means(t, v).text \in Seq(Written) /\ Means(t, v).value \in D
  BY GreatestTyped
<1> QED BY <1>1 DEF Means

LEMMA TextIsWritten ==
    ASSUME NEW s \in Seq(Elements)
    PROVE  s \in Seq(Written)
  BY WrittenLetters

LEMMA ElementsFirst ==
    ASSUME NEW D, NEW G, IsGreatest(G, Written, D), NEW t \in Seq(Elements), NEW v, v # Nothing,
           Means(t, v) \in G.values
    PROVE  ElementsPut(Cons("[", t), <<v>>, D, G)
<1>1. v \in D /\ t \in Seq(Written)
  BY ValuesTexts
<1>2. Cons("[", t) \in Seq(Elements)
  BY ElementsAre, ConsType
<1>3. ASSUME NEW r \in G.elements, <<"array", <<v>> \o r.value>> \in D
      PROVE  Means(Cons("[", t) \o r.text, <<"array", <<v>> \o r.value>>) \in G.values
  <2> DEFINE x == Means(t, v)
  <2>1. x.text = t /\ x.value = v /\ x \in G.values
    BY DEF Means
  <2> HIDE DEF x
  <2>2. r.text \in Seq(Written) /\ r.value \in Seq(D)
    BY GreatestTyped
  <2>3. Cons(v, r.value) = <<v>> \o r.value
    BY DEF Cons
  <2>4. FirstStays("[", t, r.text)
    <3>1. "[" \in Written
      BY WrittenLetters, ElementsAre
    <3> QED BY <1>1, <2>2, <3>1, FirstOfConcat
  <2>5. Means(Cons("[", t \o r.text), <<"array", Cons(v, r.value)>>) \in G.values
    BY <1>3, <2>1, <2>3, ValueElements
  <2>6. Cons("[", t) \o r.text = Cons("[", t \o r.text)
    BY <2>4, Zenon DEF FirstStays
  <2> QED BY <2>3, <2>5, <2>6
<1>4. <<v>> \in Seq(D)
  BY <1>1
<1> QED BY <1>2, <1>3, <1>4 DEF ElementsPut

LEMMA ElementsMore ==
    ASSUME NEW D, NEW G, IsGreatest(G, Written, D), NEW t \in Seq(Elements), NEW v, v # Nothing,
           Means(t, v) \in G.values, NEW y, NEW s, ElementsPut(y, s, D, G)
    PROVE  ElementsPut(y \o Cons(",", t), Append(s, v), D, G)
<1>1. v \in D /\ t \in Seq(Written) /\ y \in Seq(Elements) /\ s \in Seq(D)
  BY ValuesTexts DEF ElementsPut
<1>2. Cons(",", t) \in Seq(Elements) /\ "," \in Written
  BY ElementsAre, WrittenLetters, ConsType
<1>3. y \o Cons(",", t) \in Seq(Elements)
  BY <1>1, <1>2, ConcatAhead
<1>4. ASSUME NEW r \in G.elements, <<"array", Append(s, v) \o r.value>> \in D
      PROVE  Means((y \o Cons(",", t)) \o r.text, <<"array", Append(s, v) \o r.value>>) \in G.values
  <2> DEFINE x == Means(t, v)
             q == Means(Cons(",", t \o r.text), Cons(v, r.value))
  <2>1. x.text = t /\ x.value = v /\ x \in G.values
    BY DEF Means
  <2> HIDE DEF x
  <2>2. r.text \in Seq(Written) /\ r.value \in Seq(D)
    BY GreatestTyped
  <2>3. q \in G.elements
    BY <2>1, ElementsNext
  <2>4. q.text = Cons(",", t \o r.text) /\ q.value = Cons(v, r.value)
    BY DEF Means
  <2> HIDE DEF q
  <2>5. s \o Cons(v, r.value) = Append(s, v) \o r.value
    BY <1>1, <2>2, AppendAhead
  <2>6. Means(y \o q.text, <<"array", s \o q.value>>) \in G.values
    BY <1>4, <2>3, <2>4, <2>5 DEF ElementsPut
  <2>7. FirstStays(",", t, r.text)
    BY <1>1, <1>2, <2>2, FirstOfConcat
  <2>8. Regroups(y, Cons(",", t), r.text)
    <3>1. y \in Seq(Written) /\ Cons(",", t) \in Seq(Written)
      BY <1>1, <1>2, TextIsWritten
    <3> QED BY <2>2, <3>1, Regroup
  <2>9. (y \o Cons(",", t)) \o r.text = y \o q.text
    BY <2>4, <2>7, <2>8, Zenon DEF FirstStays, Regroups
  <2> QED BY <2>4, <2>5, <2>6, <2>9
<1>5. Append(s, v) \in Seq(D)
  BY <1>1
<1> QED BY <1>3, <1>4, <1>5 DEF ElementsPut

LEMMA ElementsLast ==
    ASSUME NEW D, NEW G, IsGreatest(G, Written, D), NEW y, NEW s, ElementsPut(y, s, D, G),
           <<"array", s>> \in D
    PROVE  y \o <<"]">> \in Seq(Elements) /\ Means(y \o <<"]">>, <<"array", s>>) \in G.values
<1> DEFINE r == Means(<<"]">>, <<>>)
<1>1. r \in G.elements /\ r.text = <<"]">> /\ r.value = <<>>
  BY ElementsEnd DEF Means
<1> HIDE DEF r
<1>2. s \in Seq(D) /\ y \in Seq(Elements)
  BY DEF ElementsPut
<1>3. s \o <<>> = s
  BY <1>2
<1>4. Means(y \o <<"]">>, <<"array", s>>) \in G.values
  BY <1>1, <1>3 DEF ElementsPut
<1>5. "]" \in Elements
  BY ElementsAre
<1>6. <<"]">> \in Seq(Elements)
  BY <1>5
<1> QED BY <1>2, <1>4, <1>6, ConcatAhead

-----------------------------------------------------------------------------
\* The same of an object.
MembersPut(y, s, D, G) ==
    /\ y \in Seq(Elements) /\ s \in Seq(Seq(Written) \X D)
    /\ \A r \in G.members :
          <<"object", s \o r.value>> \in D =>
             Means(y \o r.text, <<"object", s \o r.value>>) \in G.values

\* The text of a member.
Member(k, t) == k \o Cons(":", t)

\* A member goes on with the rest of the object.
MemberStays(c, k, t, u) == Cons(c, Member(k, t)) \o u = Cons(c, k \o Cons(":", t \o u))

LEMMA MemberOfConcat ==
    ASSUME NEW S, NEW c \in S, ":" \in S, NEW k \in Seq(S), NEW t \in Seq(S), NEW u \in Seq(S)
    PROVE  MemberStays(c, k, t, u)
<1>1. Cons(":", t) \in Seq(S) /\ t \o u \in Seq(S)
  BY ConsType, ConcatAhead
<1>2. k \o Cons(":", t) \in Seq(S)
  BY <1>1, ConcatAhead
<1>3. FirstStays(c, Member(k, t), u) /\ FirstStays(":", t, u)
  BY <1>2, FirstOfConcat DEF Member
<1>4. Regroups(k, Cons(":", t), u)
  BY <1>1, Regroup
<1> QED BY <1>3, <1>4, Zenon DEF FirstStays, Regroups, MemberStays, Member

LEMMA MemberTexts ==
    ASSUME NEW D, NEW G, IsGreatest(G, Written, D), NEW t \in Seq(Elements), NEW v,
           Means(t, v) \in G.values, NEW k \in Seq(Elements), NEW name, Means(k, name) \in G.names
    PROVE  /\ v \in D /\ t \in Seq(Written) /\ k \in Seq(Written) /\ name \in Seq(Written)
           /\ Member(k, t) \in Seq(Elements)
           /\ ":" \in Written /\ "," \in Written /\ Left \in Written
           /\ "," \in Elements /\ Left \in Elements
<1>1. v \in D /\ t \in Seq(Written)
  BY ValuesTexts
<1>2. Means(k, name).text \in Seq(Written) /\ Means(k, name).value \in Seq(Written)
  BY GreatestTyped
<1>3. k \in Seq(Written) /\ name \in Seq(Written)
  BY <1>2 DEF Means
<1>4. Cons(":", t) \in Seq(Elements)
  BY ElementsAre, ConsType
<1>5. Member(k, t) \in Seq(Elements)
  BY <1>4, ConcatAhead DEF Member
<1> QED BY <1>1, <1>3, <1>5, ElementsAre, WrittenLetters

LEMMA MembersFirst ==
    ASSUME NEW D, NEW G, IsGreatest(G, Written, D), NEW t \in Seq(Elements), NEW v,
           Means(t, v) \in G.values, NEW k \in Seq(Elements), NEW name, Means(k, name) \in G.names
    PROVE  MembersPut(Cons(Left, Member(k, t)), <<<<name, v>>>>, D, G)
<1>1. /\ v \in D /\ t \in Seq(Written) /\ k \in Seq(Written) /\ name \in Seq(Written)
      /\ Member(k, t) \in Seq(Elements) /\ ":" \in Written /\ Left \in Written /\ Left \in Elements
  BY MemberTexts
<1>2. Cons(Left, Member(k, t)) \in Seq(Elements)
  BY <1>1, ConsType
<1> DEFINE e == <<name, v>>
<1>0. e \in Seq(Written) \X D
  BY <1>1
<1>3. ASSUME NEW r \in G.members, <<"object", <<e>> \o r.value>> \in D
      PROVE  Means(Cons(Left, Member(k, t)) \o r.text, <<"object", <<e>> \o r.value>>) \in G.values
  <2> DEFINE x == Means(t, v)
             n == Means(k, name)
  <2>1. x.text = t /\ x.value = v /\ x \in G.values /\ n.text = k /\ n.value = name /\ n \in G.names
    BY DEF Means
  <2> HIDE DEF x, n
  <2>2. r.text \in Seq(Written)
    BY GreatestTyped
  <2>3. Cons(e, r.value) = <<e>> \o r.value
    BY DEF Cons
  <2>4. MemberStays(Left, k, t, r.text)
    BY <1>1, <2>2, MemberOfConcat
  <2>5. Means(Cons(Left, k \o Cons(":", t \o r.text)), <<"object", Cons(e, r.value)>>) \in G.values
    BY <1>3, <2>1, <2>3, ValueMembers
  <2>6. Cons(Left, Member(k, t)) \o r.text = Cons(Left, k \o Cons(":", t \o r.text))
    BY <2>4, Zenon DEF MemberStays
  <2> QED BY <2>3, <2>5, <2>6
<1> HIDE DEF e
<1>4. <<e>> \in Seq(Seq(Written) \X D)
  BY <1>0
<1>5. MembersPut(Cons(Left, Member(k, t)), <<e>>, D, G)
  BY <1>2, <1>3, <1>4 DEF MembersPut
<1> QED BY <1>5 DEF e

LEMMA MembersMore ==
    ASSUME NEW D, NEW G, IsGreatest(G, Written, D), NEW t \in Seq(Elements), NEW v,
           Means(t, v) \in G.values, NEW k \in Seq(Elements), NEW name, Means(k, name) \in G.names,
           NEW y, NEW s, MembersPut(y, s, D, G)
    PROVE  MembersPut(y \o Cons(",", Member(k, t)), Append(s, <<name, v>>), D, G)
<1>1. /\ v \in D /\ t \in Seq(Written) /\ k \in Seq(Written) /\ name \in Seq(Written)
      /\ Member(k, t) \in Seq(Elements) /\ ":" \in Written /\ "," \in Written /\ "," \in Elements
  BY MemberTexts
<1>2. y \in Seq(Elements) /\ s \in Seq(Seq(Written) \X D)
  BY DEF MembersPut
<1>3. Cons(",", Member(k, t)) \in Seq(Elements)
  BY <1>1, ConsType
<1>4. y \o Cons(",", Member(k, t)) \in Seq(Elements)
  BY <1>2, <1>3, ConcatAhead
<1> DEFINE e == <<name, v>>
<1>0. e \in Seq(Written) \X D
  BY <1>1
<1>5. ASSUME NEW r \in G.members, <<"object", Append(s, e) \o r.value>> \in D
      PROVE  Means((y \o Cons(",", Member(k, t))) \o r.text, <<"object", Append(s, e) \o r.value>>)
                \in G.values
  <2> DEFINE x == Means(t, v)
             n == Means(k, name)
             q == Means(Cons(",", k \o Cons(":", t \o r.text)), Cons(e, r.value))
  <2>1. x.text = t /\ x.value = v /\ x \in G.values /\ n.text = k /\ n.value = name /\ n \in G.names
    BY DEF Means
  <2> HIDE DEF x, n
  <2>2. r.text \in Seq(Written) /\ r.value \in Seq(Seq(Written) \X D)
    BY GreatestTyped
  <2>3. q \in G.members
    BY <2>1, MembersNext
  <2>4. q.text = Cons(",", k \o Cons(":", t \o r.text)) /\ q.value = Cons(e, r.value)
    BY DEF Means
  <2> HIDE DEF q, e
  <2>5. s \o Cons(e, r.value) = Append(s, e) \o r.value
    BY <1>0, <1>2, <2>2, AppendAhead
  <2>6. Means(y \o q.text, <<"object", s \o q.value>>) \in G.values
    BY <1>5, <2>3, <2>4, <2>5 DEF MembersPut
  <2>7. MemberStays(",", k, t, r.text)
    BY <1>1, <2>2, MemberOfConcat
  <2>8. Regroups(y, Cons(",", Member(k, t)), r.text)
    <3>1. y \in Seq(Written) /\ Cons(",", Member(k, t)) \in Seq(Written)
      BY <1>2, <1>3, TextIsWritten
    <3> QED BY <2>2, <3>1, Regroup
  <2>9. (y \o Cons(",", Member(k, t))) \o r.text = y \o q.text
    BY <2>4, <2>7, <2>8, Zenon DEF MemberStays, Regroups
  <2> QED BY <2>4, <2>5, <2>6, <2>9
<1> HIDE DEF e
<1>6. Append(s, e) \in Seq(Seq(Written) \X D)
  BY <1>0, <1>2
<1>7. MembersPut(y \o Cons(",", Member(k, t)), Append(s, e), D, G)
  BY <1>4, <1>5, <1>6 DEF MembersPut
<1> QED BY <1>7 DEF e

LEMMA MembersLast ==
    ASSUME NEW D, NEW G, IsGreatest(G, Written, D), NEW y, NEW s, MembersPut(y, s, D, G),
           <<"object", s>> \in D
    PROVE  y \o <<Right>> \in Seq(Elements) /\ Means(y \o <<Right>>, <<"object", s>>) \in G.values
<1> DEFINE r == Means(<<Right>>, <<>>)
<1>1. r \in G.members /\ r.text = <<Right>> /\ r.value = <<>>
  BY MembersEnd DEF Means
<1> HIDE DEF r
<1>2. s \in Seq(Seq(Written) \X D) /\ y \in Seq(Elements)
  BY DEF MembersPut
<1>3. s \o <<>> = s
  BY <1>2
<1>4. Means(y \o <<Right>>, <<"object", s>>) \in G.values
  BY <1>1, <1>3 DEF MembersPut
<1>5. Right \in Elements
  BY ElementsAre
<1>6. <<Right>> \in Seq(Elements)
  BY <1>5
<1> QED BY <1>2, <1>4, <1>6, ConcatAhead

-----------------------------------------------------------------------------
(* The elements and the members in turn.                                   *)

\* A step that writes an element of an array, or a member of an object.
ElementWritten(f, v, p, G, o, c) ==
    \E t \in Seq(Elements) :
        /\ Means(t, v) \in G.values
        /\ f[InContainer(p, TRUE, o, c)]
             = InContainer(p, TRUE, o \o (Between(TRUE, c) \o t), c + 1)

MemberWritten(f, name, v, p, G, o, c) ==
    \E k \in Seq(Elements), t \in Seq(Elements) :
        /\ Means(k, name) \in G.names /\ Means(t, v) \in G.values
        /\ f[InContainer(p, FALSE, o, c)]
             = InContainer(p, FALSE, o \o (Between(FALSE, c) \o Member(k, t)), c + 2)

\* Where the loop is: what has been written since the container began.
ArrayAt(w, p, k, s, D, G) ==
    \E y : ElementsPut(y, s, D, G) /\ w = InContainer(p, TRUE, p.out \o y, k)

ObjectAt(w, p, k, s, D, G) ==
    \E y : MembersPut(y, s, D, G) /\ w = InContainer(p, FALSE, p.out \o y, 2 * k)

LEMMA FirstAlone ==
    ASSUME NEW S, NEW s \in Seq(S), Len(s) # 0
    PROVE  SubSeq(s, 1, 1) = <<s[1]>>
<1> DEFINE a == SubSeq(s, 1, 1)
           b == <<s[1]>>
<1>1. s[1] \in S /\ 1 <= Len(s)
  OBVIOUS
<1>2. a \in Seq(S) /\ Len(a) = 1 /\ a[1] = s[1]
  BY <1>1
<1>3. b \in Seq(S) /\ Len(b) = 1 /\ b[1] = s[1]
  BY <1>1
<1> HIDE DEF a, b
<1>4. \A i \in 1..Len(a) : a[i] = b[i]
  BY <1>2, <1>3
<1>5. a = b
  BY <1>2, <1>3, <1>4, SeqEqual
<1> QED BY <1>5 DEF a, b

LEMMA ArrayBegun ==
    ASSUME NEW D, NEW G, IsGreatest(G, Written, D), NEW p \in Writers, NEW f, NEW v, v # Nothing,
           ElementWritten(f, v, p, G, p.out \o <<"[">>, 0)
    PROVE  ArrayAt(f[InContainer(p, TRUE, p.out \o <<"[">>, 0)], p, 1, <<v>>, D, G)
<1>1. PICK t \in Seq(Elements) :
        /\ Means(t, v) \in G.values
        /\ f[InContainer(p, TRUE, p.out \o <<"[">>, 0)]
             = InContainer(p, TRUE, (p.out \o <<"[">>) \o (Between(TRUE, 0) \o t), 0 + 1)
  BY DEF ElementWritten
<1>2. ElementsPut(Cons("[", t), <<v>>, D, G)
  BY <1>1, ElementsFirst
<1>3. "[" \in Elements
  BY ElementsAre
<1>4. <<"[">> \in Seq(Elements) /\ p.out \in Seq(Elements)
  BY <1>3, WriterIs
<1>5. Regroups(p.out, <<"[">>, t)
  BY <1>4, Regroup
<1>6. Between(TRUE, 0) \o t = t
  BY DEF Between
<1>7. (p.out \o <<"[">>) \o (Between(TRUE, 0) \o t) = p.out \o Cons("[", t)
  BY <1>5, <1>6, Zenon DEF Regroups, Cons
<1>8. 0 + 1 = 1
  OBVIOUS
<1> QED BY <1>1, <1>2, <1>7, <1>8 DEF ArrayAt

LEMMA ArrayGoesOn ==
    ASSUME NEW D, NEW G, IsGreatest(G, Written, D), NEW p \in Writers, NEW f, NEW v, v # Nothing,
           \A o \in Seq(Elements), c \in Nat : ElementWritten(f, v, p, G, o, c),
           NEW w, NEW k \in Nat \ {0}, NEW s, ArrayAt(w, p, k, s, D, G)
    PROVE  ArrayAt(f[w], p, k + 1, Append(s, v), D, G)
<1>1. PICK y : ElementsPut(y, s, D, G) /\ w = InContainer(p, TRUE, p.out \o y, k)
  BY DEF ArrayAt
<1>2. y \in Seq(Elements) /\ p.out \in Seq(Elements) /\ p.out \o y \in Seq(Elements)
  BY <1>1, WriterIs DEF ElementsPut
<1>3. ElementWritten(f, v, p, G, p.out \o y, k)
  BY <1>2
<1>4. PICK t \in Seq(Elements) :
        /\ Means(t, v) \in G.values
        /\ f[w] = InContainer(p, TRUE, (p.out \o y) \o (Between(TRUE, k) \o t), k + 1)
  BY <1>1, <1>3 DEF ElementWritten
<1>5. ElementsPut(y \o Cons(",", t), Append(s, v), D, G)
  BY <1>1, <1>4, ElementsMore
<1>6. Between(TRUE, k) \o t = Cons(",", t)
  BY DEF Between, Cons
<1>7. Cons(",", t) \in Seq(Elements)
  BY ElementsAre, ConsType
<1>8. Regroups(p.out, y, Cons(",", t))
  BY <1>2, <1>7, Regroup
<1>9. (p.out \o y) \o (Between(TRUE, k) \o t) = p.out \o (y \o Cons(",", t))
  BY <1>6, <1>8, Zenon DEF Regroups
<1> QED BY <1>4, <1>5, <1>9 DEF ArrayAt

\* The elements of an array, all of them.
LEMMA ElementsLoop ==
    ASSUME NEW D, NEW G, IsGreatest(G, Written, D), NEW p \in Writers, NEW S, NEW steps \in Seq(S),
           NEW vs \in Seq(D), Len(vs) = Len(steps), steps # <<>>,
           \A i \in 1..Len(steps) : vs[i] # Nothing,
           \A i \in 1..Len(steps) : \A o \in Seq(Elements), c \in Nat :
              ElementWritten(steps[i], vs[i], p, G, o, c)
    PROVE  ArrayAt(InTurn(steps, InContainer(p, TRUE, p.out \o <<"[">>, 0)), p, Len(steps),
                   vs, D, G)
<1> DEFINE begun == InContainer(p, TRUE, p.out \o <<"[">>, 0)
           n == Len(steps)
<1>8. PICK b : b = begun
  OBVIOUS
<1>9. PICK h : /\ InTurn(steps, b) = h[n] /\ h[0] = b
               /\ \A i \in 1..n : h[i] = steps[i][h[i - 1]]
  BY TurnValues
<1>1. /\ InTurn(steps, begun) = h[n] /\ h[0] = begun
      /\ \A i \in 1..n : h[i] = steps[i][h[i - 1]]
  BY <1>8, <1>9, Zenon
<1>2. n \in Nat \ {0}
  BY EmptySeq
<1> DEFINE E == {k \in Nat : k + 1 <= n => ArrayAt(h[k + 1], p, k + 1, SubSeq(vs, 1, k + 1), D, G)}
<1>3. 0 \in E
  <2>1. p.out \o <<"[">> \in Seq(Elements)
    <3>1. "[" \in Elements /\ p.out \in Seq(Elements)
      BY ElementsAre, WriterIs
    <3> QED BY <3>1
  <2>2. 1 \in 1..n
    BY <1>2
  <2>3. ElementWritten(steps[1], vs[1], p, G, p.out \o <<"[">>, 0)
    BY <2>1, <2>2
  <2>4. ArrayAt(steps[1][begun], p, 1, <<vs[1]>>, D, G)
    BY <2>2, <2>3, ArrayBegun
  <2>5. SubSeq(vs, 1, 1) = <<vs[1]>>
    BY <1>2, FirstAlone
  <2>6. h[1] = steps[1][begun]
    <3>1. h[1] = steps[1][h[1 - 1]] /\ 1 - 1 = 0
      BY <1>1, <2>2
    <3> QED BY <1>1, <3>1
  <2>7. 0 + 1 = 1
    OBVIOUS
  <2> HIDE DEF begun
  <2> QED BY <2>4, <2>5, <2>6, <2>7
<1>4. ASSUME NEW k \in Nat, k \in E
      PROVE  k + 1 \in E
  <2> SUFFICES ASSUME k + 1 + 1 <= n
               PROVE  ArrayAt(h[k + 1 + 1], p, k + 1 + 1, SubSeq(vs, 1, k + 1 + 1), D, G)
    OBVIOUS
  <2> DEFINE m == k + 1
  <2>1. m \in Nat \ {0} /\ m + 1 \in 1..n /\ m <= n
    BY <1>2
  <2>2. ArrayAt(h[m], p, m, SubSeq(vs, 1, m), D, G)
    BY <1>4, <2>1
  <2>3. h[m + 1] = steps[m + 1][h[m]]
    <3>1. m + 1 - 1 = m
      BY <2>1
    <3> QED BY <1>1, <2>1, <3>1
  <2> HIDE DEF m, E, begun
  <2>4. ArrayAt(steps[m + 1][h[m]], p, m + 1, Append(SubSeq(vs, 1, m), vs[m + 1]), D, G)
    BY <2>1, <2>2, ArrayGoesOn
  <2>5. SubSeq(vs, 1, m + 1) = Append(SubSeq(vs, 1, m), vs[m + 1])
    BY <2>1
  <2>6. ArrayAt(h[m + 1], p, m + 1, SubSeq(vs, 1, m + 1), D, G)
    BY <2>3, <2>4, <2>5
  <2> QED BY <2>6 DEF m
<1> HIDE DEF E
<1>5. Nat \subseteq E
  BY <1>3, <1>4, SetInduction
<1>6. n - 1 \in E /\ n - 1 \in Nat /\ (n - 1) + 1 = n
  BY <1>2, <1>5
<1>7. ArrayAt(h[n], p, n, SubSeq(vs, 1, n), D, G)
  BY <1>6 DEF E
<1>10. SubSeq(vs, 1, n) = vs
  OBVIOUS
<1> HIDE DEF begun
<1> QED BY <1>1, <1>7, <1>10 DEF begun

-----------------------------------------------------------------------------
LEMMA ObjectBegun ==
    ASSUME NEW D, NEW G, IsGreatest(G, Written, D), NEW p \in Writers, NEW f, NEW name, NEW v,
           MemberWritten(f, name, v, p, G, p.out \o <<Left>>, 0)
    PROVE  ObjectAt(f[InContainer(p, FALSE, p.out \o <<Left>>, 0)], p, 1, <<<<name, v>>>>, D, G)
<1>1. PICK k \in Seq(Elements), t \in Seq(Elements) :
        /\ Means(k, name) \in G.names /\ Means(t, v) \in G.values
        /\ f[InContainer(p, FALSE, p.out \o <<Left>>, 0)]
             = InContainer(p, FALSE, (p.out \o <<Left>>) \o (Between(FALSE, 0) \o Member(k, t)), 0 + 2)
  BY DEF MemberWritten
<1>2. MembersPut(Cons(Left, Member(k, t)), <<<<name, v>>>>, D, G)
  BY <1>1, MembersFirst
<1>3. Left \in Elements /\ Member(k, t) \in Seq(Elements)
  BY <1>1, ElementsAre, MemberTexts
<1>4. <<Left>> \in Seq(Elements) /\ p.out \in Seq(Elements)
  BY <1>3, WriterIs
<1>5. Regroups(p.out, <<Left>>, Member(k, t))
  BY <1>3, <1>4, Regroup
<1>6. Between(FALSE, 0) \o Member(k, t) = Member(k, t)
  <2> DEFINE m == Member(k, t)
  <2>1. m \in Seq(Elements)
    BY <1>3
  <2> HIDE DEF m
  <2>2. Between(FALSE, 0) \o m = m
    BY <2>1 DEF Between
  <2> QED BY <2>2 DEF m
<1>7. (p.out \o <<Left>>) \o (Between(FALSE, 0) \o Member(k, t)) = p.out \o Cons(Left, Member(k, t))
  BY <1>5, <1>6, Zenon DEF Regroups, Cons
<1>8. 0 + 2 = 2 * 1
  OBVIOUS
<1> QED BY <1>1, <1>2, <1>7, <1>8 DEF ObjectAt

LEMMA ObjectGoesOn ==
    ASSUME NEW D, NEW G, IsGreatest(G, Written, D), NEW p \in Writers, NEW f, NEW name, NEW v,
           \A o \in Seq(Elements), c \in Nat :
              c % 2 = 0 => MemberWritten(f, name, v, p, G, o, c),
           NEW w, NEW k \in Nat \ {0}, NEW s, ObjectAt(w, p, k, s, D, G)
    PROVE  ObjectAt(f[w], p, k + 1, Append(s, <<name, v>>), D, G)
<1>1. PICK y : MembersPut(y, s, D, G) /\ w = InContainer(p, FALSE, p.out \o y, 2 * k)
  BY DEF ObjectAt
<1>2. y \in Seq(Elements) /\ p.out \in Seq(Elements) /\ p.out \o y \in Seq(Elements)
  BY <1>1, WriterIs DEF MembersPut
<1>3. MemberWritten(f, name, v, p, G, p.out \o y, 2 * k)
  <2>1. 2 * k \in Nat /\ (2 * k) % 2 = 0
    OBVIOUS
  <2> QED BY <1>2, <2>1
<1>4. PICK n \in Seq(Elements), t \in Seq(Elements) :
        /\ Means(n, name) \in G.names /\ Means(t, v) \in G.values
        /\ f[w] = InContainer(p, FALSE, (p.out \o y) \o (Between(FALSE, 2 * k) \o Member(n, t)),
                              2 * k + 2)
  BY <1>1, <1>3 DEF MemberWritten
<1> DEFINE m == Member(n, t)
<1>5. MembersPut(y \o Cons(",", m), Append(s, <<name, v>>), D, G)
  BY <1>1, <1>4, MembersMore
<1>6. m \in Seq(Elements)
  BY <1>4, MemberTexts
<1> HIDE DEF m
<1>7. Between(FALSE, 2 * k) \o m = Cons(",", m)
  <2>1. 2 * k # 0 /\ (2 * k) % 2 = 0
    OBVIOUS
  <2> QED BY <2>1 DEF Between, Cons
<1>8. Cons(",", m) \in Seq(Elements)
  BY <1>6, ElementsAre, ConsType
<1>9. Regroups(p.out, y, Cons(",", m))
  BY <1>2, <1>8, Regroup
<1>10. (p.out \o y) \o (Between(FALSE, 2 * k) \o m) = p.out \o (y \o Cons(",", m))
  BY <1>7, <1>9, Zenon DEF Regroups
<1>11. 2 * k + 2 = 2 * (k + 1)
  OBVIOUS
<1>12. f[w] = InContainer(p, FALSE, p.out \o (y \o Cons(",", m)), 2 * (k + 1))
  BY <1>4, <1>10, <1>11 DEF m
<1> QED BY <1>5, <1>12 DEF ObjectAt

\* The members of an object, all of them.
LEMMA MembersLoop ==
    ASSUME NEW D, NEW G, IsGreatest(G, Written, D), NEW p \in Writers, NEW S, NEW steps \in Seq(S),
           NEW ms \in Seq(Seq(Written) \X D), Len(ms) = Len(steps), steps # <<>>,
           \A i \in 1..Len(steps) : \A o \in Seq(Elements), c \in Nat :
              c % 2 = 0 => MemberWritten(steps[i], ms[i][1], ms[i][2], p, G, o, c)
    PROVE  ObjectAt(InTurn(steps, InContainer(p, FALSE, p.out \o <<Left>>, 0)), p, Len(steps),
                    ms, D, G)
<1> DEFINE begun == InContainer(p, FALSE, p.out \o <<Left>>, 0)
           n == Len(steps)
<1>8. PICK b : b = begun
  OBVIOUS
<1>9. PICK h : /\ InTurn(steps, b) = h[n] /\ h[0] = b
               /\ \A i \in 1..n : h[i] = steps[i][h[i - 1]]
  <2>1. \E h : /\ InTurn(steps, b) = h[Len(steps)] /\ h[0] = b
                /\ \A i \in 1..Len(steps) : h[i] = steps[i][h[i - 1]]
    BY ONLY steps \in Seq(S), TurnValues
  <2> QED BY <2>1
<1>1. /\ InTurn(steps, begun) = h[n] /\ h[0] = begun
      /\ \A i \in 1..n : h[i] = steps[i][h[i - 1]]
  BY <1>8, <1>9, Zenon
<1>2. n \in Nat \ {0}
  BY EmptySeq
<1>0. \A i \in 1..n : ms[i] = <<ms[i][1], ms[i][2]>>
  <2>1. \A i \in 1..n : ms[i] \in Seq(Written) \X D
    OBVIOUS
  <2> QED BY <2>1
<1> DEFINE E == {k \in Nat : k + 1 <= n => ObjectAt(h[k + 1], p, k + 1, SubSeq(ms, 1, k + 1), D, G)}
<1>3. 0 \in E
  <2>1. p.out \o <<Left>> \in Seq(Elements)
    <3>1. Left \in Elements /\ p.out \in Seq(Elements)
      BY ElementsAre, WriterIs
    <3> QED BY <3>1
  <2>2. 1 \in 1..n /\ 0 % 2 = 0
    BY <1>2
  <2>3. MemberWritten(steps[1], ms[1][1], ms[1][2], p, G, p.out \o <<Left>>, 0)
    BY <2>1, <2>2
  <2>4. ObjectAt(steps[1][begun], p, 1, <<<<ms[1][1], ms[1][2]>>>>, D, G)
    BY <2>2, <2>3, ObjectBegun
  <2>5. SubSeq(ms, 1, 1) = <<ms[1]>>
    BY <1>2, FirstAlone
  <2>6. h[1] = steps[1][begun]
    <3>1. h[1] = steps[1][h[1 - 1]] /\ 1 - 1 = 0
      BY <1>1, <2>2
    <3> QED BY <1>1, <3>1
  <2>7. 0 + 1 = 1
    OBVIOUS
  <2>8. <<<<ms[1][1], ms[1][2]>>>> = <<ms[1]>>
    BY <1>0, <2>2
  <2> HIDE DEF begun
  <2> QED BY <2>4, <2>5, <2>6, <2>7, <2>8
<1>4. ASSUME NEW k \in Nat, k \in E
      PROVE  k + 1 \in E
  <2> SUFFICES ASSUME k + 1 + 1 <= n
               PROVE  ObjectAt(h[k + 1 + 1], p, k + 1 + 1, SubSeq(ms, 1, k + 1 + 1), D, G)
    OBVIOUS
  <2> DEFINE m == k + 1
  <2>1. m \in Nat \ {0} /\ m + 1 \in 1..n /\ m <= n
    BY <1>2
  <2>2. ObjectAt(h[m], p, m, SubSeq(ms, 1, m), D, G)
    BY <1>4, <2>1
  <2>3. h[m + 1] = steps[m + 1][h[m]]
    <3>1. m + 1 - 1 = m
      BY <2>1
    <3> QED BY <1>1, <2>1, <3>1
  <2> HIDE DEF m, E, begun
  <2>4. ObjectAt(steps[m + 1][h[m]], p, m + 1,
                 Append(SubSeq(ms, 1, m), <<ms[m + 1][1], ms[m + 1][2]>>), D, G)
    BY <2>1, <2>2, ObjectGoesOn
  <2>5. SubSeq(ms, 1, m + 1) = Append(SubSeq(ms, 1, m), <<ms[m + 1][1], ms[m + 1][2]>>)
    <3>1. SubSeq(ms, 1, m + 1) = Append(SubSeq(ms, 1, m), ms[m + 1])
      BY <2>1
    <3>2. ms[m + 1] = <<ms[m + 1][1], ms[m + 1][2]>>
      BY <1>0, <2>1
    <3> QED BY <3>1, <3>2, Zenon
  <2>6. ObjectAt(h[m + 1], p, m + 1, SubSeq(ms, 1, m + 1), D, G)
    BY <2>3, <2>4, <2>5
  <2> QED BY <2>6 DEF m
<1> HIDE DEF E
<1>5. Nat \subseteq E
  BY <1>3, <1>4, SetInduction
<1>6. n - 1 \in E /\ n - 1 \in Nat /\ (n - 1) + 1 = n
  BY <1>2, <1>5
<1>7. ObjectAt(h[n], p, n, SubSeq(ms, 1, n), D, G)
  BY <1>6 DEF E
<1>10. SubSeq(ms, 1, n) = ms
  OBVIOUS
<1> HIDE DEF begun
<1> QED BY <1>1, <1>7, <1>10 DEF begun

-----------------------------------------------------------------------------
(* JsonValues and Accept, at one depth.                                    *)

\* The values that have no more containers in one another than inner ones, and one.
ValuesOver(depth, inner) ==
    ({"null", "true", "false"} \X {<<>>})
    \union ({"string", "number"} \X Seq(Characters))
    \union ({"array"} \X Seq(inner))
    \union ({"object"} \X Seq(Seq(Characters) \X inner))

IsValues(n, h) ==
    h = [i \in 0..n |-> ValuesOver(i, IF i = 0 THEN {} ELSE h[i - 1])]

LEMMA ValuesExist ==
    ASSUME NEW n \in Nat
    PROVE  \E h : IsValues(n, h)
<1> DEFINE E == {m \in Nat : \E h : IsValues(m, h)}
<1>1. 0 \in E
  <2> DEFINE h == [i \in 0..0 |-> ValuesOver(0, {})]
  <2>1. h = [i \in 0..0 |-> ValuesOver(i, IF i = 0 THEN {} ELSE h[i - 1])]
    <3>1. \A i \in 0..0 : i = 0
      OBVIOUS
    <3> QED BY <3>1
  <2> HIDE DEF h
  <2> QED BY <2>1 DEF IsValues
<1>2. ASSUME NEW m \in Nat, m \in E
      PROVE  m + 1 \in E
  <2>1. PICK h : IsValues(m, h)
    BY <1>2
  <2>2. \A i \in 0..m : h[i] = ValuesOver(i, IF i = 0 THEN {} ELSE h[i - 1])
    BY <2>1, Zenon DEF IsValues
  <2> DEFINE k == [i \in 0..(m + 1) |-> IF i <= m THEN h[i] ELSE ValuesOver(m + 1, h[m])]
  <2>3. ASSUME NEW i \in 0..(m + 1)
        PROVE  k[i] = ValuesOver(i, IF i = 0 THEN {} ELSE k[i - 1])
    <3>1. CASE i <= m
      <4>1. k[i] = h[i] /\ i \in 0..m
        BY <3>1
      <4>2. i # 0 => i - 1 \in 0..(m + 1) /\ i - 1 <= m /\ k[i - 1] = h[i - 1]
        BY <3>1
      <4> HIDE DEF k
      <4> QED BY <2>2, <4>1, <4>2, Zenon
    <3>2. CASE ~(i <= m)
      <4>1. i = m + 1 /\ i # 0 /\ i - 1 = m
        BY <3>2
      <4>2. k[i] = ValuesOver(m + 1, h[m]) /\ k[m] = h[m]
        BY <4>1
      <4> HIDE DEF k
      <4> QED BY <4>1, <4>2, Zenon
    <3> QED BY <3>1, <3>2
  <2>4. k = [i \in 0..(m + 1) |-> ValuesOver(i, IF i = 0 THEN {} ELSE k[i - 1])]
    BY <2>3, Zenon
  <2> HIDE DEF k
  <2>5. IsValues(m + 1, k)
    BY <2>4 DEF IsValues
  <2> QED BY <2>5
<1> HIDE DEF E
<1>3. Nat \subseteq E
  BY <1>1, <1>2, SetInduction
<1>4. n \in E
  BY <1>3
<1> QED BY <1>4 DEF E

LEMMA ValuesAgree ==
    ASSUME NEW n \in Nat, NEW m \in Nat, m <= n, NEW h, IsValues(n, h), NEW k, IsValues(m, k)
    PROVE  h[m] = k[m]
<1>1. \A i \in 0..n : h[i] = ValuesOver(i, IF i = 0 THEN {} ELSE h[i - 1])
  BY Zenon DEF IsValues
<1>2. \A i \in 0..m : k[i] = ValuesOver(i, IF i = 0 THEN {} ELSE k[i - 1])
  BY Zenon DEF IsValues
<1> DEFINE E == {i \in Nat : i <= m => h[i] = k[i]}
<1>3. 0 \in E
  <2>1. 0 \in 0..n /\ 0 \in 0..m
    OBVIOUS
  <2>2. h[0] = k[0]
    BY <1>1, <1>2, <2>1, Zenon
  <2> QED BY <2>2
<1>4. ASSUME NEW i \in Nat, i \in E
      PROVE  i + 1 \in E
  <2> SUFFICES ASSUME i + 1 <= m
               PROVE  h[i + 1] = k[i + 1]
    OBVIOUS
  <2>1. PICK j \in Nat : j = i + 1
    OBVIOUS
  <2>2. j \in 0..n /\ j \in 0..m /\ j # 0 /\ j - 1 = i
    BY <2>1
  <2>3. h[i] = k[i]
    BY <1>4
  <2>4. h[j] = ValuesOver(j, h[j - 1])
    BY <1>1, <2>2, Zenon
  <2>5. k[j] = ValuesOver(j, k[j - 1])
    BY <1>2, <2>2, Zenon
  <2>6. h[j - 1] = k[j - 1]
    BY <2>2, <2>3
  <2> QED BY <2>1, <2>4, <2>5, <2>6, Zenon
<1> HIDE DEF E
<1>5. Nat \subseteq E
  BY <1>3, <1>4, SetInduction
<1>6. m \in E
  BY <1>5
<1> QED BY <1>6 DEF E

LEMMA JsonValuesIs ==
    JsonValues = [n \in Nat |-> ValuesOver(n, IF n = 0 THEN {} ELSE JsonValues[n - 1])]
<1> DEFINE a(n) == CHOOSE h : IsValues(n, h)
           f == [n \in Nat |-> a(n)[n]]
<1>1. \A n \in Nat : IsValues(n, a(n))
  BY ValuesExist, Zenon
<1> HIDE DEF a
<1>2. ASSUME NEW n \in Nat
      PROVE  f[n] = ValuesOver(n, IF n = 0 THEN {} ELSE f[n - 1])
  <2>1. IsValues(n, a(n)) /\ n \in 0..n
    BY <1>1
  <2>2. a(n)[n] = ValuesOver(n, IF n = 0 THEN {} ELSE a(n)[n - 1])
    BY <2>1, Zenon DEF IsValues
  <2>3. ASSUME n # 0
        PROVE  a(n)[n - 1] = f[n - 1]
    <3>1. n - 1 \in Nat /\ n - 1 <= n
      BY <2>3
    <3>2. IsValues(n - 1, a(n - 1))
      BY <1>1, <3>1
    <3>3. PICK m \in Nat : m = n - 1
      BY <3>1
    <3>4. a(n)[m] = a(m)[m]
      <4>1. IsValues(m, a(m)) /\ m <= n
        BY <3>1, <3>2, <3>3
      <4> QED BY <2>1, <4>1, ValuesAgree
    <3> QED BY <3>3, <3>4
  <2> QED BY <2>2, <2>3, Zenon
<1>3. f = [n \in Nat |-> ValuesOver(n, IF n = 0 THEN {} ELSE f[n - 1])]
  BY <1>2, Zenon
<1> HIDE DEF f
<1>4. JsonValues = CHOOSE g : g = [n \in Nat |-> ValuesOver(n, IF n = 0 THEN {} ELSE g[n - 1])]
  BY Zenon DEF JsonValues, ValuesOver
<1> QED BY <1>3, <1>4, Zenon

-----------------------------------------------------------------------------
MemberStep(inner, m) == [w \in Writers |-> inner[m[2]][String(w, m[1])]]

Events(inner, w, kind, of) ==
    CASE kind = "array"  ->
           EndArray(InTurn([i \in DOMAIN of |-> inner[of[i]]], StartArray(w)))
      [] kind = "object" ->
           EndObject(InTurn([i \in DOMAIN of |-> MemberStep(inner, of[i])], StartObject(w)))
      [] OTHER           -> scalar(w, kind, of)

AcceptOver(depth, inner) ==
    [value \in JsonValues[depth] |-> [w \in Writers |-> Events(inner, w, value[1], value[2])]]

IsAccepts(n, h) ==
    h = [i \in 0..n |-> AcceptOver(i, IF i = 0 THEN <<>> ELSE h[i - 1])]

LEMMA AcceptsExist ==
    ASSUME NEW n \in Nat
    PROVE  \E h : IsAccepts(n, h)
<1> DEFINE E == {m \in Nat : \E h : IsAccepts(m, h)}
<1>1. 0 \in E
  <2> DEFINE h == [i \in 0..0 |-> AcceptOver(0, <<>>)]
  <2>1. h = [i \in 0..0 |-> AcceptOver(i, IF i = 0 THEN <<>> ELSE h[i - 1])]
    <3>1. \A i \in 0..0 : i = 0
      OBVIOUS
    <3> QED BY <3>1
  <2> HIDE DEF h
  <2> QED BY <2>1 DEF IsAccepts
<1>2. ASSUME NEW m \in Nat, m \in E
      PROVE  m + 1 \in E
  <2>1. PICK h : IsAccepts(m, h)
    BY <1>2
  <2>2. \A i \in 0..m : h[i] = AcceptOver(i, IF i = 0 THEN <<>> ELSE h[i - 1])
    BY <2>1, Zenon DEF IsAccepts
  <2> DEFINE k == [i \in 0..(m + 1) |-> IF i <= m THEN h[i] ELSE AcceptOver(m + 1, h[m])]
  <2>3. ASSUME NEW i \in 0..(m + 1)
        PROVE  k[i] = AcceptOver(i, IF i = 0 THEN <<>> ELSE k[i - 1])
    <3>1. CASE i <= m
      <4>1. k[i] = h[i] /\ i \in 0..m
        BY <3>1
      <4>2. i # 0 => i - 1 \in 0..(m + 1) /\ i - 1 <= m /\ k[i - 1] = h[i - 1]
        BY <3>1
      <4> HIDE DEF k
      <4> QED BY <2>2, <4>1, <4>2, Zenon
    <3>2. CASE ~(i <= m)
      <4>1. i = m + 1 /\ i # 0 /\ i - 1 = m
        BY <3>2
      <4>2. k[i] = AcceptOver(m + 1, h[m]) /\ k[m] = h[m]
        BY <4>1
      <4> HIDE DEF k
      <4> QED BY <4>1, <4>2, Zenon
    <3> QED BY <3>1, <3>2
  <2>4. k = [i \in 0..(m + 1) |-> AcceptOver(i, IF i = 0 THEN <<>> ELSE k[i - 1])]
    BY <2>3, Zenon
  <2> HIDE DEF k
  <2>5. IsAccepts(m + 1, k)
    BY <2>4 DEF IsAccepts
  <2> QED BY <2>5
<1> HIDE DEF E
<1>3. Nat \subseteq E
  BY <1>1, <1>2, SetInduction
<1>4. n \in E
  BY <1>3
<1> QED BY <1>4 DEF E

LEMMA AcceptsAgree ==
    ASSUME NEW n \in Nat, NEW m \in Nat, m <= n, NEW h, IsAccepts(n, h), NEW k, IsAccepts(m, k)
    PROVE  h[m] = k[m]
<1>1. \A i \in 0..n : h[i] = AcceptOver(i, IF i = 0 THEN <<>> ELSE h[i - 1])
  BY Zenon DEF IsAccepts
<1>2. \A i \in 0..m : k[i] = AcceptOver(i, IF i = 0 THEN <<>> ELSE k[i - 1])
  BY Zenon DEF IsAccepts
<1> DEFINE E == {i \in Nat : i <= m => h[i] = k[i]}
<1>3. 0 \in E
  <2>1. 0 \in 0..n /\ 0 \in 0..m
    OBVIOUS
  <2>2. h[0] = k[0]
    BY <1>1, <1>2, <2>1, Zenon
  <2> QED BY <2>2
<1>4. ASSUME NEW i \in Nat, i \in E
      PROVE  i + 1 \in E
  <2> SUFFICES ASSUME i + 1 <= m
               PROVE  h[i + 1] = k[i + 1]
    OBVIOUS
  <2>1. PICK j \in Nat : j = i + 1
    OBVIOUS
  <2>2. j \in 0..n /\ j \in 0..m /\ j # 0 /\ j - 1 = i
    BY <2>1
  <2>3. h[i] = k[i]
    BY <1>4
  <2>4. h[j] = AcceptOver(j, h[j - 1])
    BY <1>1, <2>2, Zenon
  <2>5. k[j] = AcceptOver(j, k[j - 1])
    BY <1>2, <2>2, Zenon
  <2>6. h[j - 1] = k[j - 1]
    BY <2>2, <2>3
  <2> QED BY <2>1, <2>4, <2>5, <2>6, Zenon
<1> HIDE DEF E
<1>5. Nat \subseteq E
  BY <1>3, <1>4, SetInduction
<1>6. m \in E
  BY <1>5
<1> QED BY <1>6 DEF E

LEMMA AcceptIs ==
    Accept = [n \in Nat |-> AcceptOver(n, IF n = 0 THEN <<>> ELSE Accept[n - 1])]
<1> DEFINE a(n) == CHOOSE h : IsAccepts(n, h)
           f == [n \in Nat |-> a(n)[n]]
<1>1. \A n \in Nat : IsAccepts(n, a(n))
  BY AcceptsExist, Zenon
<1> HIDE DEF a
<1>2. ASSUME NEW n \in Nat
      PROVE  f[n] = AcceptOver(n, IF n = 0 THEN <<>> ELSE f[n - 1])
  <2>1. IsAccepts(n, a(n)) /\ n \in 0..n
    BY <1>1
  <2>2. a(n)[n] = AcceptOver(n, IF n = 0 THEN <<>> ELSE a(n)[n - 1])
    BY <2>1, Zenon DEF IsAccepts
  <2>3. ASSUME n # 0
        PROVE  a(n)[n - 1] = f[n - 1]
    <3>1. n - 1 \in Nat /\ n - 1 <= n
      BY <2>3
    <3>2. IsAccepts(n - 1, a(n - 1))
      BY <1>1, <3>1
    <3>3. PICK m \in Nat : m = n - 1
      BY <3>1
    <3>4. a(n)[m] = a(m)[m]
      <4>1. IsAccepts(m, a(m)) /\ m <= n
        BY <3>1, <3>2, <3>3
      <4> QED BY <2>1, <4>1, AcceptsAgree
    <3> QED BY <3>3, <3>4
  <2> QED BY <2>2, <2>3, Zenon
<1>3. f = [n \in Nat |-> AcceptOver(n, IF n = 0 THEN <<>> ELSE f[n - 1])]
  BY <1>2, Zenon
<1> HIDE DEF f
<1>4. Accept = CHOOSE g : g = [n \in Nat |-> AcceptOver(n, IF n = 0 THEN <<>> ELSE g[n - 1])]
  BY Zenon DEF Accept, AcceptOver, Events, MemberStep
<1> QED BY <1>3, <1>4, Zenon

-----------------------------------------------------------------------------
(* Stringed, at one depth.                                                 *)

StringOf(inner, kind, of) ==
    CASE kind = "number" -> <<"string", of>>
      [] kind = "array"  -> <<kind, [i \in DOMAIN of |-> inner[of[i]]]>>
      [] kind = "object" ->
           <<kind, [i \in DOMAIN of |-> <<of[i][1], inner[of[i][2]]>>]>>
      [] OTHER           -> <<kind, of>>

StringedOver(depth, inner) ==
    [value \in JsonValues[depth] |-> StringOf(inner, value[1], value[2])]

IsStringeds(n, h) ==
    h = [i \in 0..n |-> StringedOver(i, IF i = 0 THEN <<>> ELSE h[i - 1])]

LEMMA StringedsExist ==
    ASSUME NEW n \in Nat
    PROVE  \E h : IsStringeds(n, h)
<1> DEFINE E == {m \in Nat : \E h : IsStringeds(m, h)}
<1>1. 0 \in E
  <2> DEFINE h == [i \in 0..0 |-> StringedOver(0, <<>>)]
  <2>1. h = [i \in 0..0 |-> StringedOver(i, IF i = 0 THEN <<>> ELSE h[i - 1])]
    <3>1. \A i \in 0..0 : i = 0
      OBVIOUS
    <3> QED BY <3>1
  <2> HIDE DEF h
  <2> QED BY <2>1 DEF IsStringeds
<1>2. ASSUME NEW m \in Nat, m \in E
      PROVE  m + 1 \in E
  <2>1. PICK h : IsStringeds(m, h)
    BY <1>2
  <2>2. \A i \in 0..m : h[i] = StringedOver(i, IF i = 0 THEN <<>> ELSE h[i - 1])
    BY <2>1, Zenon DEF IsStringeds
  <2> DEFINE k == [i \in 0..(m + 1) |-> IF i <= m THEN h[i] ELSE StringedOver(m + 1, h[m])]
  <2>3. ASSUME NEW i \in 0..(m + 1)
        PROVE  k[i] = StringedOver(i, IF i = 0 THEN <<>> ELSE k[i - 1])
    <3>1. CASE i <= m
      <4>1. k[i] = h[i] /\ i \in 0..m
        BY <3>1
      <4>2. i # 0 => i - 1 \in 0..(m + 1) /\ i - 1 <= m /\ k[i - 1] = h[i - 1]
        BY <3>1
      <4> HIDE DEF k
      <4> QED BY <2>2, <4>1, <4>2, Zenon
    <3>2. CASE ~(i <= m)
      <4>1. i = m + 1 /\ i # 0 /\ i - 1 = m
        BY <3>2
      <4>2. k[i] = StringedOver(m + 1, h[m]) /\ k[m] = h[m]
        BY <4>1
      <4> HIDE DEF k
      <4> QED BY <4>1, <4>2, Zenon
    <3> QED BY <3>1, <3>2
  <2>4. k = [i \in 0..(m + 1) |-> StringedOver(i, IF i = 0 THEN <<>> ELSE k[i - 1])]
    BY <2>3, Zenon
  <2> HIDE DEF k
  <2>5. IsStringeds(m + 1, k)
    BY <2>4 DEF IsStringeds
  <2> QED BY <2>5
<1> HIDE DEF E
<1>3. Nat \subseteq E
  BY <1>1, <1>2, SetInduction
<1>4. n \in E
  BY <1>3
<1> QED BY <1>4 DEF E

LEMMA StringedsAgree ==
    ASSUME NEW n \in Nat, NEW m \in Nat, m <= n, NEW h, IsStringeds(n, h), NEW k, IsStringeds(m, k)
    PROVE  h[m] = k[m]
<1>1. \A i \in 0..n : h[i] = StringedOver(i, IF i = 0 THEN <<>> ELSE h[i - 1])
  BY Zenon DEF IsStringeds
<1>2. \A i \in 0..m : k[i] = StringedOver(i, IF i = 0 THEN <<>> ELSE k[i - 1])
  BY Zenon DEF IsStringeds
<1> DEFINE E == {i \in Nat : i <= m => h[i] = k[i]}
<1>3. 0 \in E
  <2>1. 0 \in 0..n /\ 0 \in 0..m
    OBVIOUS
  <2>2. h[0] = k[0]
    BY <1>1, <1>2, <2>1, Zenon
  <2> QED BY <2>2
<1>4. ASSUME NEW i \in Nat, i \in E
      PROVE  i + 1 \in E
  <2> SUFFICES ASSUME i + 1 <= m
               PROVE  h[i + 1] = k[i + 1]
    OBVIOUS
  <2>1. PICK j \in Nat : j = i + 1
    OBVIOUS
  <2>2. j \in 0..n /\ j \in 0..m /\ j # 0 /\ j - 1 = i
    BY <2>1
  <2>3. h[i] = k[i]
    BY <1>4
  <2>4. h[j] = StringedOver(j, h[j - 1])
    BY <1>1, <2>2, Zenon
  <2>5. k[j] = StringedOver(j, k[j - 1])
    BY <1>2, <2>2, Zenon
  <2>6. h[j - 1] = k[j - 1]
    BY <2>2, <2>3
  <2> QED BY <2>1, <2>4, <2>5, <2>6, Zenon
<1> HIDE DEF E
<1>5. Nat \subseteq E
  BY <1>3, <1>4, SetInduction
<1>6. m \in E
  BY <1>5
<1> QED BY <1>6 DEF E

LEMMA StringedIs ==
    Stringed = [n \in Nat |-> StringedOver(n, IF n = 0 THEN <<>> ELSE Stringed[n - 1])]
<1> DEFINE a(n) == CHOOSE h : IsStringeds(n, h)
           f == [n \in Nat |-> a(n)[n]]
<1>1. \A n \in Nat : IsStringeds(n, a(n))
  BY StringedsExist, Zenon
<1> HIDE DEF a
<1>2. ASSUME NEW n \in Nat
      PROVE  f[n] = StringedOver(n, IF n = 0 THEN <<>> ELSE f[n - 1])
  <2>1. IsStringeds(n, a(n)) /\ n \in 0..n
    BY <1>1
  <2>2. a(n)[n] = StringedOver(n, IF n = 0 THEN <<>> ELSE a(n)[n - 1])
    BY <2>1, Zenon DEF IsStringeds
  <2>3. ASSUME n # 0
        PROVE  a(n)[n - 1] = f[n - 1]
    <3>1. n - 1 \in Nat /\ n - 1 <= n
      BY <2>3
    <3>2. IsStringeds(n - 1, a(n - 1))
      BY <1>1, <3>1
    <3>3. PICK m \in Nat : m = n - 1
      BY <3>1
    <3>4. a(n)[m] = a(m)[m]
      <4>1. IsStringeds(m, a(m)) /\ m <= n
        BY <3>1, <3>2, <3>3
      <4> QED BY <2>1, <4>1, StringedsAgree
    <3> QED BY <3>3, <3>4
  <2> QED BY <2>2, <2>3, Zenon
<1>3. f = [n \in Nat |-> StringedOver(n, IF n = 0 THEN <<>> ELSE f[n - 1])]
  BY <1>2, Zenon
<1> HIDE DEF f
<1>4. Stringed = CHOOSE g : g = [n \in Nat |-> StringedOver(n, IF n = 0 THEN <<>> ELSE g[n - 1])]
  BY Zenon DEF Stringed, StringedOver, StringOf
<1> QED BY <1>3, <1>4, Zenon

-----------------------------------------------------------------------------
(* What a function of writers puts out.                                    *)

\* What a function of writers puts out is a text of the value.
PutsOut(r, w, v, G) ==
    \E t \in Seq(Elements) : Means(t, v) \in G.values /\ r = Put(Prefix(w, FALSE), t)

Writes(f, v, G) == \A w : Takes(w) => PutsOut(f[w], w, v, G)

LEMMA StringPuts ==
    ASSUME NEW D, NEW G, IsGreatest(G, Written, D), NEW s \in Seq(Characters),
           <<"string", s>> \in D, NEW w, Takes(w)
    PROVE  PutsOut(String(w, s), w, <<"string", s>>, G)
<1>1. Quoted(s) \in Seq(Elements) /\ Means(Quoted(s), s) \in G.names
  BY QuotedReads
<1>2. Means(Quoted(s), <<"string", s>>) \in G.values
  <2>1. PICK k \in G.names : k = Means(Quoted(s), s)
    BY <1>1
  <2>2. k.value = s /\ k.text = Quoted(s)
    BY <2>1 DEF Means
  <2>3. Means(k.text, <<"string", k.value>>) \in G.values
    BY <2>2, ValueName
  <2> QED BY <2>2, <2>3
<1>3. String(w, s) = Put(Prefix(w, TRUE), Quoted(s))
  BY Zenon DEF String, Quoted, Escaped
<1>4. Prefix(w, TRUE) = Prefix(w, FALSE)
  BY TakesPrefix
<1> QED BY <1>1, <1>2, <1>3, <1>4, Zenon DEF PutsOut

LEMMA LiteralPuts ==
    ASSUME NEW D, NEW G, IsGreatest(G, Written, D), NEW l \in Literals, <<l, <<>>>> \in D, NEW w
    PROVE  PutsOut(Literal(w, l), w, <<l, <<>>>>, G)
<1>1. Means(<<l>>, <<l, <<>>>>) \in G.values
  BY ValueLiteral
<1>2. <<l>> \in Seq(Elements)
  <2>1. l \in Elements
    BY Zenon DEF Literals, Elements
  <2> QED BY <2>1
<1> QED BY <1>1, <1>2, Zenon DEF PutsOut, Literal

LEMMA ElementByValue ==
    ASSUME NEW G, NEW f, NEW v, Writes(f, v, G), NEW p \in Writers,
           NEW o \in Seq(Elements), NEW c \in Nat
    PROVE  ElementWritten(f, v, p, G, o, c)
<1> DEFINE w == InContainer(p, TRUE, o, c)
           b == Between(TRUE, c)
<1>1. Takes(w)
  BY DEF Takes
<1>2. PICK t \in Seq(Elements) : Means(t, v) \in G.values /\ f[w] = Put(Prefix(w, FALSE), t)
  BY <1>1 DEF Writes, PutsOut
<1>3. b \in Seq(Elements)
  BY BetweenType
<1>4. Prefix(w, FALSE) = InContainer(p, TRUE, o \o b, c + 1)
  BY PrefixInContainer
<1>5. f[w] = InContainer(p, TRUE, (o \o b) \o t, c + 1)
  <2>1. PICK y, d, a : y = o \o b /\ d = c + 1 /\ a = TRUE
    OBVIOUS
  <2>2. Put(InContainer(p, a, y, d), t) = InContainer(p, a, y \o t, d)
    BY PutInContainer
  <2> HIDE DEF w, b
  <2> QED BY <1>2, <1>4, <2>1, <2>2, Zenon
<1> HIDE DEF b
<1>6. Regroups(o, b, t)
  BY <1>3, Regroup
<1>7. f[w] = InContainer(p, TRUE, o \o (b \o t), c + 1)
  BY <1>5, <1>6, Zenon DEF Regroups
<1> QED BY <1>2, <1>7 DEF ElementWritten, b

LEMMA MemberByValue ==
    ASSUME NEW D, NEW G, IsGreatest(G, Written, D), NEW f, NEW g, NEW v, Writes(g, v, G),
           NEW name \in Seq(Characters),
           \A w \in Writers : f[w] = g[String(w, name)],
           NEW p \in Writers, NEW o \in Seq(Elements), NEW c \in Nat, c % 2 = 0
    PROVE  MemberWritten(f, name, v, p, G, o, c)
<1> DEFINE w == InContainer(p, FALSE, o, c)
           b == Between(FALSE, c)
           q == Quoted(name)
<1>1. w \in Writers
  BY InContainerType
<1>2. q \in Seq(Elements) /\ Means(q, name) \in G.names
  BY QuotedReads
<1>3. b \in Seq(Elements) /\ o \o b \in Seq(Elements)
  <2>1. b \in Seq(Elements)
    BY BetweenType
  <2> HIDE DEF b
  <2> QED BY <2>1
<1>4. Prefix(w, TRUE) = InContainer(p, FALSE, o \o b, c + 1)
  BY PrefixInContainer
<1>5. String(w, name) = Put(Prefix(w, TRUE), q)
  BY Zenon DEF String, Quoted, Escaped
<1> HIDE DEF b, q
<1>6. String(w, name) = InContainer(p, FALSE, (o \o b) \o q, c + 1)
  <2>1. PICK y, d, a : y = o \o b /\ d = c + 1 /\ a = FALSE
    OBVIOUS
  <2>2. Put(InContainer(p, a, y, d), q) = InContainer(p, a, y \o q, d)
    BY PutInContainer
  <2> HIDE DEF w
  <2> QED BY <1>4, <1>5, <2>1, <2>2, Zenon
<1> DEFINE x == (o \o b) \o q
           u == InContainer(p, FALSE, x, c + 1)
<1>7. x \in Seq(Elements) /\ c + 1 \in Nat /\ (c + 1) % 2 = 1
  BY <1>2, <1>3
<1> HIDE DEF x
<1>8. Takes(u)
  BY <1>7 DEF Takes
<1>9. PICK t \in Seq(Elements) : Means(t, v) \in G.values /\ g[u] = Put(Prefix(u, FALSE), t)
  BY <1>8 DEF Writes, PutsOut
<1>10. Between(FALSE, c + 1) = <<":">>
  <2>1. c + 1 # 0 /\ (c + 1) % 2 # 0
    BY <1>7
  <2> QED BY <2>1, Zenon DEF Between
<1>11. Prefix(u, FALSE) = InContainer(p, FALSE, x \o <<":">>, c + 1 + 1)
  BY <1>7, <1>10, PrefixInContainer
<1>12. f[w] = InContainer(p, FALSE, (x \o <<":">>) \o t, c + 1 + 1)
  <2>1. f[w] = g[u]
    BY <1>1, <1>6, Zenon DEF x
  <2> HIDE DEF u
  <2>2. PICK y, d, a : y = x \o <<":">> /\ d = c + 1 + 1 /\ a = FALSE
    OBVIOUS
  <2>3. Put(InContainer(p, a, y, d), t) = InContainer(p, a, y \o t, d)
    BY PutInContainer
  <2> HIDE DEF w
  <2> QED BY <2>1, <1>9, <1>11, <2>2, <2>3, Zenon
<1> DEFINE m == <<":">> \o t
<1>13. <<":">> \in Seq(Elements)
  <2>1. ":" \in Elements
    BY ElementsAre
  <2> QED BY <2>1
<1>14. m \in Seq(Elements) /\ q \o m \in Seq(Elements)
  BY <1>2, <1>13
<1>15. (x \o <<":">>) \o t = x \o m
  <2>1. Regroups(x, <<":">>, t)
    BY <1>7, <1>13, Regroup
  <2> QED BY <2>1, Zenon DEF Regroups
<1> HIDE DEF m
<1>16. x \o m = o \o (b \o (q \o m))
  <2>1. Regroups(o \o b, q, m)
    BY <1>2, <1>3, <1>14, Regroup
  <2>2. Regroups(o, b, q \o m)
    BY <1>3, <1>14, Regroup
  <2> QED BY <2>1, <2>2, Zenon DEF Regroups, x
<1>17. c + 1 + 1 = c + 2
  OBVIOUS
<1>18. Member(q, t) = q \o m
  BY Zenon DEF Member, Cons, m
<1>19. f[w] = InContainer(p, FALSE, o \o (b \o Member(q, t)), c + 2)
  BY <1>12, <1>15, <1>16, <1>17, <1>18
<1> QED BY <1>2, <1>9, <1>19 DEF MemberWritten, b

-----------------------------------------------------------------------------
(* Whole containers.                                                       *)

IsPair(a, b) == <<a>> \o <<b>> = <<a, b>>

LEMMA Pairing ==
    ASSUME NEW S, NEW a \in S, NEW b \in S
    PROVE  IsPair(a, b)
<1> DEFINE x == <<a>>
           y == <<b>>
           z == <<a, b>>
<1>1. x \in Seq(S) /\ y \in Seq(S) /\ Len(x) = 1 /\ Len(y) = 1 /\ x[1] = a /\ y[1] = b
  OBVIOUS
<1>2. z \in Seq(S) /\ Len(z) = 2 /\ z[1] = a /\ z[2] = b
  OBVIOUS
<1> HIDE DEF x, y, z
<1>3. x \o y \in Seq(S) /\ Len(x \o y) = 2 /\ (x \o y)[1] = a /\ (x \o y)[2] = b
  <2>1. PICK k \in Seq(S), l \in Seq(S) : k = x /\ l = y
    BY <1>1
  <2>2. /\ k \o l \in Seq(S) /\ Len(k \o l) = Len(k) + Len(l)
        /\ \A i \in 1..(Len(k) + Len(l)) :
              (k \o l)[i] = IF i <= Len(k) THEN k[i] ELSE l[i - Len(k)]
    BY ConcatProperties
  <2>3. Len(k) = 1 /\ Len(l) = 1 /\ k[1] = a /\ l[1] = b /\ 2 - 1 = 1
    BY <1>1, <2>1
  <2>4. k \o l \in Seq(S) /\ Len(k \o l) = 2 /\ (k \o l)[1] = a /\ (k \o l)[2] = b
    BY <2>2, <2>3
  <2> QED BY <2>1, <2>4, Zenon
<1>4. x \o y = z
  BY <1>2, <1>3, SeqEqual
<1> QED BY <1>4, Zenon DEF IsPair, x, y, z

LEMMA InTurnNone ==
    ASSUME NEW begun
    PROVE  InTurn(<<>>, begun) = begun
<1>1. PICK s : s = <<>>
  OBVIOUS
<1>2. s \in Seq({}) /\ Len(s) = 0
  BY <1>1
<1>3. \E h : InTurn(s, begun) = h[Len(s)] /\ h[0] = begun
  <2>1. PICK S : S = {}
    OBVIOUS
  <2>2. s \in Seq(S)
    BY <1>2, <2>1
  <2>3. \E h : /\ InTurn(s, begun) = h[Len(s)] /\ h[0] = begun
               /\ \A i \in 1..Len(s) : h[i] = s[i][h[i - 1]]
    BY ONLY <2>2, TurnValues
  <2> QED BY <2>3
<1> QED BY <1>1, <1>2, <1>3, Zenon

\* How containers begin and end.
ArrayStarts(w, p) == StartArray(w) = InContainer(p, TRUE, p.out \o <<"[">>, 0)

ArrayEnds(p, x, count) ==
    EndArray(InContainer(p, TRUE, p.out \o x, count)) = Put(p, x \o <<"]">>)

ObjectStarts(w, p) == StartObject(w) = InContainer(p, FALSE, p.out \o <<Left>>, 0)

ObjectEnds(p, x, count) ==
    EndObject(InContainer(p, FALSE, p.out \o x, count)) = Put(p, x \o <<Right>>)

LEMMA ContainersBegin ==
    ASSUME NEW w, NEW p \in Writers, p = Prefix(w, FALSE)
    PROVE  ArrayStarts(w, p) /\ ObjectStarts(w, p)
<1>1. PICK t : t = <<"[">>
  OBVIOUS
<1>2. PICK u : u = <<Left>>
  OBVIOUS
<1>3. \A a \in BOOLEAN : \A x : Put(nest(p, a), x) = InContainer(p, a, p.out \o x, 0)
  BY NestIs
<1>4. StartArray(w) = Put(nest(p, TRUE), t)
  BY <1>1, Zenon DEF StartArray
<1>5. StartObject(w) = Put(nest(p, FALSE), u)
  BY <1>2, Zenon DEF StartObject, Left
<1>6. TRUE \in BOOLEAN /\ FALSE \in BOOLEAN
  OBVIOUS
<1>7. Put(nest(p, TRUE), t) = InContainer(p, TRUE, p.out \o t, 0)
  BY <1>3, <1>6, Zenon
<1>8. Put(nest(p, FALSE), u) = InContainer(p, FALSE, p.out \o u, 0)
  BY <1>3, <1>6, Zenon
<1>9. ArrayStarts(w, p)
  BY <1>1, <1>4, <1>7, Zenon DEF ArrayStarts
<1>10. ObjectStarts(w, p)
  BY <1>2, <1>5, <1>8, Zenon DEF ObjectStarts
<1> QED BY <1>9, <1>10

LEMMA ArrayCloses ==
    ASSUME NEW p \in Writers, NEW x \in Seq(Elements), NEW count \in Nat
    PROVE  ArrayEnds(p, x, count)
<1>1. PICK t : t = <<"]">>
  OBVIOUS
<1>2. t \in Seq(Elements)
  <2>1. "]" \in Elements
    BY ElementsAre
  <2> QED BY <1>1, <2>1
<1>3. PICK a \in BOOLEAN : a = TRUE
  OBVIOUS
<1>4. Put(unnest(InContainer(p, a, p.out \o x, count), a), t) = Put(p, x \o t)
  BY <1>2, <1>3, EndIs
<1> QED BY <1>1, <1>3, <1>4, Zenon DEF ArrayEnds, EndArray

LEMMA ObjectCloses ==
    ASSUME NEW p \in Writers, NEW x \in Seq(Elements), NEW count \in Nat, count % 2 = 0
    PROVE  ObjectEnds(p, x, count)
<1>1. PICK t : t = <<Right>>
  OBVIOUS
<1>2. t \in Seq(Elements)
  <2>1. Right \in Elements
    BY ElementsAre
  <2> QED BY <1>1, <2>1
<1>3. PICK a \in BOOLEAN : a = FALSE
  OBVIOUS
<1>4. Put(unnest(InContainer(p, a, p.out \o x, count), a), t) = Put(p, x \o t)
  BY <1>2, EndIs
<1> QED BY <1>1, <1>3, <1>4, Zenon DEF ObjectEnds, EndObject, Right

LEMMA ArrayPuts ==
    ASSUME NEW D, NEW G, IsGreatest(G, Written, D), NEW S, NEW steps \in Seq(S),
           NEW of \in Seq(D), Len(of) = Len(steps), <<"array", of>> \in D,
           \A i \in 1..Len(steps) : of[i] # Nothing /\ Writes(steps[i], of[i], G),
           NEW w, Takes(w)
    PROVE  PutsOut(EndArray(InTurn(steps, StartArray(w))), w, <<"array", of>>, G)
<1>1. PICK p \in Writers : p = Prefix(w, FALSE)
  BY TakesPrefix
<1>2. ArrayStarts(w, p)
  BY <1>1, ContainersBegin
<1>3. CASE steps = <<>>
  <2>1. of = <<>>
    BY <1>3
  <2>2. PICK x, t : x = <<"[">> /\ t = <<"[">> \o <<"]">>
    OBVIOUS
  <2>3. x \in Seq(Elements) /\ t \in Seq(Elements) /\ t = <<"[", "]">>
    <3>1. "[" \in Elements /\ "]" \in Elements
      BY ElementsAre
    <3>2. <<"[">> \in Seq(Elements) /\ <<"[", "]">> \in Seq(Elements)
      BY <3>1
    <3>4. IsPair("[", "]")
      BY <3>1, Pairing
    <3>3. <<"[">> \o <<"]">> = <<"[", "]">>
      BY <3>4, Zenon DEF IsPair
    <3> QED BY <2>2, <3>2, <3>3
  <2>4. InTurn(steps, StartArray(w)) = StartArray(w)
    BY <1>3, InTurnNone, Zenon
  <2>5. ArrayEnds(p, x, 0)
    BY <2>3, ArrayCloses
  <2>6. EndArray(InTurn(steps, StartArray(w))) = Put(p, t)
    BY <1>2, <2>2, <2>4, <2>5, Zenon DEF ArrayStarts, ArrayEnds
  <2>7. Means(t, <<"array", of>>) \in G.values
    BY <2>1, <2>3, ValueNoElements
  <2> QED BY <1>1, <2>3, <2>6, <2>7, Zenon DEF PutsOut
<1>4. CASE steps # <<>>
  <2>1. \A i \in 1..Len(steps) : \A o \in Seq(Elements), c \in Nat :
           ElementWritten(steps[i], of[i], p, G, o, c)
    BY ElementByValue
  <2>2. ArrayAt(InTurn(steps, InContainer(p, TRUE, p.out \o <<"[">>, 0)), p, Len(steps), of, D, G)
    BY <1>4, <2>1, ElementsLoop
  <2>3. ArrayAt(InTurn(steps, StartArray(w)), p, Len(steps), of, D, G)
    BY <1>2, <2>2, Zenon DEF ArrayStarts
  <2>4. PICK y : /\ ElementsPut(y, of, D, G)
                 /\ InTurn(steps, StartArray(w)) = InContainer(p, TRUE, p.out \o y, Len(steps))
    BY <2>3, Zenon DEF ArrayAt
  <2>5. y \in Seq(Elements) /\ Len(steps) \in Nat
    BY <2>4 DEF ElementsPut
  <2>6. ArrayEnds(p, y, Len(steps))
    BY <2>5, ArrayCloses
  <2>7. y \o <<"]">> \in Seq(Elements) /\ Means(y \o <<"]">>, <<"array", of>>) \in G.values
    BY <2>4, ElementsLast
  <2>8. EndArray(InTurn(steps, StartArray(w))) = Put(p, y \o <<"]">>)
    BY <2>4, <2>6, Zenon DEF ArrayEnds
  <2> QED BY <1>1, <2>7, <2>8, Zenon DEF PutsOut
<1> QED BY <1>3, <1>4

LEMMA ObjectPuts ==
    ASSUME NEW D, NEW G, IsGreatest(G, Written, D), NEW S, NEW steps \in Seq(S),
           NEW of \in Seq(Seq(Written) \X D), Len(of) = Len(steps), <<"object", of>> \in D,
           \A i \in 1..Len(steps) : \A p \in Writers, o \in Seq(Elements), c \in Nat :
              c % 2 = 0 => MemberWritten(steps[i], of[i][1], of[i][2], p, G, o, c),
           NEW w, Takes(w)
    PROVE  PutsOut(EndObject(InTurn(steps, StartObject(w))), w, <<"object", of>>, G)
<1>1. PICK p \in Writers : p = Prefix(w, FALSE)
  BY TakesPrefix
<1>2. ObjectStarts(w, p)
  BY <1>1, ContainersBegin
<1>3. CASE steps = <<>>
  <2>1. of = <<>>
    BY <1>3
  <2>2. PICK x, t : x = <<Left>> /\ t = <<Left>> \o <<Right>>
    OBVIOUS
  <2>3. x \in Seq(Elements) /\ t \in Seq(Elements) /\ t = <<Left, Right>>
    <3>1. Left \in Elements /\ Right \in Elements
      BY ElementsAre
    <3>2. <<Left>> \in Seq(Elements) /\ <<Left, Right>> \in Seq(Elements)
      BY <3>1
    <3>4. IsPair(Left, Right)
      BY <3>1, Pairing
    <3>3. <<Left>> \o <<Right>> = <<Left, Right>>
      BY <3>4, Zenon DEF IsPair
    <3> QED BY <2>2, <3>2, <3>3
  <2>4. InTurn(steps, StartObject(w)) = StartObject(w)
    BY <1>3, InTurnNone, Zenon
  <2>5. ObjectEnds(p, x, 0)
    BY <2>3, ObjectCloses
  <2>6. EndObject(InTurn(steps, StartObject(w))) = Put(p, t)
    BY <1>2, <2>2, <2>4, <2>5, Zenon DEF ObjectStarts, ObjectEnds
  <2>7. Means(t, <<"object", of>>) \in G.values
    BY <2>1, <2>3, ValueNoMembers
  <2> QED BY <1>1, <2>3, <2>6, <2>7, Zenon DEF PutsOut
<1>4. CASE steps # <<>>
  <2>1. \A i \in 1..Len(steps) : \A o \in Seq(Elements), c \in Nat :
           c % 2 = 0 => MemberWritten(steps[i], of[i][1], of[i][2], p, G, o, c)
    OBVIOUS
  <2>2. ObjectAt(InTurn(steps, InContainer(p, FALSE, p.out \o <<Left>>, 0)), p, Len(steps), of, D, G)
    BY <1>4, <2>1, MembersLoop
  <2>3. ObjectAt(InTurn(steps, StartObject(w)), p, Len(steps), of, D, G)
    BY <1>2, <2>2, Zenon DEF ObjectStarts
  <2>4. PICK y : /\ MembersPut(y, of, D, G)
                 /\ InTurn(steps, StartObject(w)) = InContainer(p, FALSE, p.out \o y, 2 * Len(steps))
    BY <2>3, Zenon DEF ObjectAt
  <2>5. y \in Seq(Elements) /\ 2 * Len(steps) \in Nat /\ (2 * Len(steps)) % 2 = 0
    BY <2>4 DEF MembersPut
  <2>6. ObjectEnds(p, y, 2 * Len(steps))
    BY <2>5, ObjectCloses
  <2>7. y \o <<Right>> \in Seq(Elements) /\ Means(y \o <<Right>>, <<"object", of>>) \in G.values
    BY <2>4, MembersLast
  <2>8. EndObject(InTurn(steps, StartObject(w))) = Put(p, y \o <<Right>>)
    BY <2>4, <2>6, Zenon DEF ObjectEnds
  <2> QED BY <1>1, <2>7, <2>8, Zenon DEF PutsOut
<1> QED BY <1>3, <1>4

-----------------------------------------------------------------------------
(* Accept puts out a text of its value.                                    *)

Inner(n) == IF n = 0 THEN {} ELSE JsonValues[n - 1]

InnerAccept(n) == IF n = 0 THEN <<>> ELSE Accept[n - 1]

LEMMA ValuesAt ==
    ASSUME NEW n \in Nat
    PROVE  JsonValues[n] = ValuesOver(n, Inner(n))
  BY JsonValuesIs, Zenon DEF Inner

LEMMA AcceptAt ==
    ASSUME NEW n \in Nat, NEW v \in JsonValues[n], NEW w \in Writers
    PROVE  Accept[n][v][w] = Events(InnerAccept(n), w, v[1], v[2])
<1>1. Accept[n] = AcceptOver(n, InnerAccept(n))
  BY AcceptIs, Zenon DEF InnerAccept
<1>2. AcceptOver(n, InnerAccept(n))[v]
         = [x \in Writers |-> Events(InnerAccept(n), x, v[1], v[2])]
  BY DEF AcceptOver
<1>3. [x \in Writers |-> Events(InnerAccept(n), x, v[1], v[2])][w]
         = Events(InnerAccept(n), w, v[1], v[2])
  OBVIOUS
<1> QED BY <1>1, <1>2, <1>3, Zenon

\* Every kind of a value.
HasKind(v, I) ==
    \/ \E l \in Literals : v = <<l, <<>>>>
    \/ \E s \in Seq(Characters) : v = <<"string", s>>
    \/ \E s \in Seq(Characters) : v = <<"number", s>>
    \/ \E of \in Seq(I) : v = <<"array", of>>
    \/ \E of \in Seq(Seq(Characters) \X I) : v = <<"object", of>>

LEMMA ValueKinds ==
    ASSUME NEW n, NEW I, NEW v \in ValuesOver(n, I)
    PROVE  HasKind(v, I)
<1>1. CASE v \in {"null", "true", "false"} \X {<<>>}
  <2>1. \E l \in {"null", "true", "false"} : v = <<l, <<>>>>
    BY <1>1
  <2>2. {"null", "true", "false"} = Literals
    BY DEF Literals
  <2> QED BY <2>1, <2>2, Zenon DEF HasKind
<1>2. CASE v \in {"string", "number"} \X Seq(Characters)
  <2>1. \E s \in Seq(Characters) : v = <<"string", s>> \/ v = <<"number", s>>
    BY <1>2
  <2> QED BY <2>1, Zenon DEF HasKind
<1>3. CASE v \in {"array"} \X Seq(I)
  <2>1. \E s \in Seq(I) : v = <<"array", s>>
    BY <1>3
  <2> QED BY <2>1, Zenon DEF HasKind
<1>4. CASE v \in {"object"} \X Seq(Seq(Characters) \X I)
  <2>1. PICK T : T = Seq(Seq(Characters) \X I)
    OBVIOUS
  <2>2. v \in {"object"} \X T
    BY <1>4, <2>1
  <2>3. \E of \in T : v = <<"object", of>>
    BY <2>2
  <2> QED BY <2>1, <2>3, Zenon DEF HasKind
<1>5. \/ v \in {"null", "true", "false"} \X {<<>>} \/ v \in {"string", "number"} \X Seq(Characters)
      \/ v \in {"array"} \X Seq(I) \/ v \in {"object"} \X Seq(Seq(Characters) \X I)
  BY Zenon DEF ValuesOver
<1> QED BY <1>1, <1>2, <1>3, <1>4, <1>5, Zenon

\* A value with its numbers as strings, for given ones of the values inside.
LEMMA StringOfTyped ==
    ASSUME NEW I, NEW J, NEW str, \A u \in I : str[u] \in J,
           NEW n, NEW v \in ValuesOver(n, I)
    PROVE  StringOf(str, v[1], v[2]) \in ValuesOver(n, J)
<1>1. ASSUME NEW l \in Literals, v = <<l, <<>>>>
      PROVE  StringOf(str, v[1], v[2]) \in ValuesOver(n, J)
  <2>1. l \notin {"number", "array", "object"}
    BY DEF Literals
  <2>2. StringOf(str, l, <<>>) = <<l, <<>>>>
    BY <2>1 DEF StringOf
  <2>3. <<l, <<>>>> \in {"null", "true", "false"} \X {<<>>}
    BY DEF Literals
  <2>4. <<l, <<>>>> \in ValuesOver(n, J)
    BY <2>3, Zenon DEF ValuesOver
  <2> QED BY <1>1, <2>2, <2>4
<1>2. ASSUME NEW s \in Seq(Characters), v = <<"string", s>> \/ v = <<"number", s>>
      PROVE  StringOf(str, v[1], v[2]) \in ValuesOver(n, J)
  <2>1. StringOf(str, "string", s) = <<"string", s>> /\ StringOf(str, "number", s) = <<"string", s>>
    BY DEF StringOf
  <2>2. <<"string", s>> \in {"string", "number"} \X Seq(Characters)
    OBVIOUS
  <2>3. <<"string", s>> \in ValuesOver(n, J)
    BY <2>2, Zenon DEF ValuesOver
  <2> QED BY <1>2, <2>1, <2>3
<1>3. ASSUME NEW of \in Seq(I), v = <<"array", of>>
      PROVE  StringOf(str, v[1], v[2]) \in ValuesOver(n, J)
  <2> DEFINE to == [i \in DOMAIN of |-> str[of[i]]]
  <2>1. DOMAIN of = 1..Len(of) /\ Len(of) \in Nat /\ \A i \in 1..Len(of) : of[i] \in I
    OBVIOUS
  <2>2. to \in Seq(J)
    BY <2>1
  <2>3. StringOf(str, "array", of) = <<"array", to>>
    BY DEF StringOf
  <2> HIDE DEF to
  <2>4. <<"array", to>> \in {"array"} \X Seq(J)
    BY <2>2
  <2>5. <<"array", to>> \in ValuesOver(n, J)
    BY <2>4, Zenon DEF ValuesOver
  <2> QED BY <1>3, <2>3, <2>5
<1>4. ASSUME NEW of \in Seq(Seq(Characters) \X I), v = <<"object", of>>
      PROVE  StringOf(str, v[1], v[2]) \in ValuesOver(n, J)
  <2> DEFINE to == [i \in DOMAIN of |-> <<of[i][1], str[of[i][2]]>>]
  <2>1. PICK T : T = Seq(Characters) \X J
    OBVIOUS
  <2>2. /\ DOMAIN of = 1..Len(of) /\ Len(of) \in Nat
        /\ \A i \in 1..Len(of) : of[i] \in Seq(Characters) \X I
    OBVIOUS
  <2>3. \A i \in 1..Len(of) : <<of[i][1], str[of[i][2]]>> \in T
    BY <2>1, <2>2
  <2>4. to \in Seq(T)
    BY <2>2, <2>3
  <2>5. StringOf(str, "object", of) = <<"object", to>>
    BY DEF StringOf
  <2> HIDE DEF to
  <2>6. PICK S : S = Seq(T)
    OBVIOUS
  <2>7. <<"object", to>> \in {"object"} \X S
    BY <2>4, <2>6
  <2>8. <<"object", to>> \in ValuesOver(n, J)
    BY <2>1, <2>6, <2>7, Zenon DEF ValuesOver
  <2> QED BY <1>4, <2>5, <2>8
<1>5. HasKind(v, I)
  BY ValueKinds
<1> QED BY <1>1, <1>2, <1>3, <1>4, <1>5, Zenon DEF HasKind

LEMMA EventsPut ==
    ASSUME NEW D, NEW G, IsGreatest(G, Written, D), NEW I, NEW inner, NEW str,
           \A u \in I : Writes(inner[u], str[u], G) /\ str[u] \in D /\ str[u] # Nothing,
           NEW n, NEW v \in ValuesOver(n, I), NEW t \in D, t = StringOf(str, v[1], v[2]),
           NEW w, Takes(w)
    PROVE  PutsOut(Events(inner, w, v[1], v[2]), w, t, G)
<1>1. ASSUME NEW l \in Literals, v = <<l, <<>>>>
      PROVE  PutsOut(Events(inner, w, v[1], v[2]), w, t, G)
  <2>1. l \notin {"string", "number", "array", "object"}
    BY DEF Literals
  <2>2. Events(inner, w, l, <<>>) = Literal(w, l)
    BY <2>1 DEF Events, scalar
  <2>3. t = <<l, <<>>>>
    BY <1>1, <2>1 DEF StringOf
  <2>4. PutsOut(Literal(w, l), w, t, G)
    BY <2>3, LiteralPuts
  <2> QED BY <1>1, <2>2, <2>4
<1>2. ASSUME NEW s \in Seq(Characters), v = <<"string", s>> \/ v = <<"number", s>>
      PROVE  PutsOut(Events(inner, w, v[1], v[2]), w, t, G)
  <2>1. Events(inner, w, "string", s) = String(w, s) /\ Events(inner, w, "number", s) = String(w, s)
    BY DEF Events, scalar
  <2>2. t = <<"string", s>>
    BY <1>2 DEF StringOf
  <2>3. PutsOut(String(w, s), w, t, G)
    BY <2>2, StringPuts
  <2> QED BY <1>2, <2>1, <2>3
<1>3. ASSUME NEW of \in Seq(I), v = <<"array", of>>
      PROVE  PutsOut(Events(inner, w, v[1], v[2]), w, t, G)
  <2> DEFINE S == {inner[u] : u \in I}
             steps == [i \in DOMAIN of |-> inner[of[i]]]
             to == [i \in DOMAIN of |-> str[of[i]]]
  <2>1. DOMAIN of = 1..Len(of) /\ Len(of) \in Nat
    OBVIOUS
  <2>2. \A i \in 1..Len(of) : of[i] \in I
    OBVIOUS
  <2>3. steps \in Seq(S) /\ Len(steps) = Len(of)
    BY <2>1, <2>2
  <2>4. \A i \in 1..Len(of) : steps[i] = inner[of[i]]
    BY <2>1
  <2>5. to \in Seq(D) /\ Len(to) = Len(of) /\ \A i \in 1..Len(of) : to[i] = str[of[i]]
    BY <2>1, <2>2
  <2>9. t = <<"array", to>>
    BY <1>3 DEF StringOf
  <2>6. Events(inner, w, "array", of) = EndArray(InTurn(steps, StartArray(w)))
    BY DEF Events
  <2> HIDE DEF steps, S, to
  <2>7. \A i \in 1..Len(steps) : to[i] # Nothing /\ Writes(steps[i], to[i], G)
    BY <2>2, <2>3, <2>4, <2>5
  <2>8. PutsOut(EndArray(InTurn(steps, StartArray(w))), w, <<"array", to>>, G)
    BY <2>3, <2>5, <2>7, <2>9, ArrayPuts
  <2> QED BY <1>3, <2>6, <2>8, <2>9
<1>4. ASSUME NEW of \in Seq(Seq(Characters) \X I), v = <<"object", of>>
      PROVE  PutsOut(Events(inner, w, v[1], v[2]), w, t, G)
  <2> DEFINE S == {MemberStep(inner, m) : m \in Seq(Characters) \X I}
             steps == [i \in DOMAIN of |-> MemberStep(inner, of[i])]
             to == [i \in DOMAIN of |-> <<of[i][1], str[of[i][2]]>>]
  <2>1. DOMAIN of = 1..Len(of) /\ Len(of) \in Nat
    OBVIOUS
  <2>2. \A i \in 1..Len(of) : of[i] \in Seq(Characters) \X I
    OBVIOUS
  <2>3. steps \in Seq(S) /\ Len(steps) = Len(of)
    BY <2>1, <2>2
  <2>4. \A i \in 1..Len(of) : steps[i] = MemberStep(inner, of[i])
    BY <2>1
  <2>5. /\ to \in Seq(Seq(Written) \X D) /\ Len(to) = Len(of)
        /\ \A i \in 1..Len(of) : to[i] = <<of[i][1], str[of[i][2]]>>
    <3>1. \A i \in 1..Len(of) : <<of[i][1], str[of[i][2]]>> \in Seq(Written) \X D
      <4>1. Seq(Characters) \subseteq Seq(Written)
        BY WrittenLetters
      <4> QED BY <2>2, <4>1
    <3>2. PICK T : T = Seq(Written) \X D
      OBVIOUS
    <3>3. to \in Seq(T) /\ Len(to) = Len(of)
      BY <2>1, <3>1, <3>2
    <3> QED BY <2>1, <3>2, <3>3
  <2>9. t = <<"object", to>>
    BY <1>4 DEF StringOf
  <2>6. Events(inner, w, "object", of) = EndObject(InTurn(steps, StartObject(w)))
    BY DEF Events
  <2> HIDE DEF steps, S, to
  <2>7. ASSUME NEW i \in 1..Len(steps), NEW p \in Writers, NEW o \in Seq(Elements), NEW c \in Nat,
               c % 2 = 0
        PROVE  MemberWritten(steps[i], to[i][1], to[i][2], p, G, o, c)
    <3>1. of[i][1] \in Seq(Characters) /\ of[i][2] \in I
      BY <2>2, <2>3
    <3>2. PICK name \in Seq(Characters), u \in I : name = of[i][1] /\ u = of[i][2]
      BY <3>1
    <3>3. \A x \in Writers : steps[i][x] = inner[u][String(x, name)]
        <4>1. steps[i] = MemberStep(inner, of[i])
        BY <2>3, <2>4
      <4>2. \A x \in Writers : MemberStep(inner, of[i])[x] = inner[of[i][2]][String(x, of[i][1])]
        BY DEF MemberStep
      <4> QED BY <3>2, <4>1, <4>2, Zenon
    <3>4. Writes(inner[u], str[u], G)
      OBVIOUS
    <3>5. MemberWritten(steps[i], name, str[u], p, G, o, c)
      BY <2>7, <3>3, <3>4, MemberByValue
    <3>6. to[i] = <<name, str[u]>>
      BY <2>3, <2>5, <3>2
    <3>7. to[i][1] = name /\ to[i][2] = str[u]
      BY <3>6
    <3> QED BY <3>5, <3>7
  <2>8. PutsOut(EndObject(InTurn(steps, StartObject(w))), w, <<"object", to>>, G)
    BY <2>3, <2>5, <2>7, <2>9, ObjectPuts
  <2> QED BY <1>4, <2>6, <2>8, <2>9
<1>5. HasKind(v, I)
  BY ValueKinds
<1> QED BY <1>1, <1>2, <1>3, <1>4, <1>5, Zenon DEF HasKind

AllValues == UNION {JsonValues[n] : n \in Nat}

LEMMA NothingIsNone ==
    ASSUME NEW n \in Nat
    PROVE  Nothing \notin JsonValues[n]
<1>1. Nothing[1] = "nothing"
  BY DEF Nothing
<1>2. "nothing" \notin Literals
  BY DEF Literals
<1>3. ASSUME NEW v \in ValuesOver(n, Inner(n))
      PROVE  v # Nothing
  <2>1. v[1] \in Literals \union {"string", "number", "array", "object"}
    <3>1. HasKind(v, Inner(n))
      BY ValueKinds
    <3> QED BY <3>1 DEF HasKind
  <2>2. "nothing" \notin {"string", "number", "array", "object"}
    OBVIOUS
  <2> QED BY <1>1, <1>2, <2>1, <2>2
<1> QED BY <1>3, ValuesAt

InnerStringed(n) == IF n = 0 THEN <<>> ELSE Stringed[n - 1]

LEMMA StringedAt ==
    ASSUME NEW n \in Nat, NEW v \in JsonValues[n]
    PROVE  Stringed[n][v] = StringOf(InnerStringed(n), v[1], v[2])
<1>1. Stringed[n] = StringedOver(n, InnerStringed(n))
  BY StringedIs, Zenon DEF InnerStringed
<1>2. StringedOver(n, InnerStringed(n))[v] = StringOf(InnerStringed(n), v[1], v[2])
  BY DEF StringedOver
<1> QED BY <1>1, <1>2, Zenon

\* A value stays one, no deeper, with its numbers as strings.
LEMMA StringedTyped ==
    ASSUME NEW n \in Nat, NEW v \in JsonValues[n]
    PROVE  Stringed[n][v] \in JsonValues[n]
<1> DEFINE E == {m \in Nat : \A u \in JsonValues[m] : Stringed[m][u] \in JsonValues[m]}
<1>1. ASSUME NEW m \in Nat, \A u \in Inner(m) : InnerStringed(m)[u] \in Inner(m)
      PROVE  m \in E
  <2> SUFFICES ASSUME NEW u \in JsonValues[m]
               PROVE  Stringed[m][u] \in JsonValues[m]
    OBVIOUS
  <2>1. PICK I, str : I = Inner(m) /\ str = InnerStringed(m)
    OBVIOUS
  <2>2. u \in ValuesOver(m, I) /\ JsonValues[m] = ValuesOver(m, I)
    BY <2>1, ValuesAt
  <2>3. \A x \in I : str[x] \in I
    BY <1>1, <2>1
  <2>4. StringOf(str, u[1], u[2]) \in ValuesOver(m, I)
    BY <2>2, <2>3, StringOfTyped
  <2> QED BY <2>1, <2>2, <2>4, StringedAt
<1>2. 0 \in E
  BY <1>1 DEF Inner
<1>3. ASSUME NEW m \in Nat, m \in E
      PROVE  m + 1 \in E
  <2>1. m + 1 \in Nat /\ m + 1 # 0 /\ m + 1 - 1 = m
    OBVIOUS
  <2>2. Inner(m + 1) = JsonValues[m] /\ InnerStringed(m + 1) = Stringed[m]
    BY <2>1 DEF Inner, InnerStringed
  <2>3. \A u \in JsonValues[m] : Stringed[m][u] \in JsonValues[m]
    BY <1>3
  <2> HIDE DEF E
  <2>4. \A u \in Inner(m + 1) : InnerStringed(m + 1)[u] \in Inner(m + 1)
    BY <2>2, <2>3, Zenon
  <2> QED BY <1>1, <2>1, <2>4
<1> HIDE DEF E
<1>4. Nat \subseteq E
  BY <1>2, <1>3, SetInduction
<1>5. n \in E
  BY <1>4
<1> QED BY <1>5 DEF E

\* Accept puts out a text of the value with its numbers as strings.
LEMMA AcceptWrites ==
    ASSUME NEW D, AllValues \subseteq D, NEW G, IsGreatest(G, Written, D),
           NEW n \in Nat, NEW v \in JsonValues[n]
    PROVE  Writes(Accept[n][v], Stringed[n][v], G)
<1> DEFINE E == {m \in Nat : \A u \in JsonValues[m] : Writes(Accept[m][u], Stringed[m][u], G)}
<1>1. ASSUME NEW m \in Nat,
             \A u \in Inner(m) : Writes(InnerAccept(m)[u], InnerStringed(m)[u], G)
      PROVE  m \in E
  <2> SUFFICES ASSUME NEW u \in JsonValues[m], NEW w, Takes(w)
               PROVE  PutsOut(Accept[m][u][w], w, Stringed[m][u], G)
    BY Zenon DEF Writes
  <2>1. \A x \in Inner(m) : InnerStringed(m)[x] \in D /\ InnerStringed(m)[x] # Nothing
    <3>1. CASE m = 0
      BY <3>1 DEF Inner
    <3>2. CASE m # 0
      <4>1. m - 1 \in Nat /\ Inner(m) = JsonValues[m - 1] /\ InnerStringed(m) = Stringed[m - 1]
        BY <3>2 DEF Inner, InnerStringed
      <4>2. PICK k \in Nat : k = m - 1
        BY <4>1
      <4>3. \A x \in JsonValues[k] : Stringed[k][x] \in JsonValues[k] /\ Nothing \notin JsonValues[k]
        BY StringedTyped, NothingIsNone
      <4> QED BY <4>1, <4>2, <4>3 DEF AllValues
    <3> QED BY <3>1, <3>2
  <2>2. u \in ValuesOver(m, Inner(m)) /\ Stringed[m][u] \in D
    BY ValuesAt, StringedTyped DEF AllValues
  <2>3. w \in Writers
    BY TakesPrefix
  <2>4. Accept[m][u][w] = Events(InnerAccept(m), w, u[1], u[2])
    BY <2>3, AcceptAt
  <2>5. PICK inner : inner = InnerAccept(m)
    OBVIOUS
  <2>6. PICK I, str : I = Inner(m) /\ str = InnerStringed(m)
    OBVIOUS
  <2>7. \A x \in I : Writes(inner[x], str[x], G) /\ str[x] \in D /\ str[x] # Nothing
    BY <1>1, <2>1, <2>5, <2>6
  <2>8. PICK t \in D : t = Stringed[m][u]
    BY <2>2
  <2>9. t = StringOf(str, u[1], u[2])
    BY <2>6, <2>8, StringedAt
  <2>10. PutsOut(Events(inner, w, u[1], u[2]), w, t, G)
    BY <2>2, <2>6, <2>7, <2>9, EventsPut
  <2> QED BY <2>4, <2>5, <2>8, <2>10
<1>2. 0 \in E
  BY <1>1 DEF Inner
<1>3. ASSUME NEW m \in Nat, m \in E
      PROVE  m + 1 \in E
  <2>1. m + 1 \in Nat /\ m + 1 # 0 /\ m + 1 - 1 = m
    OBVIOUS
  <2>2. /\ Inner(m + 1) = JsonValues[m] /\ InnerAccept(m + 1) = Accept[m]
        /\ InnerStringed(m + 1) = Stringed[m]
    BY <2>1 DEF Inner, InnerAccept, InnerStringed
  <2>3. \A u \in JsonValues[m] : Writes(Accept[m][u], Stringed[m][u], G)
    BY <1>3
  <2> HIDE DEF E
  <2>4. \A u \in Inner(m + 1) : Writes(InnerAccept(m + 1)[u], InnerStringed(m + 1)[u], G)
    BY <2>2, <2>3, Zenon
  <2> QED BY <1>1, <2>1, <2>4
<1> HIDE DEF E
<1>4. Nat \subseteq E
  BY <1>2, <1>3, SetInduction
<1>5. n \in E
  BY <1>4
<1> QED BY <1>5 DEF E

-----------------------------------------------------------------------------
(* Values and depths.                                                      *)

LEMMA OverGrows ==
    ASSUME NEW n, NEW m, NEW I, NEW J, I \subseteq J
    PROVE  ValuesOver(n, I) \subseteq ValuesOver(m, J)
<1>1. Seq(I) \subseteq Seq(J)
  OBVIOUS
<1>2. ASSUME NEW s \in Seq(Seq(Characters) \X I)
      PROVE  s \in Seq(Seq(Characters) \X J)
  <2>1. PICK A, B : A = Seq(Characters) \X I /\ B = Seq(Characters) \X J
    OBVIOUS
  <2>2. A \subseteq B
    BY <2>1
  <2>3. s \in Seq(A)
    BY <2>1
  <2>4. s \in Seq(B)
    BY <2>2, <2>3
  <2> QED BY <2>1, <2>4
<1>3. {"array"} \X Seq(I) \subseteq {"array"} \X Seq(J)
  BY <1>1
<1>4. {"object"} \X Seq(Seq(Characters) \X I) \subseteq {"object"} \X Seq(Seq(Characters) \X J)
  <2>1. PICK A, B : A = Seq(Seq(Characters) \X I) /\ B = Seq(Seq(Characters) \X J)
    OBVIOUS
  <2>2. A \subseteq B
    BY <1>2, <2>1, Zenon
  <2>3. {"object"} \X A \subseteq {"object"} \X B
    BY <2>2
  <2> QED BY <2>1, <2>3, Zenon
<1> QED BY <1>3, <1>4, Zenon DEF ValuesOver

LEMMA OneDeeper ==
    ASSUME NEW n \in Nat
    PROVE  JsonValues[n] \subseteq JsonValues[n + 1]
<1> DEFINE E == {m \in Nat : JsonValues[m] \subseteq JsonValues[m + 1]}
<1>0. ASSUME NEW m \in Nat
      PROVE  JsonValues[m + 1] = ValuesOver(m + 1, JsonValues[m])
  <2>1. PICK k \in Nat : k = m + 1
    OBVIOUS
  <2>2. Inner(k) = JsonValues[m]
    <3>1. k # 0 /\ k - 1 = m
      BY <2>1
    <3> QED BY <3>1, Zenon DEF Inner
  <2>3. JsonValues[k] = ValuesOver(k, Inner(k))
    BY ValuesAt
  <2> QED BY <2>1, <2>2, <2>3, Zenon
<1>1. 0 \in E
  <2>1. JsonValues[0] = ValuesOver(0, {})
    <3>1. Inner(0) = {}
      BY DEF Inner
    <3> QED BY <3>1, ValuesAt
  <2>2. JsonValues[0 + 1] = ValuesOver(0 + 1, JsonValues[0])
    BY <1>0
  <2>3. PICK I, k : I = JsonValues[0] /\ k = 0 + 1
    OBVIOUS
  <2>4. ValuesOver(0, {}) \subseteq ValuesOver(k, I)
    BY OverGrows
  <2>5. JsonValues[0] \subseteq JsonValues[0 + 1]
    BY <2>1, <2>2, <2>3, <2>4, Zenon
  <2> QED BY <2>5
<1>2. ASSUME NEW m \in Nat, m \in E
      PROVE  m + 1 \in E
  <2>1. PICK k \in Nat : k = m + 1
    OBVIOUS
  <2>2. JsonValues[k] = ValuesOver(k, JsonValues[m])
    BY <1>0, <2>1
  <2>3. JsonValues[k + 1] = ValuesOver(k + 1, JsonValues[k])
    BY <1>0
  <2>4. PICK I, J, l : I = JsonValues[m] /\ J = JsonValues[k] /\ l = k + 1
    OBVIOUS
  <2>5. I \subseteq J
    BY <1>2, <2>1, <2>4
  <2>6. ValuesOver(k, I) \subseteq ValuesOver(l, J)
    BY <2>5, OverGrows
  <2>7. JsonValues[k] \subseteq JsonValues[k + 1]
    BY <2>2, <2>3, <2>4, <2>6, Zenon
  <2> QED BY <2>1, <2>7
<1> HIDE DEF E
<1>3. Nat \subseteq E
  BY <1>1, <1>2, SetInduction
<1>4. n \in E
  BY <1>3
<1> QED BY <1>4 DEF E

LEMMA Deeper ==
    ASSUME NEW n \in Nat, NEW m \in Nat, n <= m
    PROVE  JsonValues[n] \subseteq JsonValues[m]
<1> DEFINE E == {d \in Nat : JsonValues[n] \subseteq JsonValues[n + d]}
<1>1. 0 \in E
  <2>1. n + 0 = n
    OBVIOUS
  <2> QED BY <2>1
<1>2. ASSUME NEW d \in Nat, d \in E
      PROVE  d + 1 \in E
  <2>1. PICK k \in Nat : k = n + d
    OBVIOUS
  <2>2. JsonValues[n] \subseteq JsonValues[k]
    BY <1>2, <2>1
  <2>3. JsonValues[k] \subseteq JsonValues[k + 1]
    BY OneDeeper
  <2>4. k + 1 = n + (d + 1)
    BY <2>1
  <2>5. JsonValues[n] \subseteq JsonValues[n + (d + 1)]
    BY <2>2, <2>3, <2>4
  <2> QED BY <2>5
<1> HIDE DEF E
<1>3. Nat \subseteq E
  BY <1>1, <1>2, SetInduction
<1>4. m - n \in E /\ n + (m - n) = m
  BY <1>3
<1> QED BY <1>4 DEF E

\* What is a value.
LEMMA AreValues ==
    ASSUME NEW n \in Nat
    PROVE  /\ \A l \in Literals : <<l, <<>>>> \in JsonValues[n]
           /\ \A s \in Seq(Characters) :
                 <<"string", s>> \in JsonValues[n] /\ <<"number", s>> \in JsonValues[n]
           /\ <<"array", <<>>>> \in JsonValues[n] /\ <<"object", <<>>>> \in JsonValues[n]
<1>1. PICK I : I = Inner(n)
  OBVIOUS
<1>2. JsonValues[n] = ValuesOver(n, I)
  BY <1>1, ValuesAt
<1>3. ASSUME NEW l \in Literals
      PROVE  <<l, <<>>>> \in ValuesOver(n, I)
  <2>1. <<l, <<>>>> \in {"null", "true", "false"} \X {<<>>}
    BY DEF Literals
  <2> QED BY <2>1, Zenon DEF ValuesOver
<1>4. ASSUME NEW s \in Seq(Characters)
      PROVE  <<"string", s>> \in ValuesOver(n, I) /\ <<"number", s>> \in ValuesOver(n, I)
  <2>1. /\ <<"string", s>> \in {"string", "number"} \X Seq(Characters)
        /\ <<"number", s>> \in {"string", "number"} \X Seq(Characters)
    OBVIOUS
  <2> QED BY <2>1, Zenon DEF ValuesOver
<1>5. <<"array", <<>>>> \in ValuesOver(n, I)
  <2>0. <<>> \in Seq(I)
    OBVIOUS
  <2>1. PICK e \in Seq(I) : e = <<>>
    BY <2>0
  <2>2. <<"array", e>> \in {"array"} \X Seq(I)
    OBVIOUS
  <2> QED BY <2>1, <2>2, Zenon DEF ValuesOver
<1>6. <<"object", <<>>>> \in ValuesOver(n, I)
  <2>1. PICK T : T = Seq(Characters) \X I
    OBVIOUS
  <2>0. <<>> \in Seq(T)
    OBVIOUS
  <2>2. PICK e \in Seq(T) : e = <<>>
    BY <2>0
  <2>3. <<"object", e>> \in {"object"} \X Seq(T)
    OBVIOUS
  <2> QED BY <2>1, <2>2, <2>3, Zenon DEF ValuesOver
<1> QED BY <1>2, <1>3, <1>4, <1>5, <1>6, Zenon

LEMMA ContainerValues ==
    ASSUME NEW n \in Nat
    PROVE  /\ \A s \in Seq(JsonValues[n]) : <<"array", s>> \in JsonValues[n + 1]
           /\ \A s \in Seq(Seq(Characters) \X JsonValues[n]) :
                 <<"object", s>> \in JsonValues[n + 1]
<1>1. PICK k \in Nat : k = n + 1
  OBVIOUS
<1>2. PICK I : I = JsonValues[n]
  OBVIOUS
<1>3. Inner(k) = I
  <2>1. k # 0 /\ k - 1 = n
    BY <1>1
  <2> QED BY <1>2, <2>1, Zenon DEF Inner
<1>4. JsonValues[k] = ValuesOver(k, I)
  BY <1>3, ValuesAt
<1>5. ASSUME NEW s \in Seq(I)
      PROVE  <<"array", s>> \in ValuesOver(k, I)
  <2>1. <<"array", s>> \in {"array"} \X Seq(I)
    OBVIOUS
  <2> QED BY <2>1, Zenon DEF ValuesOver
<1>6. ASSUME NEW s \in Seq(Seq(Characters) \X I)
      PROVE  <<"object", s>> \in ValuesOver(k, I)
  <2>1. PICK T : T = Seq(Seq(Characters) \X I)
    OBVIOUS
  <2>2. <<"object", s>> \in {"object"} \X T
    BY <2>1
  <2> QED BY <2>1, <2>2, Zenon DEF ValuesOver
<1> QED BY <1>1, <1>2, <1>4, <1>5, <1>6, Zenon

-----------------------------------------------------------------------------
(* What the reader makes are values, and the names of members are strings. *)

NameTexts == {"string"} \X Seq(Characters)

NamePlace(s, i, j) == Heights(s)[i - 1] + 2 + 2 * j

\* The names a stack holds for the members of objects.
NamesHeld(s, st) ==
    \A i \in 1..Len(s) : s[i].kind = "object" =>
       \A j \in 0..s[i].count :
          NamePlace(s, i, j) <= Len(st) => st[NamePlace(s, i, j)] \in NameTexts

\* ... by the innermost one.
InnerNames(h, f, st) ==
    f.kind = "object" =>
       \A j \in 0..f.count : h + 2 + 2 * j <= Len(st) => st[h + 2 + 2 * j] \in NameTexts

LEMMA HeightsOfAppended ==
    ASSUME NEW s \in Seq(Frames), NEW f \in Frames
    PROVE  \A i \in 0..Len(s) : /\ Heights(s)[i] \in Nat
                                /\ Heights(Append(s, f))[i] = Heights(s)[i]
<1> DEFINE t == Append(s, f)
<1>1. /\ t \in Seq(Frames) /\ Len(s) \in Nat /\ Len(t) = Len(s) + 1
      /\ \A i \in 1..Len(s) : t[i] = s[i]
  BY AppendProperties, LenProperties
<1> HIDE DEF t
<1>2. /\ Heights(s)[0] = 0 /\ Heights(t)[0] = 0
      /\ \A n \in 1..Len(s) : Heights(s)[n] = Heights(s)[n - 1] + HeldAround(s[n])
      /\ \A n \in 1..Len(t) : Heights(t)[n] = Heights(t)[n - 1] + HeldAround(t[n])
  BY <1>1, HeightsValues
<1> DEFINE E == {n \in Nat : n <= Len(s) =>
                    Heights(s)[n] \in Nat /\ Heights(t)[n] = Heights(s)[n]}
<1>3. 0 \in E
  BY <1>2
<1>4. ASSUME NEW n \in Nat, n \in E
      PROVE  n + 1 \in E
  <2> SUFFICES ASSUME n + 1 <= Len(s)
               PROVE  /\ Heights(s)[n + 1] \in Nat
                      /\ Heights(t)[n + 1] = Heights(s)[n + 1]
    OBVIOUS
  <2>1. n + 1 \in 1..Len(s) /\ n + 1 \in 1..Len(t) /\ n + 1 - 1 = n /\ n <= Len(s)
    BY <1>1
  <2>2. Heights(s)[n] \in Nat /\ Heights(t)[n] = Heights(s)[n]
    BY <1>4, <2>1
  <2>3. s[n + 1] \in Frames /\ t[n + 1] = s[n + 1]
    BY <1>1, <2>1, ElementOfSeq
  <2>4. HeldAround(s[n + 1]) \in Nat
    BY <2>3, HeldIsNatural
  <2> HIDE DEF E
  <2>5. /\ Heights(s)[n + 1] = Heights(s)[n] + HeldAround(s[n + 1])
        /\ Heights(t)[n + 1] = Heights(t)[n] + HeldAround(t[n + 1])
    BY <1>2, <2>1
  <2> QED BY <2>2, <2>3, <2>4, <2>5
<1> HIDE DEF E
<1>5. Nat \subseteq E
  BY <1>3, <1>4, SetInduction
<1>6. \A i \in 0..Len(s) : i \in E /\ i <= Len(s)
  BY <1>5
<1> QED BY <1>6 DEF E, t

\* All names are below the height of the frames.
LEMMA NamesBelow ==
    ASSUME NEW s \in Seq(Frames), NEW i \in 1..Len(s), s[i].kind = "object",
           NEW j \in 0..s[i].count
    PROVE  NamePlace(s, i, j) \in 1..Height(s)
<1>1. Len(s) \in Nat
  BY LenProperties
<1>2. PICK f \in Frames : f = s[i]
  BY ElementOfSeq
<1>3. \A n \in 0..Len(s) : Heights(s)[n] \in Nat
  BY <1>2, HeightsOfAppended
<1>4. \A n \in 1..Len(s) : Heights(s)[n] = Heights(s)[n - 1] + HeldAround(s[n])
  BY HeightsValues
<1> DEFINE E == {d \in Nat : i + d <= Len(s) => Heights(s)[i] <= Heights(s)[i + d]}
<1>5. 0 \in E
  <2>1. i + 0 = i /\ i \in 0..Len(s)
    BY <1>1
  <2>2. Heights(s)[i] \in Nat
    BY <1>3, <2>1
  <2> QED BY <2>1, <2>2
<1>6. ASSUME NEW d \in Nat, d \in E
      PROVE  d + 1 \in E
  <2> SUFFICES ASSUME i + (d + 1) <= Len(s)
               PROVE  Heights(s)[i] <= Heights(s)[i + (d + 1)]
    OBVIOUS
  <2>1. PICK k \in 1..Len(s) : k = i + (d + 1)
    BY <1>1
  <2>2. k - 1 = i + d /\ k - 1 \in 0..Len(s) /\ i \in 0..Len(s) /\ i + d <= Len(s)
    BY <1>1, <2>1
  <2>3. Heights(s)[i] <= Heights(s)[k - 1]
    BY <1>6, <2>2
  <2>4. HeldAround(s[k]) \in Nat
    BY HeldIsNatural, ElementOfSeq
  <2>5. Heights(s)[k - 1] \in Nat /\ Heights(s)[i] \in Nat
    BY <1>3, <2>2
  <2>6. Heights(s)[k] = Heights(s)[k - 1] + HeldAround(s[k])
    BY <1>4
  <2>7. Heights(s)[i] <= Heights(s)[k]
    BY <2>3, <2>4, <2>5, <2>6
  <2> QED BY <2>1, <2>7
<1> HIDE DEF E
<1>7. Nat \subseteq E
  BY <1>5, <1>6, SetInduction
<1>8. Heights(s)[i] <= Height(s)
  <2>1. Len(s) - i \in Nat /\ i + (Len(s) - i) = Len(s)
    BY <1>1
  <2>2. Len(s) - i \in E
    BY <1>7, <2>1
  <2> QED BY <2>1, <2>2 DEF E, Height
<1>9. i - 1 \in 0..Len(s) /\ Len(s) \in 0..Len(s)
  BY <1>1
<1>10. Heights(s)[i - 1] \in Nat /\ Height(s) \in Nat
  BY <1>3, <1>9 DEF Height
<1>11. Heights(s)[i] = Heights(s)[i - 1] + HeldAround(s[i])
  BY <1>4
<1>12. HeldAround(s[i]) = 2 + 2 * f.count /\ f.count \in Nat
  BY <1>2 DEF HeldAround, Held, Frames
<1>13. j \in 0..f.count
  BY <1>2
<1>14. 2 + 2 * j <= 2 + 2 * f.count
  BY <1>12, <1>13
<1> QED BY <1>8, <1>10, <1>11, <1>12, <1>13, <1>14 DEF NamePlace

LEMMA NamesOfAppended ==
    ASSUME NEW s \in Seq(Frames), NEW f \in Frames, NEW st
    PROVE  NamesHeld(Append(s, f), st) <=> NamesHeld(s, st) /\ InnerNames(Height(s), f, st)
<1> DEFINE t == Append(s, f)
           n == Len(s) + 1
<1>1. /\ t \in Seq(Frames) /\ Len(s) \in Nat /\ Len(t) = n
      /\ \A i \in 1..Len(s) : t[i] = s[i]
      /\ t[n] = f
  BY AppendProperties, LenProperties
<1>2. \A i \in 1..Len(s) : i - 1 \in 0..Len(s)
  BY <1>1
<1>3. \A i \in 0..Len(s) : Heights(t)[i] = Heights(s)[i]
  BY HeightsOfAppended
<1> HIDE DEF t
<1>4. ASSUME NEW i \in 1..Len(s), NEW j
      PROVE  NamePlace(t, i, j) = NamePlace(s, i, j)
  <2>1. Heights(t)[i - 1] = Heights(s)[i - 1]
    BY <1>2, <1>3
  <2> QED BY <2>1 DEF NamePlace
<1>5. ASSUME NEW j
      PROVE  NamePlace(t, n, j) = Height(s) + 2 + 2 * j
  <2>1. n - 1 = Len(s) /\ Len(s) \in 0..Len(s)
    BY <1>1
  <2>2. Heights(t)[n - 1] = Height(s)
    BY <1>3, <2>1 DEF Height
  <2> QED BY <2>2 DEF NamePlace
<1>6. \A i \in 1..n : i \in 1..Len(s) \/ i = n
  BY <1>1
<1>7. n \in 1..n /\ \A i \in 1..Len(s) : i \in 1..n
  BY <1>1
<1>8. ASSUME NamesHeld(t, st)
      PROVE  NamesHeld(s, st) /\ InnerNames(Height(s), f, st)
  <2>1. \A i \in 1..n : t[i].kind = "object" =>
           \A j \in 0..t[i].count :
              NamePlace(t, i, j) <= Len(st) => st[NamePlace(t, i, j)] \in NameTexts
    BY <1>1, <1>8, Zenon DEF NamesHeld
  <2> HIDE DEF n
  <2>2. NamesHeld(s, st)
    BY <1>1, <1>4, <1>7, <2>1, Zenon DEF NamesHeld
  <2>3. InnerNames(Height(s), f, st)
    BY <1>1, <1>5, <1>7, <2>1, Zenon DEF InnerNames
  <2> QED BY <2>2, <2>3
<1>9. ASSUME NamesHeld(s, st), InnerNames(Height(s), f, st)
      PROVE  NamesHeld(t, st)
  <2> SUFFICES ASSUME NEW i \in 1..n, t[i].kind = "object", NEW j \in 0..t[i].count,
                      NamePlace(t, i, j) <= Len(st)
               PROVE  st[NamePlace(t, i, j)] \in NameTexts
    BY <1>1, Zenon DEF NamesHeld
  <2>1. CASE i \in 1..Len(s)
    BY <1>1, <1>4, <1>9, <2>1, Zenon DEF NamesHeld
  <2>2. CASE i = n
    BY <1>1, <1>5, <1>9, <2>2, Zenon DEF InnerNames
  <2> QED BY <1>6, <2>1, <2>2
<1> QED BY <1>8, <1>9, Zenon DEF t

\* What is above the frames does not count.
LEMMA NamesStay ==
    ASSUME NEW s \in Seq(Frames), NEW st, NEW tt, NamesHeld(s, st),
           \A k \in 1..Height(s) : k <= Len(tt) => k <= Len(st) /\ tt[k] = st[k]
    PROVE  NamesHeld(s, tt)
<1> SUFFICES ASSUME NEW i \in 1..Len(s), s[i].kind = "object", NEW j \in 0..s[i].count,
                    NamePlace(s, i, j) <= Len(tt)
             PROVE  tt[NamePlace(s, i, j)] \in NameTexts
  BY DEF NamesHeld
<1>1. NamePlace(s, i, j) \in 1..Height(s)
  BY NamesBelow
<1>2. NamePlace(s, i, j) <= Len(st) /\ tt[NamePlace(s, i, j)] = st[NamePlace(s, i, j)]
  BY <1>1
<1>3. st[NamePlace(s, i, j)] \in NameTexts
  BY <1>2 DEF NamesHeld
<1> QED BY <1>2, <1>3

-----------------------------------------------------------------------------
(* The invariant of it, and the steps that move the reader.                *)

AreHeld(st, n) == \A i \in 1..Len(st) : st[i] \in JsonValues[n]

ReadsValues ==
    /\ chars \in Seq(Characters)
    /\ root \in JsonValues[src]
    /\ AreHeld(stack, src)
    /\ NamesHeld(frames, stack)

LEMMA PushedEntries ==
    ASSUME NEW s, IsStack(s), NEW v
    PROVE  /\ Len(s) \in Nat /\ Len(Append(s, v)) = Len(s) + 1
           /\ \A i \in 1..Len(s) : Append(s, v)[i] = s[i]
           /\ Append(s, v)[Len(s) + 1] = v
<1> DEFINE S == Range(s) \union {v}
<1>1. s \in Seq(S) /\ v \in S
  BY SeqMonotonic DEF IsStack
<1> HIDE DEF S
<1> QED BY <1>1, AppendProperties, LenProperties

LEMMA HeldLater ==
    ASSUME NEW st, NEW n \in Nat, NEW m \in Nat, n <= m, AreHeld(st, n)
    PROVE  AreHeld(st, m)
  BY Deeper DEF AreHeld

LEMMA HeldWithOneMore ==
    ASSUME NEW st, IsStack(st), NEW n, AreHeld(st, n), NEW v \in JsonValues[n]
    PROVE  AreHeld(Append(st, v), n)
<1>1. \A i \in 1..(Len(st) + 1) : i \in 1..Len(st) \/ i = Len(st) + 1
  BY PushedEntries
<1>2. \A i \in 1..(Len(st) + 1) : Append(st, v)[i] \in JsonValues[n]
  BY <1>1, PushedEntries DEF AreHeld
<1> QED BY <1>2, PushedEntries DEF AreHeld

LEMMA NamesPushed ==
    ASSUME NEW s \in Seq(Frames), NEW st, IsStack(st), NamesHeld(s, st), NEW v,
           v \in NameTexts \/ Len(st) >= Height(s)
    PROVE  NamesHeld(s, Append(st, v))
<1> SUFFICES ASSUME NEW i \in 1..Len(s), s[i].kind = "object", NEW j \in 0..s[i].count,
                    NamePlace(s, i, j) <= Len(Append(st, v))
             PROVE  Append(st, v)[NamePlace(s, i, j)] \in NameTexts
  BY DEF NamesHeld
<1>1. NamePlace(s, i, j) \in 1..Height(s)
  BY NamesBelow
<1>0. Height(s) \in Nat
  <2>1. Heights(s)[Len(s)] \in Nat
    <3>1. PICK f \in Frames : f = s[i]
      BY ElementOfSeq
    <3>2. Len(s) \in 0..Len(s)
      BY LenProperties
    <3> QED BY <3>1, <3>2, HeightsOfAppended
  <2> QED BY <2>1 DEF Height
<1> DEFINE p == NamePlace(s, i, j)
           t == Append(st, v)
<1>2. /\ Len(st) \in Nat /\ Len(t) = Len(st) + 1
      /\ \A k \in 1..Len(st) : t[k] = st[k]
      /\ t[Len(st) + 1] = v
  BY PushedEntries
<1>3. p <= Len(st) => st[p] \in NameTexts
  BY DEF NamesHeld
<1>4. p \in 1..Height(s) /\ p <= Len(t)
  BY <1>1
<1> HIDE DEF p, t
<1>5. ASSUME p <= Len(st)
      PROVE  t[p] \in NameTexts
  BY <1>2, <1>3, <1>4, <1>5
<1>6. ASSUME p = Len(st) + 1
      PROVE  t[p] \in NameTexts
  BY <1>0, <1>2, <1>4, <1>6
<1>7. p <= Len(st) \/ p = Len(st) + 1
  BY <1>0, <1>2, <1>4
<1> QED BY <1>5, <1>6, <1>7 DEF p, t

LEMMA SrcGrows ==
    ASSUME IInv, Advances
    PROVE  src \in Nat /\ src' \in Nat /\ src <= src'
<1>1. StreamOK /\ StreamOK' /\ src' >= src
  BY StreamAdvances DEF IInv
<1> QED BY <1>1 DEF StreamOK

LEMMA QuietValues ==
    ASSUME IInv, ReadsValues, Advances, UNCHANGED <<frames, stack, root>>,
           chars' \in Seq(Characters)
    PROVE  ReadsValues'
<1>1. src \in Nat /\ src' \in Nat /\ src <= src'
  BY SrcGrows
<1>2. PICK n \in Nat, m \in Nat : n = src /\ m = src' /\ n <= m
  BY <1>1
<1>3. root \in JsonValues[m]
  BY <1>2, Deeper DEF ReadsValues
<1>4. AreHeld(stack, m)
  <2>1. PICK st : st = stack
    OBVIOUS
  <2>2. AreHeld(st, n)
    BY <1>2, <2>1 DEF ReadsValues
  <2> QED BY <1>2, <2>1, <2>2, HeldLater
<1> QED BY <1>2, <1>3, <1>4 DEF ReadsValues

LEMMA FailValues ==
    ASSUME IInv, ReadsValues, Advances, frames' = <<>>, stack' = <<>>, root' = root,
           chars' \in Seq(Characters)
    PROVE  ReadsValues'
<1>1. src \in Nat /\ src' \in Nat /\ src <= src'
  BY SrcGrows
<1>2. PICK n \in Nat, m \in Nat : n = src /\ m = src' /\ n <= m
  BY <1>1
<1>3. root' \in JsonValues[src']
  BY <1>2, Deeper DEF ReadsValues
<1>4. AreHeld(<<>>, m) /\ NamesHeld(<<>>, <<>>)
  BY DEF AreHeld, NamesHeld
<1> QED BY <1>2, <1>3, <1>4 DEF ReadsValues

LEMMA PushValues ==
    ASSUME IInv, ReadsValues, Advances, NEW v, v \in JsonValues[src], stack' = Append(stack, v),
           UNCHANGED <<frames, root, chars>>,
           v \in NameTexts \/ Len(stack) >= Height(frames)
    PROVE  ReadsValues'
<1>1. src \in Nat /\ src' \in Nat /\ src <= src'
  BY SrcGrows
<1>2. PICK n, m, st, s : n \in Nat /\ m \in Nat /\ n = src /\ m = src' /\ n <= m /\ st = stack /\ s = frames
  BY <1>1
<1>3. root \in JsonValues[m] /\ v \in JsonValues[m]
  BY <1>2, Deeper DEF ReadsValues
<1>4. IsStack(st) /\ s \in Seq(Frames) /\ AreHeld(st, n) /\ NamesHeld(s, st)
  BY <1>2 DEF IInv, FramesOK, ReadsValues
<1>5. AreHeld(Append(st, v), m)
  <2>1. AreHeld(st, m)
    BY <1>2, <1>4, HeldLater
  <2> QED BY <1>3, <1>4, <2>1, HeldWithOneMore
<1>6. NamesHeld(s, Append(st, v))
  BY <1>2, <1>4, NamesPushed
<1>7. stack' = Append(st, v) /\ frames' = s
  BY <1>2
<1> QED BY <1>2, <1>3, <1>5, <1>6, <1>7, Zenon DEF ReadsValues

\* At and in a value the stack holds what belongs to the frames.
LEMMA AtValueHeight ==
    ASSUME IInv, pc \in ValuePlaces
    PROVE  Len(stack) = Height(frames) /\ Height(frames) \in Nat
<1>1. Pending = IF Inside("object") THEN 1 ELSE 0
  BY PendingPlaces, PlaceSets DEF PendingPlace
<1>2. Len(stack) = Pending + Base(frames)
  BY DEF IInv
<1>3. CASE frames = <<>>
  <2>1. Base(frames) = 0 /\ Pending = 0
    BY <1>1, <1>3 DEF Base, Inside
  <2>2. Height(frames) = 0
    BY <1>3, HeightOfEmpty
  <2> QED BY <1>2, <2>1, <2>2
<1>4. CASE frames # <<>>
  <2>1. PICK u \in Seq(Frames), f \in Frames : frames = Append(u, f)
    BY <1>4, Innermost DEF IInv
  <2>2. Last(frames) = f
    BY <2>1, FrontAndLast
  <2>3. Base(frames) = Height(u) + Held(f)
    BY <2>1, BaseOfAppended
  <2>4. Height(frames) = Height(u) + HeldAround(f) /\ Height(u) \in Nat
    BY <2>1, HeightOfAppended
  <2>5. Held(f) \in Nat /\ HeldAround(f) = Held(f) + (IF f.kind = "object" THEN 1 ELSE 0)
    BY HeldIsNatural DEF HeldAround
  <2> QED BY <1>1, <1>2, <1>4, <2>2, <2>3, <2>4, <2>5 DEF Inside
<1> QED BY <1>3, <1>4

LEMMA PeekIsCharacter ==
    ASSUME StreamOK, Peek # "end"
    PROVE  Peek \in Characters
<1>1. src \in 1..Len(text)
  BY DEF Peek, StreamOK
<1>2. text[src] \in STRING
  BY <1>1, ElementOfSeq DEF StreamOK
<1> QED BY <1>1, <1>2 DEF Peek, Characters

\* An event of a scalar.
LEMMA StringEvent ==
    ASSUME IInv, ReadsValues, Advances, NEW s \in Seq(Characters),
           stack' = Append(stack, <<"string", s>>), UNCHANGED <<frames, root, chars>>
    PROVE  ReadsValues'
<1>1. src \in Nat
  BY SrcGrows
<1>2. <<"string", s>> \in JsonValues[src]
  BY <1>1, AreValues
<1>3. <<"string", s>> \in NameTexts
  BY DEF NameTexts
<1>4. PICK v : v = <<"string", s>>
  OBVIOUS
<1> QED BY <1>2, <1>3, <1>4, PushValues

LEMMA NumberEvent ==
    ASSUME IInv, ReadsValues, Advances, pc \in ValuePlaces, NEW s \in Seq(Characters),
           stack' = Append(stack, <<"number", s>>), UNCHANGED <<frames, root, chars>>
    PROVE  ReadsValues'
<1>1. src \in Nat
  BY SrcGrows
<1>2. <<"number", s>> \in JsonValues[src]
  BY <1>1, AreValues
<1>3. Len(stack) >= Height(frames)
  BY AtValueHeight
<1>4. PICK v : v = <<"number", s>>
  OBVIOUS
<1> QED BY <1>2, <1>3, <1>4, PushValues

LEMMA LiteralEvent ==
    ASSUME IInv, ReadsValues, ParseLiteral
    PROVE  ReadsValues'
<1>1. /\ Advances /\ stack' = Append(stack, <<Peek, <<>>>>)
      /\ UNCHANGED <<frames, root, chars>> /\ pc = "value"
  BY DEF ParseLiteral, at, event, Advances, Literals, number
<1>2. src \in Nat
  BY <1>1, SrcGrows
<1>3. <<Peek, <<>>>> \in JsonValues[src]
  BY <1>2, AreValues DEF ParseLiteral
<1>4. Len(stack) >= Height(frames)
  BY <1>1, AtValueHeight, PlaceSets
<1>5. PICK v : v = <<Peek, <<>>>>
  OBVIOUS
<1> QED BY <1>1, <1>3, <1>4, <1>5, PushValues

LEMMA TokenEvent ==
    ASSUME IInv, ReadsValues, NEW key, wholeString(key)
    PROVE  ReadsValues'
<1>1. /\ Advances /\ stack' = Append(stack, Token)
      /\ UNCHANGED <<frames, root, chars>>
  BY DEF wholeString, event, Advances, number
<1>2. PICK s : s = <<"token">>
  OBVIOUS
<1>3. s \in Seq(Characters)
  <2>1. "token" \in Characters
    BY EscapesAreCharacters
  <2> QED BY <1>2, <2>1
<1>4. Token = <<"string", s>>
  BY <1>2 DEF Token
<1> QED BY <1>1, <1>3, <1>4, StringEvent

LEMMA BeginValues ==
    ASSUME IInv, ReadsValues, pc = "value", NEW kind \in {"object", "array"}, NEW bracket,
           bracket # "end", NEW place, begin(kind, bracket, place)
    PROVE  ReadsValues'
<1>1. /\ Advances /\ stack' = Append(stack, <<kind, <<>>>>)
      /\ frames' = Append(frames, [kind |-> kind, count |-> 0])
      /\ UNCHANGED <<root, chars>>
  BY DEF begin, event, Advances, number
<1>2. src \in Nat /\ src' \in Nat /\ src <= src'
  BY <1>1, SrcGrows
<1>3. PICK n, m, st, s, v, f :
        /\ n \in Nat /\ m \in Nat /\ n = src /\ m = src' /\ n <= m /\ st = stack /\ s = frames
        /\ v = <<kind, <<>>>> /\ f = [kind |-> kind, count |-> 0]
  BY <1>2
<1>4. root \in JsonValues[m]
  BY <1>3, Deeper DEF ReadsValues
<1>5. v \in JsonValues[m]
  BY <1>3, AreValues
<1>6. IsStack(st) /\ s \in Seq(Frames) /\ AreHeld(st, n) /\ NamesHeld(s, st)
  BY <1>3 DEF IInv, FramesOK, ReadsValues
<1>7. Len(st) = Height(s) /\ Height(s) \in Nat
  BY <1>3, AtValueHeight, PlaceSets
<1>8. AreHeld(Append(st, v), m)
  <2>1. AreHeld(st, m)
    BY <1>3, <1>6, HeldLater
  <2> QED BY <1>5, <1>6, <2>1, HeldWithOneMore
<1>9. NamesHeld(s, Append(st, v))
  <2>1. Len(st) >= Height(s)
    BY <1>7
  <2> QED BY <1>6, <2>1, NamesPushed
<1>10. f \in Frames /\ f.count = 0
  BY <1>3 DEF Frames
<1>11. InnerNames(Height(s), f, Append(st, v))
  <2>1. Len(Append(st, v)) = Height(s) + 1
    BY <1>6, <1>7, PushedEntries
  <2>2. \A j \in 0..f.count : ~(Height(s) + 2 + 2 * j <= Len(Append(st, v)))
    BY <1>7, <1>10, <2>1
  <2> QED BY <2>2 DEF InnerNames
<1>12. NamesHeld(Append(s, f), Append(st, v))
  BY <1>6, <1>9, <1>10, <1>11, NamesOfAppended
<1>13. stack' = Append(st, v) /\ frames' = Append(s, f)
  BY <1>1, <1>3
<1> QED BY <1>1, <1>3, <1>4, <1>8, <1>12, <1>13, Zenon DEF ReadsValues

-----------------------------------------------------------------------------
(* The steps at the end of a value.                                        *)

\* The uppermost entries of a stack.
IsUppermost(x, V, st, h, size) ==
    /\ x \in Seq(V) /\ Len(x) = size
    /\ \A i \in 1..size : x[i] = st[h + 1 + i]

LEMMA UppermostAre ==
    ASSUME NEW V, NEW st \in Seq(V), NEW h \in Nat, NEW size \in Nat, Len(st) = h + 1 + size
    PROVE  IsUppermost(SubSeq(st, Len(st) - size + 1, Len(st)), V, st, h, size)
<1> DEFINE a == Len(st) - size + 1
           x == SubSeq(st, a, Len(st))
<1>1. a = h + 2 /\ Len(st) \in Nat
  OBVIOUS
<1>2. \A i \in a..Len(st) : st[i] \in V
  BY <1>1
<1> HIDE DEF a
<1>3. /\ x \in Seq(V) /\ Len(x) = (IF a <= Len(st) THEN Len(st) - a + 1 ELSE 0)
      /\ \A i \in 1..(Len(st) - a + 1) : x[i] = st[a + i - 1]
  BY <1>1, <1>2, SubSeqProperties
<1> HIDE DEF x
<1>4. Len(x) = size
  BY <1>1, <1>3
<1>5. \A i \in 1..size : i \in 1..(Len(st) - a + 1) /\ a + i - 1 = h + 1 + i
  BY <1>1
<1>6. \A i \in 1..size : x[i] = st[h + 1 + i]
  BY <1>3, <1>5
<1> QED BY <1>3, <1>4, <1>6 DEF a, x, IsUppermost

LEMMA LowestEntries ==
    ASSUME NEW st, IsStack(st), NEW n \in Nat, n <= Len(st)
    PROVE  /\ IsStack(SubSeq(st, 1, n)) /\ Len(SubSeq(st, 1, n)) = n
           /\ \A i \in 1..n : SubSeq(st, 1, n)[i] = st[i]
<1> DEFINE S == Range(st)
<1>1. st \in Seq(S) /\ Len(st) \in Nat
  BY LenProperties DEF IsStack
<1> HIDE DEF S
<1>2. \A i \in 1..n : st[i] \in S
  BY <1>1, ElementOfSeq
<1>3. \A i \in 1..(n - 1 + 1) : SubSeq(st, 1, n)[i] = st[1 + i - 1]
  BY <1>2, SubSeqProperties
<1>4. \A i \in 1..n : i \in 1..(n - 1 + 1) /\ 1 + i - 1 = i
  OBVIOUS
<1> QED BY <1>3, <1>4, LowestStack

\* Members, from names and values in turn.
MembersAre(values, count) ==
    [i \in 1..count |-> <<pairs(values)[i][1][2], pairs(values)[i][2]>>]

LEMMA PairsMake ==
    ASSUME NEW V, NEW values \in Seq(V), NEW count \in Nat, Len(values) = 2 * count,
           \A i \in 1..count : values[2 * i - 1] \in NameTexts
    PROVE  MembersAre(values, count) \in Seq(Seq(Characters) \X V)
<1>1. Len(values) \div 2 = count
  OBVIOUS
<1>2. pairs(values) = [i \in 1..count |-> <<values[2 * i - 1], values[2 * i]>>]
  BY <1>1 DEF pairs
<1>3. PICK P : P = Seq(Characters) \X V
  OBVIOUS
<1>4. ASSUME NEW i \in 1..count
      PROVE  <<pairs(values)[i][1][2], pairs(values)[i][2]>> \in P
  <2>1. pairs(values)[i] = <<values[2 * i - 1], values[2 * i]>>
    BY <1>2
  <2>2. 2 * i \in 1..Len(values)
    OBVIOUS
  <2>3. values[2 * i] \in V
    BY <2>2
  <2>4. values[2 * i - 1][2] \in Seq(Characters)
    <3>1. values[2 * i - 1] \in {"string"} \X Seq(Characters)
      BY DEF NameTexts
    <3> QED BY <3>1
  <2>5. <<values[2 * i - 1][2], values[2 * i]>> \in P
    BY <1>3, <2>3, <2>4
  <2> QED BY <2>1, <2>5
<1>5. \A i \in 1..count : MembersAre(values, count)[i] \in P
  BY <1>4 DEF MembersAre
<1>6. MembersAre(values, count) \in [1..count -> P]
  BY <1>4 DEF MembersAre
<1>7. MembersAre(values, count) \in Seq(P)
  BY <1>6
<1> QED BY <1>3, <1>7

LEMMA EndValues ==
    ASSUME IInv, ReadsValues, frames # <<>>, NEW bracket, bracket # "end", NEW count \in Nat,
           end(bracket, count),
           Pending + Held(Last(frames)) =
              1 + (IF Last(frames).kind = "object" THEN 2 * count ELSE count),
           count <= Last(frames).count + 1
    PROVE  ReadsValues'
<1> DEFINE size == IF Last(frames).kind = "object" THEN 2 * count ELSE count
           values == top(size)
           made == IF Last(frames).kind = "object" THEN <<"object", MembersAre(values, count)>>
                   ELSE <<"array", values>>
<1>1. PICK u \in Seq(Frames), f \in Frames :
              /\ frames = Append(u, f) /\ Front(frames) = u /\ Last(frames) = f
              /\ Len(u) \in Nat /\ Len(frames) = Len(u) + 1
              /\ \A i \in 1..Len(u) : frames[i] = u[i]
              /\ f.count < src /\ f.count \in Nat
              /\ Base(frames) = Height(u) + Held(f)
              /\ Height(u) \in Nat
  BY Innermost DEF IInv
<1>2. f.kind \in {"object", "array"}
  BY DEF Frames
<1>3. /\ Take /\ Peek # "end" /\ alphabet' = alphabet
      /\ UNCHANGED <<chars, root>>
      /\ frames' = u
      /\ stack' = Append(SubSeq(stack, 1, Len(stack) - size - 1), made)
  <2>1. /\ Take /\ Peek # "end" /\ UNCHANGED <<alphabet, number, root>>
        /\ endContainer(Last(frames).kind, count)
    BY DEF end
  <2>2. /\ frames' = Front(frames)
        /\ stack' = Append(SubSeq(stack, 1, Len(stack) - size - 1), made)
    BY <1>1, <1>2, <2>1 DEF endContainer, MembersAre
  <2> QED BY <1>1, <2>1, <2>2 DEF number
<1>4. size \in Nat
  OBVIOUS
<1>5. size = IF f.kind = "object" THEN 2 * count ELSE count
  BY <1>1
<1>6. Pending + Held(f) = 1 + size
  BY <1>1
<1>7. made = IF f.kind = "object" THEN <<"object", MembersAre(values, count)>>
             ELSE <<"array", values>>
  BY <1>1
<1> HIDE DEF size, made
<1>8. Pending \in Nat /\ Held(f) \in Nat
  BY HeldIsNatural DEF Pending
<1>9. Len(stack) = Height(u) + 1 + size
  <2>1. Len(stack) = Pending + (Height(u) + Held(f)) /\ Height(u) \in Nat
    BY <1>1 DEF IInv
  <2> QED BY <1>4, <1>6, <1>8, <2>1
<1>10. Len(stack) - size - 1 = Height(u) /\ Height(u) <= Len(stack)
  BY <1>1, <1>4, <1>9
<1>11. src \in Nat /\ src' = src + 1
  BY <1>3, TakeAdvances DEF IInv, StreamOK
<1>12. PICK n, V, st, h, m :
         /\ n \in Nat /\ n = src /\ V = JsonValues[n] /\ st = stack
         /\ h \in Nat /\ h = Height(u) /\ m = made
  BY <1>1, <1>11
<1>13. IsStack(st) /\ AreHeld(st, n) /\ NamesHeld(Append(u, f), st)
  BY <1>1, <1>12 DEF IInv, ReadsValues
<1>14. st \in Seq(V)
  <2>1. st \in Seq(Range(st)) /\ \A i \in 1..Len(st) : st[i] \in V
    BY <1>12, <1>13 DEF IsStack, AreHeld
  <2>2. PICK R : R = Range(st)
    OBVIOUS
  <2>3. st \in Seq(R)
    BY <2>1, <2>2
  <2> QED BY <2>1, <2>3
<1>15. NamesHeld(u, st) /\ InnerNames(h, f, st)
  BY <1>12, <1>13, NamesOfAppended
<1>16. PICK x : x = values
  OBVIOUS
<1>17. x \in Seq(V) /\ Len(x) = size /\ \A i \in 1..size : x[i] = st[h + 1 + i]
  <2>1. Len(st) = h + 1 + size
    BY <1>9, <1>12
  <2>2. x = SubSeq(st, Len(st) - size + 1, Len(st))
    BY <1>12, <1>16 DEF top
  <2>3. PICK k \in Nat : k = size
    BY <1>4
  <2>4. Len(st) = h + 1 + k
    BY <2>1, <2>3
  <2>5. IsUppermost(SubSeq(st, Len(st) - k + 1, Len(st)), V, st, h, k)
    BY <1>12, <1>14, <2>4, UppermostAre
  <2>6. IsUppermost(x, V, st, h, size)
    BY <2>2, <2>3, <2>5
  <2> QED BY <2>6 DEF IsUppermost
<1> HIDE DEF values
<1>18. m \in JsonValues[n + 1]
  <2>1. CASE f.kind = "object"
    <3>1. Len(x) = 2 * count
      BY <1>5, <1>17, <2>1
    <3>2. ASSUME NEW i \in 1..count
          PROVE  x[2 * i - 1] \in NameTexts
      <4>1. i - 1 \in 0..f.count
        BY <1>1
      <4>2. 2 * i - 1 \in 1..size /\ h + 2 + 2 * (i - 1) = h + 1 + (2 * i - 1)
        BY <1>12, <2>1, <1>5
      <4>3. h + 2 + 2 * (i - 1) <= Len(st)
        BY <1>4, <1>9, <1>12, <4>2
      <4>4. st[h + 2 + 2 * (i - 1)] \in NameTexts
        BY <1>15, <2>1, <4>1, <4>3 DEF InnerNames
      <4> QED BY <1>17, <4>2, <4>4
    <3>3. MembersAre(x, count) \in Seq(Seq(Characters) \X V)
      BY <1>17, <3>1, <3>2, PairsMake
    <3>4. PICK y : y = MembersAre(x, count)
      OBVIOUS
    <3>5. <<"object", y>> \in JsonValues[n + 1]
      <4>1. y \in Seq(Seq(Characters) \X JsonValues[n])
        BY <1>12, <3>3, <3>4, Zenon
      <4> QED BY <1>12, <4>1, ContainerValues, Zenon
    <3>6. m = <<"object", y>>
      BY <1>7, <1>12, <1>16, <2>1, <3>4
    <3> QED BY <3>5, <3>6
  <2>2. CASE f.kind # "object"
    <3>1. <<"array", x>> \in JsonValues[n + 1]
      BY <1>12, <1>17, ContainerValues
    <3> QED BY <1>7, <1>12, <1>16, <2>2, <3>1
  <2> QED BY <2>1, <2>2
<1> DEFINE low == SubSeq(st, 1, h)
<1>19. IsStack(low) /\ Len(low) = h /\ \A i \in 1..h : low[i] = st[i]
  BY <1>10, <1>12, <1>13, LowestEntries
<1>20. stack' = Append(low, m)
  BY <1>3, <1>10, <1>12
<1> HIDE DEF low
<1>21. AreHeld(low, n + 1)
  <2>1. AreHeld(low, n)
    <3>1. h <= Len(st) /\ Len(st) \in Nat
      BY <1>10, <1>12, <1>14
    <3> QED BY <1>12, <1>13, <1>19, <3>1 DEF AreHeld
  <2>2. PICK k \in Nat : k = n + 1
    BY <1>12
  <2> QED BY <1>12, <2>1, <2>2, HeldLater
<1>22. AreHeld(Append(low, m), n + 1)
  BY <1>18, <1>19, <1>21, HeldWithOneMore
<1>23. NamesHeld(u, low)
  <2>1. \A k \in 1..Height(u) : k <= Len(low) => k <= Len(st) /\ low[k] = st[k]
    BY <1>9, <1>10, <1>12, <1>19
  <2> QED BY <1>15, <2>1, NamesStay
<1>24. NamesHeld(u, Append(low, m))
  BY <1>12, <1>19, <1>23, NamesPushed
<1>25. root \in JsonValues[n + 1]
  <2>1. PICK k \in Nat : k = n + 1 /\ n <= k
    BY <1>12
  <2> QED BY <1>12, <2>1, Deeper DEF ReadsValues
<1>26. src' = n + 1
  BY <1>11, <1>12
<1> QED BY <1>3, <1>20, <1>22, <1>24, <1>25, <1>26, Zenon DEF ReadsValues

LEMMA ContinueValues ==
    ASSUME IInv, ReadsValues, pc = "behindValue", frames # <<>>, NEW place, continue(place)
    PROVE  ReadsValues'
<1>1. PICK u \in Seq(Frames), f \in Frames :
              /\ frames = Append(u, f) /\ Front(frames) = u /\ Last(frames) = f
              /\ Len(u) \in Nat /\ Len(frames) = Len(u) + 1
              /\ \A i \in 1..Len(u) : frames[i] = u[i]
              /\ f.count < src /\ f.count \in Nat
              /\ Base(frames) = Height(u) + Held(f)
              /\ Height(u) \in Nat
  BY Innermost DEF IInv
<1>2. /\ Take /\ Peek # "end" /\ alphabet' = alphabet
      /\ UNCHANGED <<chars, root, stack>>
      /\ frames' = [frames EXCEPT ![Len(frames)].count = f.count + 1]
  <2>1. counted(Last(frames)) = f.count + 1
    BY <1>1 DEF counted
  <2> QED BY <2>1 DEF continue, number
<1> DEFINE g == [f EXCEPT !.count = f.count + 1]
<1>3. /\ g \in Frames /\ g.count = f.count + 1 /\ g.kind = f.kind
  BY <1>1 DEF Frames
<1>4. frames' = Append(u, g)
  <2>1. frames[Len(frames)] = f
    BY <1>1
  <2>2. frames' = [frames EXCEPT ![Len(u) + 1] = g]
    BY <1>1, <1>2, <2>1
  <2>3. LastBecomes(u, f, g)
    BY <1>3, LastChanged
  <2> QED BY <1>1, <2>2, <2>3, Zenon DEF LastBecomes
<1> HIDE DEF g
<1>5. src \in Nat /\ src' = src + 1
  BY <1>2, TakeAdvances DEF IInv, StreamOK
<1>6. PICK n, m, st : /\ n \in Nat /\ m \in Nat /\ n = src /\ m = src' /\ n <= m /\ st = stack
  BY <1>5
<1>7. IsStack(st) /\ AreHeld(st, n) /\ NamesHeld(Append(u, f), st)
  BY <1>1, <1>6 DEF IInv, ReadsValues
<1>8. NamesHeld(u, st) /\ InnerNames(Height(u), f, st)
  BY <1>7, NamesOfAppended
<1>9. InnerNames(Height(u), g, st)
  <2> SUFFICES ASSUME g.kind = "object", NEW j \in 0..g.count, Height(u) + 2 + 2 * j <= Len(st)
               PROVE  st[Height(u) + 2 + 2 * j] \in NameTexts
    BY DEF InnerNames
  <2>1. Pending = 2
    BY <1>1, <1>3, PendingPlaces DEF PendingPlace, Inside
  <2>2. Held(f) = 1 + 2 * f.count
    BY <1>3 DEF Held
  <2>3. Len(st) = 2 + (Height(u) + (1 + 2 * f.count))
    BY <1>1, <1>6, <2>1, <2>2 DEF IInv
  <2>4. j # f.count + 1
    BY <1>1, <2>3
  <2>5. j \in 0..f.count
    BY <1>1, <1>3, <2>4
  <2> QED BY <1>3, <1>8, <2>5 DEF InnerNames
<1>10. NamesHeld(Append(u, g), st)
  BY <1>3, <1>8, <1>9, NamesOfAppended
<1>11. AreHeld(st, m)
  BY <1>6, <1>7, HeldLater
<1>12. root \in JsonValues[m]
  BY <1>6, Deeper DEF ReadsValues
<1>13. stack' = st
  BY <1>2, <1>6
<1> QED BY <1>2, <1>4, <1>6, <1>10, <1>11, <1>12, <1>13, Zenon DEF ReadsValues

LEMMA parseEndValues ==
    ASSUME IInv, ReadsValues, parseEnd
    PROVE  ReadsValues'
<1>1. CASE fail(kParseErrorDocumentRootNotSingular)
  <2>1. /\ Advances /\ frames' = <<>> /\ stack' = <<>> /\ UNCHANGED <<chars, root>>
    BY <1>1 DEF fail, Advances, number
  <2>2. chars' \in Seq(Characters)
    BY <2>1 DEF ReadsValues
  <2> QED BY <2>1, <2>2, FailValues
<1>2. CASE /\ root' = Last(stack) /\ stack' = Front(stack)
           /\ UNCHANGED <<alphabet, stream, frames, number, isKey, error>>
  <2>1. pc = "behindValue" /\ frames = <<>>
    BY DEF parseEnd, at
  <2>2. Len(stack) = 1
    <3>1. Pending = 1 /\ Base(frames) = 0
      BY <2>1, PendingPlaces DEF PendingPlace, Inside, Base
    <3> QED BY <3>1 DEF IInv
  <2>3. root' = stack[1] /\ stack' = SubSeq(stack, 1, 0)
    BY <1>2, <2>2 DEF Last, Front
  <2>4. PICK st, n : st = stack /\ n = src
    OBVIOUS
  <2>5. IsStack(st) /\ AreHeld(st, n) /\ Len(st) = 1
    BY <2>2, <2>4 DEF IInv, ReadsValues
  <2>6. st[1] \in JsonValues[n]
    BY <2>5 DEF AreHeld
  <2>7. Len(SubSeq(st, 1, 0)) = 0
    BY <2>5, LowestStack
  <2>8. AreHeld(SubSeq(st, 1, 0), n)
    BY <2>7 DEF AreHeld
  <2>9. NamesHeld(<<>>, SubSeq(st, 1, 0))
    BY DEF NamesHeld
  <2>10. src' = n /\ frames' = <<>> /\ chars' = chars /\ root' = st[1] /\ stack' = SubSeq(st, 1, 0)
    BY <1>2, <2>1, <2>3, <2>4 DEF stream, number
  <2> QED BY <2>6, <2>8, <2>9, <2>10, Zenon DEF ReadsValues
<1> QED BY <1>1, <1>2 DEF parseEnd

-----------------------------------------------------------------------------
(* The steps of the reader, with what they make.                           *)

LEMMA failValues ==
    ASSUME IInv, ReadsValues, NEW code, fail(code)
    PROVE  ReadsValues'
<1>1. Advances /\ frames' = <<>> /\ stack' = <<>> /\ root' = root /\ chars' = chars
  BY DEF fail, Advances, number
<1>2. chars' \in Seq(Characters)
  BY <1>1 DEF ReadsValues
<1> QED BY <1>1, <1>2, FailValues

LEMMA QuietStep ==
    ASSUME IInv, ReadsValues, Advances, UNCHANGED <<frames, stack, root, chars>>
    PROVE  ReadsValues'
  BY QuietValues DEF ReadsValues

LEMMA gotoValues ==
    ASSUME IInv, ReadsValues, NEW place, goto(place)
    PROVE  ReadsValues'
  BY QuietStep DEF goto, Advances, number

LEMMA AppendsCharacter ==
    ASSUME ReadsValues, NEW c \in Characters, chars' = Append(chars, c)
    PROVE  chars' \in Seq(Characters)
  BY DEF ReadsValues

LEMMA takePutValues ==
    ASSUME IInv, ReadsValues, NEW c \in Characters, NEW place, Peek # "end", takePut(c, place)
    PROVE  ReadsValues'
<1>1. Advances /\ UNCHANGED <<frames, stack, root>> /\ chars' = Append(chars, c)
  BY DEF takePut, Advances
<1> QED BY <1>1, AppendsCharacter, QuietValues

LEMMA takePeekValues ==
    ASSUME IInv, ReadsValues, NEW place, Peek # "end", takePut(Peek, place)
    PROVE  ReadsValues'
<1>1. PICK c : c = Peek
  OBVIOUS
<1>2. c \in Characters
  BY <1>1, PeekIsCharacter DEF IInv
<1> QED BY <1>1, <1>2, takePutValues

LEMMA takeOnlyValues ==
    ASSUME IInv, ReadsValues, NEW place, Peek # "end", takeOnly(place)
    PROVE  ReadsValues'
  BY QuietStep DEF takeOnly, Advances, number

LEMMA beginStringValues ==
    ASSUME IInv, ReadsValues, NEW key, beginString(key)
    PROVE  ReadsValues'
<1>1. Advances /\ UNCHANGED <<frames, stack, root>> /\ chars' = <<>>
  BY DEF beginString, Advances
<1>2. <<>> \in Seq(Characters)
  OBVIOUS
<1> QED BY <1>1, <1>2, QuietValues

LEMMA ParseValueValues ==
    ASSUME IInv, ReadsValues, ParseValue
    PROVE  ReadsValues'
<1>1. pc = "value"
  BY DEF ParseValue, at
<1>2. CASE begin("object", "{", "firstMember")
  <2>1. begin("object", Left, "firstMember")
    BY <1>2, Zenon DEF Left
  <2>2. Left # "end"
    BY Zenon DEF Left
  <2> QED BY <1>1, <2>1, <2>2, BeginValues
<1>3. CASE begin("array", "[", "firstElement")
  BY <1>1, <1>3, BeginValues
<1>4. CASE beginString(FALSE)
  BY <1>4, beginStringValues
<1>5. CASE wholeString(FALSE)
  BY <1>5, TokenEvent
<1>6. CASE goto("minus")
  BY <1>6, gotoValues
<1> QED BY <1>2, <1>3, <1>4, <1>5, <1>6 DEF ParseValue

LEMMA ParseObjectValues ==
    ASSUME IInv, ReadsValues, ParseObject
    PROVE  ReadsValues'
<1>1. CASE at("firstMember") /\ (end("}", 0) \/ goto("member"))
  <2>1. pc = "firstMember" /\ Inside("object") /\ Last(frames).count = 0
    BY <1>1 DEF at, IInv, Placed
  <2>2. Pending + Held(Last(frames)) = 1 + 2 * 0
    BY <2>1, PendingPlaces DEF PendingPlace, Inside, Held
  <2>3. CASE end("}", 0)
    <3>1. frames # <<>> /\ Last(frames).kind = "object" /\ 0 \in Nat /\ "}" # "end"
      BY <2>1 DEF Inside
    <3>2. Pending + Held(Last(frames)) =
             1 + (IF Last(frames).kind = "object" THEN 2 * 0 ELSE 0)
      BY <2>2, <3>1
    <3>3. 0 <= Last(frames).count + 1
      BY <2>1
    <3> QED BY <2>3, <3>1, <3>2, <3>3, EndValues
  <2>4. CASE goto("member")
    BY <2>4, gotoValues
  <2> QED BY <1>1, <2>3, <2>4
<1>2. CASE beginString(TRUE)
  BY <1>2, beginStringValues
<1>3. CASE wholeString(TRUE)
  BY <1>3, TokenEvent
<1>4. CASE \/ fail(kParseErrorObjectMissName) \/ fail(kParseErrorObjectMissColon)
           \/ fail(kParseErrorObjectMissCommaOrCurlyBracket)
  BY <1>4, failValues
<1>5. CASE /\ Peek = ":" /\ Take
           /\ UNCHANGED <<alphabet, frames, number, isKey, stack, error, root>>
  BY <1>5, QuietStep DEF Advances, number
<1>6. CASE /\ at("behindValue") /\ frames # <<>> /\ Last(frames).kind = "object"
           /\ continue("member")
  BY <1>6, ContinueValues DEF at
<1>7. CASE /\ at("behindValue") /\ frames # <<>> /\ Last(frames).kind = "object"
           /\ end("}", counted(Last(frames)))
  <2>1. pc = "behindValue" /\ Inside("object")
    BY <1>7 DEF at, Inside
  <2>2. Last(frames).count \in Nat
    BY <1>7, Innermost DEF IInv
  <2> DEFINE count == Last(frames).count + 1
  <2>3. count \in Nat /\ counted(Last(frames)) = count /\ count <= Last(frames).count + 1
    BY <2>2 DEF counted
  <2>4. Pending + Held(Last(frames)) = 1 + 2 * count
    <3>1. Pending = 2 /\ Held(Last(frames)) = 1 + 2 * Last(frames).count
      BY <2>1, PendingPlaces DEF PendingPlace, Inside, Held
    <3> QED BY <2>2, <3>1
  <2> HIDE DEF count
  <2> QED BY <1>7, <2>3, <2>4, EndValues
<1> QED BY <1>1, <1>2, <1>3, <1>4, <1>5, <1>6, <1>7 DEF ParseObject

LEMMA ParseArrayValues ==
    ASSUME IInv, ReadsValues, ParseArray
    PROVE  ReadsValues'
<1>1. CASE at("firstElement") /\ (end("]", 0) \/ goto("value"))
  <2>1. pc = "firstElement" /\ Inside("array") /\ Last(frames).count = 0
    BY <1>1 DEF at, IInv, Placed
  <2>2. Pending + Held(Last(frames)) = 1 + 0
    BY <2>1, PendingPlaces DEF PendingPlace, Inside, Held
  <2>3. CASE end("]", 0)
    BY <2>1, <2>2, <2>3, EndValues DEF Inside
  <2>4. CASE goto("value")
    BY <2>4, gotoValues
  <2> QED BY <1>1, <2>3, <2>4
<1>2. CASE /\ at("behindValue") /\ frames # <<>> /\ Last(frames).kind = "array"
           /\ continue("value")
  BY <1>2, ContinueValues DEF at
<1>3. CASE /\ at("behindValue") /\ frames # <<>> /\ Last(frames).kind = "array"
           /\ end("]", counted(Last(frames)))
  <2>1. pc = "behindValue" /\ Inside("array") /\ ~Inside("object")
    BY <1>3 DEF at, Inside
  <2>2. Last(frames).count \in Nat
    BY <1>3, Innermost DEF IInv
  <2> DEFINE count == Last(frames).count + 1
  <2>3. count \in Nat /\ counted(Last(frames)) = count /\ count <= Last(frames).count + 1
    BY <2>2 DEF counted
  <2>4. Pending + Held(Last(frames)) = 1 + count
    <3>1. Pending = 1
      BY <2>1, PendingPlaces DEF PendingPlace
    <3>2. Held(Last(frames)) = 1 + Last(frames).count
      BY <1>3 DEF Held
    <3> QED BY <2>2, <3>1, <3>2
  <2> HIDE DEF count
  <2> QED BY <1>3, <2>3, <2>4, EndValues
<1>4. CASE fail(kParseErrorArrayMissCommaOrSquareBracket)
  BY <1>4, failValues
<1> QED BY <1>1, <1>2, <1>3, <1>4 DEF ParseArray

LEMMA ParseStringValues ==
    ASSUME IInv, ReadsValues, parseCharacter \/ parseEscape \/ parseSurrogate
    PROVE  ReadsValues'
<1>0. "newline" \in Characters /\ "nul" \in Characters /\ "wide" \in Characters
  BY EscapesAreCharacters
<1>1. CASE parseCharacter
  <2>1. CASE Peek = "backslash" /\ takeOnly("escape")
    BY <2>1, takeOnlyValues
  <2>2. CASE /\ Peek = "quote" /\ Take
             /\ event(<<"string", chars>>, IF isKey THEN "colon" ELSE "behindValue")
             /\ UNCHANGED <<alphabet, frames, number, isKey, error, root>>
    <3>1. /\ Advances /\ stack' = Append(stack, <<"string", chars>>)
          /\ UNCHANGED <<frames, root, chars>>
      BY <2>2 DEF event, Advances, number
    <3>2. PICK s \in Seq(Characters) : s = chars
      BY DEF ReadsValues
    <3> QED BY <3>1, <3>2, StringEvent
  <2>3. CASE \/ fail(kParseErrorStringMissQuotationMark)
             \/ fail(kParseErrorStringInvalidEncoding)
    BY <2>3, failValues
  <2>4. CASE ~atEnd /\ takePut(Peek, "string")
    BY <2>4, takePeekValues DEF atEnd
  <2> QED BY <1>1, <2>1, <2>2, <2>3, <2>4 DEF parseCharacter
<1>2. CASE parseEscape
  <2>1. CASE Peek \in {"quote", "backslash"} /\ takePut(Peek, "string")
    BY <2>1, takePeekValues
  <2>2. CASE Peek = "n" /\ takePut("newline", "string")
    BY <1>0, <2>2, takePutValues
  <2>3. CASE Peek = "u0000" /\ takePut("nul", "string")
    BY <1>0, <2>3, takePutValues
  <2>4. CASE Peek = "uD83D" /\ takeOnly("surrogate")
    BY <2>4, takeOnlyValues
  <2>5. CASE \/ fail(kParseErrorStringUnicodeSurrogateInvalid)
             \/ fail(kParseErrorStringUnicodeEscapeInvalidHex)
             \/ fail(kParseErrorStringEscapeInvalid)
    BY <2>5, failValues
  <2> QED BY <1>2, <2>1, <2>2, <2>3, <2>4, <2>5 DEF parseEscape
<1>3. CASE parseSurrogate
  <2>1. CASE Peek = "backslash" /\ takeOnly("lowSurrogate")
    BY <2>1, takeOnlyValues
  <2>2. CASE Peek = "uDE00" /\ takePut("wide", "string")
    BY <1>0, <2>2, takePutValues
  <2>3. CASE \/ fail(kParseErrorStringUnicodeSurrogateInvalid)
             \/ fail(kParseErrorStringUnicodeEscapeInvalidHex)
    BY <2>3, failValues
  <2> QED BY <1>3, <2>1, <2>2, <2>3 DEF parseSurrogate
<1> QED BY <1>1, <1>2, <1>3

LEMMA ParseNumberValues ==
    ASSUME IInv, ReadsValues, ParseNumber
    PROVE  ReadsValues'
<1>1. \A d \in Digits : d # "end"
  BY DEF Digits
<1>2. ASSUME Peek # "end"
      PROVE  Peek \in Characters
  BY <1>2, PeekIsCharacter DEF IInv
<1>3. ASSUME Peek # "end", Take, UNCHANGED <<alphabet, frames, stack, root>>,
             chars' = Append(chars, Peek)
      PROVE  ReadsValues'
  <2>1. Advances /\ Peek \in Characters
    BY <1>2, <1>3 DEF Advances
  <2>2. PICK c \in Characters : c = Peek
    BY <2>1
  <2>3. chars' \in Seq(Characters)
    BY <1>3, <2>2, AppendsCharacter
  <2> QED BY <1>3, <2>1, <2>3, QuietValues
<1>4. ASSUME NEW place, Peek # "end", takePut(Peek, place)
      PROVE  ReadsValues'
  BY <1>4, takePeekValues
<1>5. ASSUME NEW place, goto(place)
      PROVE  ReadsValues'
  BY <1>5, gotoValues
<1>6. ASSUME NEW code, fail(code)
      PROVE  ReadsValues'
  BY <1>6, failValues
<1>7. CASE parseMinus
  <2>1. CASE Peek = "-" /\ Take /\ chars' = <<Peek>>
    <3>1. Peek \in Characters
      BY <1>2, <2>1
    <3>2. chars' \in Seq(Characters)
      BY <2>1, <3>1
    <3>3. Advances /\ UNCHANGED <<frames, stack, root>>
      BY <1>7, <2>1 DEF parseMinus, Advances
    <3> QED BY <3>2, <3>3, QuietValues
  <2>2. CASE chars' = <<>> /\ UNCHANGED stream
    <3>1. chars' \in Seq(Characters)
      BY <2>2
    <3>2. Advances /\ UNCHANGED <<frames, stack, root>>
      BY <1>7, <2>2 DEF parseMinus, Advances
    <3> QED BY <3>1, <3>2, QuietValues
  <2> QED BY <1>7, <2>1, <2>2 DEF parseMinus
<1>8. CASE parseInt
  <2>1. CASE Peek = "0" /\ takePut(Peek, "fraction")
    BY <1>4, <2>1
  <2>2. CASE Peek = "1" /\ takePut(Peek, "digits32")
    BY <1>4, <2>2
  <2> QED BY <1>6, <1>8, <2>1, <2>2 DEF parseInt
<1>9. CASE parseDigits
  <2>1. \E here, next :
            \/ Peek \in Digits /\ takePut(Peek, here)
            \/ goto(next)
            \/ goto("fraction")
    BY <1>9 DEF parseDigits
  <2> QED BY <1>1, <1>4, <1>5, <2>1
<1>10. ASSUME fractionDigit
       PROVE  ReadsValues'
  BY <1>1, <1>3, <1>10 DEF fractionDigit
<1>11. CASE parseFraction
  <2>1. CASE Peek = "." /\ takePut(Peek, "fractionFirst")
    BY <1>4, <2>1
  <2> QED BY <1>5, <1>6, <1>10, <1>11, <2>1 DEF parseFraction
<1>12. ASSUME exponentDigit
       PROVE  ReadsValues'
  <2>1. /\ Peek # "end" /\ Take /\ UNCHANGED <<alphabet, root>> /\ chars' = Append(chars, Peek)
    BY <1>1, <1>12 DEF exponentDigit
  <2>2. CASE frames' = <<>> /\ stack' = <<>>
    <3>1. Advances /\ Peek \in Characters
      BY <1>2, <2>1 DEF Advances
    <3>2. PICK c \in Characters : c = Peek
      BY <3>1
    <3>3. chars' \in Seq(Characters)
      BY <2>1, <3>2, AppendsCharacter
    <3> QED BY <2>1, <2>2, <3>1, <3>3, FailValues
  <2>3. CASE UNCHANGED <<error, frames, stack>>
    BY <1>3, <2>1, <2>3
  <2> QED BY <1>12, <2>2, <2>3 DEF exponentDigit
<1>13. CASE parseExponent
  <2>1. CASE Peek = "e" /\ takePut(Peek, "exponentSign")
    BY <1>4, <2>1
  <2>2. CASE Peek = "+" /\ takePut(Peek, "exponentFirst")
    BY <1>4, <2>2
  <2>3. CASE /\ Peek = "-" /\ Take /\ chars' = Append(chars, Peek)
             /\ UNCHANGED <<alphabet, frames, isKey, stack, error, root>>
    BY <1>3, <2>3
  <2> QED BY <1>5, <1>6, <1>12, <1>13, <2>1, <2>2, <2>3 DEF parseExponent
<1>14. CASE endNumber
  <2>1. /\ Advances /\ stack' = Append(stack, <<"number", chars>>)
        /\ UNCHANGED <<frames, root, chars>>
    BY <1>14 DEF endNumber, event, Advances, number
  <2>2. PICK s \in Seq(Characters) : s = chars
    BY DEF ReadsValues
  <2>3. pc \in ValuePlaces
    BY <1>14 DEF endNumber, at, ValuePlaces
  <2> QED BY <2>1, <2>2, <2>3, NumberEvent
<1> QED BY <1>7, <1>8, <1>9, <1>11, <1>13, <1>14 DEF ParseNumber

LEMMA BegunValues ==
    <<>> \in Seq(Characters) /\ Null \in JsonValues[1] /\ AreHeld(<<>>, 1) /\ NamesHeld(<<>>, <<>>)
<1>1. Null \in JsonValues[1]
  <2>1. "null" \in Literals
    BY DEF Literals
  <2>2. <<"null", <<>>>> \in JsonValues[1]
    BY <2>1, AreValues
  <2> QED BY <2>2 DEF Null
<1> QED BY <1>1 DEF AreHeld, NamesHeld

LEMMA NextReadsValues ==
    ASSUME IInv, ReadsValues, [ReaderNext \/ Restart]_readerVars
    PROVE  ReadsValues'
<1>1. CASE SkipWhitespace
  BY <1>1, QuietStep DEF SkipWhitespace, Advances, number
<1>2. CASE Parse
  BY <1>2, failValues, gotoValues DEF Parse
<1>3. CASE parseEnd
  BY <1>3, parseEndValues
<1>4. CASE ParseLiteral
  BY <1>4, LiteralEvent
<1>5. CASE ParseValue
  BY <1>5, ParseValueValues
<1>6. CASE ParseObject
  BY <1>6, ParseObjectValues
<1>7. CASE ParseArray
  BY <1>7, ParseArrayValues
<1>8. CASE parseCharacter \/ parseEscape \/ parseSurrogate
  BY <1>8, ParseStringValues
<1>9. CASE ParseNumber
  BY <1>9, ParseNumberValues
<1>10. CASE Restart
  BY <1>10, BegunValues DEF Restart, ReadsValues
<1>11. CASE UNCHANGED readerVars
  BY <1>11 DEF readerVars, number, stream, ReadsValues
<1> QED BY <1>1, <1>2, <1>3, <1>4, <1>5, <1>6, <1>7, <1>8, <1>9, <1>10, <1>11 DEF ReaderNext

\* What the reader has made, and is making, of any text are values that Accept
\* is defined for: the names of members are strings, and a value has no more
\* containers in one another than its text has elements.
THEOREM ReaderValues == ReaderSpec => [](IInv /\ ReadsValues)
<1>1. ReaderStart => ReadsValues
  BY BegunValues DEF ReaderStart, ReadsValues
<1>2. IInv /\ ReadsValues /\ [ReaderNext \/ Restart]_readerVars => ReadsValues'
  BY NextReadsValues
<1>3. ReaderSpec => []IInv
  BY Invariance
<1> QED BY <1>1, <1>2, <1>3, PTL DEF ReaderSpec

-----------------------------------------------------------------------------
(* jsonToString.                                                           *)

LEMMA ExchangeBegins ==
    ExchangeInit => ReaderStart /\ alphabet \in Alphabets /\ text \in Seq(STRING) /\ complete \in BOOLEAN
<1> SUFFICES ASSUME ExchangeInit
             PROVE  ReaderStart /\ alphabet \in Alphabets /\ text \in Seq(STRING) /\ complete \in BOOLEAN
  OBVIOUS
<1>1. ASSUME NEW a \in Alphabets, NEW c \in a
      PROVE  <<c>> \in Seq(STRING)
  <2>1. PICK S : S = STRING
    OBVIOUS
  <2>2. c \in S
    BY <2>1, AlphabetsAreStrings
  <2>3. <<c>> \in Seq(S)
    BY <2>2
  <2> QED BY <2>1, <2>3
<1>2. TRUE \in BOOLEAN /\ FALSE \in BOOLEAN /\ <<>> \in Seq(STRING)
  OBVIOUS
<1>3. CASE ReaderInit
  <2>1. ReaderStart /\ alphabet \in Alphabets
    BY <1>3 DEF ReaderInit
  <2>2. CASE text = <<>> /\ complete = TRUE
    BY <1>2, <2>1, <2>2
  <2>3. CASE \E c \in alphabet : text = <<c>> /\ complete = FALSE
    BY <1>1, <1>2, <2>1, <2>3
  <2> QED BY <1>3, <2>2, <2>3 DEF ReaderInit
<1>4. CASE ReaderStart /\ alphabet = Strings /\ text = <<>> /\ complete = FALSE
  BY <1>2, <1>4, AlphabetsOfTheGrammar
<1> QED BY <1>3, <1>4 DEF ExchangeInit

LEMMA ExchangeSteps == [ExchangeNext]_exchangeVars => [ReaderNext \/ Restart]_readerVars
<1> SUFFICES ASSUME [ExchangeNext]_exchangeVars
             PROVE  [ReaderNext \/ Restart]_readerVars
  OBVIOUS
<1>1. CASE collect
  BY <1>1 DEF collect
<1>2. CASE query
  BY <1>2 DEF query, reread
<1>3. CASE read
  BY <1>3 DEF read
<1>4. CASE jsonToString
  BY <1>4 DEF jsonToString, reread
<1>5. CASE Ended
  BY <1>5 DEF Ended, exchangeVars
<1>6. CASE UNCHANGED exchangeVars
  BY <1>6 DEF exchangeVars
<1> QED BY <1>1, <1>2, <1>3, <1>4, <1>5, <1>6 DEF ExchangeNext

\* The reader of the exchange is the one of the proofs before.
LEMMA ExchangeReads == ExchangeSpec => ReaderSpec
  BY ExchangeBegins, ExchangeSteps, PTL DEF ExchangeSpec, ReaderSpec

\* What holds of the reader by itself holds of it here: its variables have their
\* types, the document's stack follows the recursion, and the code of an error
\* leaves a message inside of its literal.
COROLLARY ExchangeKeeps ==
    ExchangeSpec => [](TypeOK /\ StackFollowsFrames /\ MessageStaysInLiteral)
  BY ExchangeReads, TypeCorrect, StackCorrect, MessageCorrect, PTL

\* The reader is at the beginning of a whole text.
Begun(t) ==
    /\ text = t /\ complete /\ src = 1 /\ pc = "document" /\ frames = <<>>
    /\ stack = <<>> /\ error = 0

LEMMA BegunFollows ==
    ASSUME NEW g, IsGuide(g), NEW t, NEW v, Means(t, v) \in g.values
    PROVE  Begun(t)' => Follower(g, v)'
<1>1. Begun(t) => Follower(g, v)
  <2> SUFFICES ASSUME Begun(t)
               PROVE  Follower(g, v)
    OBVIOUS
  <2>1. PICK x \in g.values : x = Means(t, v)
    OBVIOUS
  <2>2. x.text = t /\ x.value = v
    BY <2>1 DEF Means
  <2>3. Follower(g, x.value)
    BY <2>2, FollowerBegins DEF Begun
  <2> QED BY <2>2, <2>3
<1> QED BY <1>1, PTL

\* A writer whose text is read from its beginning.
LEMMA rereadBegins ==
    ASSUME NEW t \in Seq(Elements), NEW w, w = Put(Prefix(NewWriter, FALSE), t), reread(w)
    PROVE  Begun(t)' /\ sound'
<1> DEFINE p == [out |-> <<>>, levels |-> <<>>, hasRoot |-> TRUE, sound |-> TRUE]
<1>1. Prefix(NewWriter, FALSE) = p /\ p \in Writers
  <2>1. FALSE \in BOOLEAN
    OBVIOUS
  <2> QED BY <2>1, NewWriterIs
<1> HIDE DEF p
<1>2. w = [out |-> p.out \o t, levels |-> p.levels, hasRoot |-> p.hasRoot, sound |-> p.sound]
  BY <1>1, PutIs
<1>3. p.out \o t = t
  BY DEF p
<1>4. w = [out |-> t, levels |-> <<>>, hasRoot |-> TRUE, sound |-> TRUE]
  <2>1. p.levels = <<>> /\ p.hasRoot = TRUE /\ p.sound = TRUE
    BY DEF p
  <2> QED BY <1>2, <1>3, <2>1, Zenon
<1>5. w.out = t /\ w.levels = <<>> /\ (w.sound = TRUE) /\ (w.hasRoot = TRUE)
  BY ONLY <1>4
<1>6. sound'
  BY <1>5, Zenon DEF reread
<1>7. Begun(t)'
  BY <1>5 DEF reread, Restart, Begun
<1> QED BY <1>6, <1>7

-----------------------------------------------------------------------------
Cells == Guide(Written, AllValues)

LEMMA CellsAre == IsGreatest(Cells, Written, AllValues) /\ IsGuide(Cells)
  BY WrittenLetters, GreatestIs DEF IsGreatest, Cells

\* A cell is read from a text of the value it was written from.
CellFollows == use = "cell" => sound /\ Follower(Cells, origin)

LEMMA jsonToStringFollows ==
    ASSUME ReadsValues, IInv, jsonToString
    PROVE  CellFollows'
<1>1. PICK v, n : v = root /\ n = src
  OBVIOUS
<1>2. n \in Nat /\ v \in JsonValues[n]
  BY <1>1 DEF ReadsValues, IInv, StreamOK
<1>3. Writes(Accept[n][v], Stringed[n][v], Cells)
  BY <1>2, CellsAre, AcceptWrites
<1>9. PICK o : o = Stringed[n][v]
  OBVIOUS
<1>4. PICK t \in Seq(Elements) : /\ Means(t, o) \in Cells.values
                                 /\ Accept[n][v][NewWriter] = Put(Prefix(NewWriter, FALSE), t)
  BY <1>3, <1>9 DEF Writes, PutsOut, Takes
<1>5. reread(Accept[n][v][NewWriter]) /\ origin' = o
  BY <1>1, <1>9 DEF jsonToString
<1>6. PICK w : w = Accept[n][v][NewWriter]
  OBVIOUS
<1>7. Begun(t)' /\ sound'
  BY <1>4, <1>5, <1>6, rereadBegins
<1>8. Follower(Cells, o)'
  BY <1>4, <1>7, CellsAre, BegunFollows
<1> QED BY <1>5, <1>7, <1>8 DEF CellFollows

LEMMA CellFollowed ==
    ASSUME IInv, ReadsValues, CellFollows, [ExchangeNext]_exchangeVars
    PROVE  CellFollows'
<1>1. CASE collect
  BY <1>1 DEF collect, Collecting, CellFollows
<1>2. CASE query
  BY <1>2 DEF query, Collecting, CellFollows
<1>3. CASE read
  <2> SUFFICES ASSUME use = "cell"
               PROVE  (sound /\ Follower(Cells, origin))'
    BY <1>3 DEF read, CellFollows
  <2>1. PICK v : v = origin
    OBVIOUS
  <2>2. sound /\ Follower(Cells, v) /\ ReaderNext /\ origin' = v /\ sound' = sound
    BY <1>3, <2>1 DEF CellFollows, read
  <2>3. Follower(Cells, v)'
    BY <2>2, FollowerStays
  <2> QED BY <2>2, <2>3
<1>4. CASE jsonToString
  BY <1>4, jsonToStringFollows
<1>5. CASE UNCHANGED exchangeVars
  BY <1>5 DEF exchangeVars, readerVars, stream, number, CellFollows, Follower, Follows, Ahead
<1> QED BY <1>1, <1>2, <1>3, <1>4, <1>5 DEF ExchangeNext, Ended

LEMMA CellEnds ==
    ASSUME CellFollows
    PROVE  CellReadsBack
<1> SUFFICES ASSUME use = "cell", pc = "done"
             PROVE  sound /\ error = 0 /\ root = origin
  BY DEF CellReadsBack
<1>1. PICK v : v = origin
  OBVIOUS
<1>2. sound /\ Follower(Cells, v)
  BY <1>1 DEF CellFollows
<1>3. Done(error, root, Cells, v)
  BY <1>2, FollowerEnds
<1>4. \A x \in Cells.values : x.value # Nothing
  <2> SUFFICES ASSUME NEW x \in Cells.values
               PROVE  x.value # Nothing
    OBVIOUS
  <2>1. x.value \in AllValues
    BY CellsAre, GreatestTyped
  <2>2. PICK n \in Nat : x.value \in JsonValues[n]
    BY <2>1 DEF AllValues
  <2> QED BY <2>2, NothingIsNone
<1> QED BY <1>1, <1>2, <1>3, <1>4 DEF Done

\* What jsonToString of Query.cxx returns for an array or an object in an answer
\* denotes it with each of its numbers as the string of its digits, so that [1]
\* is returned as ["1"], whatever the answer: with all escapes of its strings, in
\* all depths, and with no assertion of the writer's failed on the way.
THEOREM CellReturns == ExchangeSpec => []CellReadsBack
<1>1. ExchangeInit => CellFollows
  BY DEF ExchangeInit, CellFollows
<1>2. IInv /\ ReadsValues /\ CellFollows /\ [ExchangeNext]_exchangeVars => CellFollows'
  BY CellFollowed
<1>3. CellFollows => CellReadsBack
  BY CellEnds
<1> QED BY <1>1, <1>2, <1>3, ExchangeReads, ReaderValues, PTL DEF ExchangeSpec

-----------------------------------------------------------------------------
(* A number text is a number.                                              *)

Bits(n) == SeqOf({"0", "1"}, n)

LEMMA BitsAreDigits ==
    ASSUME NEW n, NEW d \in Bits(n)
    PROVE  d \in Seq(Digits) /\ d \in Seq(NumberLetters)
<1>1. PICK m \in 0..n : d \in [1..m -> {"0", "1"}]
  BY DEF Bits, SeqOf
<1>2. m \in Nat /\ {"0", "1"} \subseteq Digits /\ Digits \subseteq NumberLetters
  BY DEF Digits, NumberLetters
<1>3. d \in [1..m -> Digits] /\ d \in [1..m -> NumberLetters]
  BY <1>1, <1>2
<1> QED BY <1>2, <1>3

Wholes(n) == {<<"0">>} \union {<<"1">> \o d : d \in Bits(n)}

\* A number without exponent, with the digits of its fraction.
IsMantissa(x, m, i, f) ==
    \/ x = Means(m \o i, <<>>) /\ f = <<>>
    \/ x = Means(m \o i \o <<".">> \o f, f) /\ f # <<>>

\* What comes behind it.
IsTail(t, x, f) ==
    \/ t = x.text
    \/ \E s \in {<<>>, <<"+">>, <<"-">>} : \E j : \E d \in Bits(j) \ {<<>>} :
          /\ t = x.text \o (<<"e">> \o s \o d)
          /\ s = <<"-">> \/ Len(d) = 1 \/ DecimalOf(d) <= MaxExponent + Len(f)

LEMMA NumberTextParts ==
    ASSUME NEW max, NEW t, Means(t, <<"number", t>>) \in NumberTexts(max, MaxExponent)
    PROVE  \E x : \E m \in {<<>>, <<"-">>} : \E i \in Wholes(max - 1) :
              \E k : \E f \in Bits(k) \union {<<>>} : IsMantissa(x, m, i, f) /\ IsTail(t, x, f)
<1> DEFINE integers == Wholes(max - 1)
           decimals ==
            UNION {UNION {
                {Means(m \o i, <<>>)} \union
                {Means(m \o i \o <<".">> \o f, f) :
                    f \in Bits(max - 1 - Len(m) - Len(i)) \ {<<>>}} :
                i \in {j \in integers : Len(m) + Len(j) <= max}} :
                m \in {<<>>, <<"-">>}}
           inRange(f, s, d) ==
            s = <<"-">> \/ Len(d) = 1 \/ DecimalOf(d) <= MaxExponent + Len(f)
           exponents(f, n) ==
            UNION {{<<"e">> \o s \o d :
                      d \in {p \in Bits(n - 1 - Len(s)) \ {<<>>} : inRange(f, s, p)}} :
                     s \in {<<>>, <<"+">>, <<"-">>}}
<1>1. NumberTexts(max, MaxExponent) =
         UNION {{Means(u, <<"number", u>>) :
                  u \in {n.text} \union
                        {n.text \o e :
                           e \in exponents(n.value, max - Len(n.text))}} :
                 n \in decimals}
  BY Zenon DEF NumberTexts, Wholes, Bits
<1> HIDE DEF decimals, exponents
<1>2. PICK x \in decimals :
         \E u \in {x.text} \union {x.text \o e : e \in exponents(x.value, max - Len(x.text))} :
            Means(t, <<"number", t>>) = Means(u, <<"number", u>>)
  BY <1>1, Zenon
<1>3. PICK u \in {x.text} \union {x.text \o e : e \in exponents(x.value, max - Len(x.text))} :
         Means(t, <<"number", t>>) = Means(u, <<"number", u>>)
  BY <1>2
<1>4. t = u
  BY <1>3 DEF Means
<1>5. PICK m \in {<<>>, <<"-">>} : \E i \in Wholes(max - 1) : \E k : \E f \in Bits(k) \union {<<>>} :
         IsMantissa(x, m, i, f)
  <2>1. PICK m \in {<<>>, <<"-">>} : \E i \in {j \in integers : Len(m) + Len(j) <= max} :
           x \in {Means(m \o i, <<>>)} \union
                {Means(m \o i \o <<".">> \o f, f) :
                    f \in Bits(max - 1 - Len(m) - Len(i)) \ {<<>>}}
    <3>1. x \in decimals
      OBVIOUS
    <3> QED BY <3>1 DEF decimals
  <2>2. PICK i \in integers :
           x \in {Means(m \o i, <<>>)} \union
                {Means(m \o i \o <<".">> \o f, f) :
                    f \in Bits(max - 1 - Len(m) - Len(i)) \ {<<>>}}
    BY <2>1, Zenon
  <2>3. CASE x = Means(m \o i, <<>>)
    BY <2>3, Zenon DEF IsMantissa
  <2>4. CASE \E f \in Bits(max - 1 - Len(m) - Len(i)) \ {<<>>} : x = Means(m \o i \o <<".">> \o f, f)
    <3>1. PICK f \in Bits(max - 1 - Len(m) - Len(i)) \ {<<>>} : x = Means(m \o i \o <<".">> \o f, f)
      BY <2>4
    <3>2. IsMantissa(x, m, i, f) /\ f \in Bits(max - 1 - Len(m) - Len(i)) \union {<<>>}
      BY <3>1, Zenon DEF IsMantissa
    <3> QED BY <3>2, Zenon
  <2> QED BY <2>2, <2>3, <2>4, Zenon
<1>6. PICK i \in Wholes(max - 1) : \E k : \E f \in Bits(k) \union {<<>>} : IsMantissa(x, m, i, f)
  BY <1>5
<1>7. PICK k : \E f \in Bits(k) \union {<<>>} : IsMantissa(x, m, i, f)
  BY <1>6
<1>8. PICK f \in Bits(k) \union {<<>>} : IsMantissa(x, m, i, f)
  BY <1>7
<1>9. x.value = f
  BY <1>8 DEF IsMantissa, Means
<1>10. IsTail(t, x, f)
  <2>1. CASE u = x.text
    BY <1>4, <2>1, Zenon DEF IsTail
  <2>2. CASE \E e \in exponents(x.value, max - Len(x.text)) : u = x.text \o e
    <3>1. PICK e \in exponents(f, max - Len(x.text)) : t = x.text \o e
      BY <1>4, <1>9, <2>2
    <3>2. PICK s \in {<<>>, <<"+">>, <<"-">>} :
             e \in {<<"e">> \o s \o d :
                     d \in {p \in Bits(max - Len(x.text) - 1 - Len(s)) \ {<<>>} : inRange(f, s, p)}}
      BY <3>1, Zenon DEF exponents
    <3>3. PICK d \in Bits(max - Len(x.text) - 1 - Len(s)) \ {<<>>} :
             e = <<"e">> \o s \o d /\ inRange(f, s, d)
      BY <3>2, Zenon
    <3>4. /\ t = x.text \o (<<"e">> \o s \o d)
          /\ s = <<"-">> \/ Len(d) = 1 \/ DecimalOf(d) <= MaxExponent + Len(f)
      BY <3>1, <3>3, Zenon
    <3> QED BY <3>4, Zenon DEF IsTail
  <2> QED BY <1>3, <2>1, <2>2, Zenon
<1> QED BY <1>8, <1>10

LEMMA PartLetters ==
    ASSUME NEW c \in {"-", "+", ".", "e", "0", "1"}
    PROVE  c \in NumberLetters /\ <<c>> \in Seq(NumberLetters)
<1>1. c \in NumberLetters
  BY DEF NumberLetters, Digits
<1> QED BY <1>1

LEMMA ExponentOf ==
    ASSUME NEW s \in {<<>>, <<"+">>, <<"-">>}, NEW j, NEW d \in Bits(j) \ {<<>>}, NEW n,
           s = <<"-">> \/ Len(d) = 1 \/ DecimalOf(d) <= MaxExponent + n
    PROVE  IsExponent(<<"e">> \o s \o d, n) /\ <<"e">> \o s \o d \in Seq(NumberLetters)
<1>1. d \in Seq(Digits) \ {<<>>} /\ d \in Seq(NumberLetters)
  BY BitsAreDigits
<1>2. <<"e">> \in Seq(NumberLetters) /\ s \in Seq(NumberLetters)
  <2>1. <<"+">> \in Seq(NumberLetters) /\ <<"-">> \in Seq(NumberLetters) /\ <<"e">> \in Seq(NumberLetters)
    BY PartLetters
  <2>2. <<>> \in Seq(NumberLetters)
    OBVIOUS
  <2> QED BY <2>1, <2>2
<1>3. Regroups(<<"e">>, s, d)
  BY <1>1, <1>2, Regroup
<1>4. <<"e">> \o s \o d = Cons("e", s \o d)
  BY <1>3, Zenon DEF Regroups, Cons
<1>5. IsExponent(Cons("e", s \o d), n)
  BY <1>1, Zenon DEF IsExponent
<1>6. <<"e">> \o s \o d \in Seq(NumberLetters)
  BY <1>1, <1>2
<1> QED BY <1>4, <1>5, <1>6, Zenon

LEMMA IntegerOf ==
    ASSUME NEW n, NEW i \in Wholes(n), NEW x \in Seq(NumberLetters), IsFraction(x)
    PROVE  IsInteger(i \o x) /\ i \in Seq(NumberLetters) /\ i \o x \in Seq(NumberLetters)
<1>1. CASE i = <<"0">>
  <2>1. i \o x = Cons("0", x)
    BY <1>1, Zenon DEF Cons
  <2>2. IsInteger(Cons("0", x))
    BY Zenon DEF IsInteger
  <2>3. i \in Seq(NumberLetters)
    BY <1>1, PartLetters
  <2>4. i \o x \in Seq(NumberLetters)
    BY <2>3
  <2> QED BY <2>1, <2>2, <2>3, <2>4, Zenon
<1>2. CASE \E d \in Bits(n) : i = <<"1">> \o d
  <2>1. PICK d \in Bits(n) : i = <<"1">> \o d
    BY <1>2
  <2>2. d \in Seq(Digits) /\ d \in Seq(NumberLetters)
    BY BitsAreDigits
  <2>3. <<"1">> \in Seq(NumberLetters)
    BY PartLetters
  <2>4. Regroups(<<"1">>, d, x)
    BY <2>2, <2>3, Regroup
  <2>5. i \o x = Cons("1", d \o x)
    BY <2>1, <2>4, Zenon DEF Regroups, Cons
  <2>6. IsInteger(Cons("1", d \o x))
    BY <2>2, Zenon DEF IsInteger
  <2>7. i \in Seq(NumberLetters)
    BY <2>1, <2>2, <2>3
  <2>8. i \o x \in Seq(NumberLetters)
    BY <2>7
  <2> QED BY <2>5, <2>6, <2>7, <2>8, Zenon
<1> QED BY <1>1, <1>2, Zenon DEF Wholes

LEMMA SignedOf ==
    ASSUME NEW m \in {<<>>, <<"-">>}, NEW x \in Seq(NumberLetters), IsInteger(x)
    PROVE  IsNumber(m \o x) /\ m \in Seq(NumberLetters)
<1>1. CASE m = <<>>
  <2>1. m \o x = x /\ m \in Seq(NumberLetters)
    BY <1>1
  <2> QED BY <2>1 DEF IsNumber
<1>2. CASE m = <<"-">>
  <2>1. m \o x = Cons("-", x)
    BY <1>2, Zenon DEF Cons
  <2>2. IsNumber(Cons("-", x))
    BY Zenon DEF IsNumber
  <2>3. m \in Seq(NumberLetters)
    BY <1>2, PartLetters
  <2> QED BY <2>1, <2>2, <2>3
<1> QED BY <1>1, <1>2

\* A fraction, with or without a dot.
LEMMA FractionOf ==
    ASSUME NEW k, NEW f \in Bits(k) \union {<<>>}, NEW e \in Seq(NumberLetters),
           IsExponent(e, Len(f))
    PROVE  /\ f = <<>> => IsFraction(e)
           /\ f # <<>> => IsFraction(Cons(".", f \o e))
           /\ f \in Seq(NumberLetters)
<1>1. CASE f = <<>>
  <2>1. Len(f) = 0 /\ f \in Seq(NumberLetters)
    BY <1>1
  <2> QED BY <1>1, <2>1 DEF IsFraction
<1>2. CASE f # <<>>
  <2>1. f \in Seq(Digits) \ {<<>>} /\ f \in Seq(NumberLetters)
    BY <1>2, BitsAreDigits
  <2>2. IsFraction(Cons(".", f \o e))
    BY <2>1, Zenon DEF IsFraction
  <2> QED BY <1>2, <2>1, <2>2
<1> QED BY <1>1, <1>2

LEMMA NumberOf ==
    ASSUME NEW n, NEW x, NEW m \in {<<>>, <<"-">>}, NEW i \in Wholes(n), NEW k,
           NEW f \in Bits(k) \union {<<>>}, IsMantissa(x, m, i, f),
           NEW e \in Seq(NumberLetters), IsExponent(e, Len(f))
    PROVE  IsNumber(x.text \o e) /\ x.text \in Seq(NumberLetters)
<1> DEFINE y == IF f = <<>> THEN e ELSE Cons(".", f \o e)
<1>1. f \in Seq(NumberLetters)
  BY FractionOf
<1>2. <<".">> \in Seq(NumberLetters) /\ "." \in NumberLetters
  BY PartLetters
<1>3. f \o e \in Seq(NumberLetters)
  BY <1>1
<1>4. Cons(".", f \o e) = <<".">> \o (f \o e)
  BY Zenon DEF Cons
<1>5. y \in Seq(NumberLetters) /\ IsFraction(y)
  <2>1. CASE f = <<>>
    <3>1. y = e /\ IsFraction(e)
      BY <2>1, FractionOf
    <3> QED BY <3>1
  <2>2. CASE f # <<>>
    <3>1. y = Cons(".", f \o e) /\ IsFraction(Cons(".", f \o e))
      BY <2>2, FractionOf, Zenon
    <3>2. <<".">> \o (f \o e) \in Seq(NumberLetters)
      BY <1>2, <1>3
    <3> QED BY <1>4, <3>1, <3>2, Zenon
  <2> QED BY <2>1, <2>2
<1> HIDE DEF y
<1>6. IsInteger(i \o y) /\ i \in Seq(NumberLetters) /\ i \o y \in Seq(NumberLetters)
  BY <1>5, IntegerOf
<1>7. PICK z \in Seq(NumberLetters) : z = i \o y
  BY <1>6
<1>8. IsNumber(m \o z) /\ m \in Seq(NumberLetters)
  BY <1>6, <1>7, SignedOf
<1>9. m \o i \in Seq(NumberLetters)
  BY <1>6, <1>8
<1>10. CASE x = Means(m \o i, <<>>) /\ f = <<>>
  <2>1. Regroups(m, i, e)
    BY <1>6, <1>8, Regroup
  <2>2. x.text = m \o i
    BY <1>10 DEF Means
  <2>3. y = e
    BY <1>10 DEF y
  <2>4. x.text \o e = m \o z
    BY <1>7, <2>1, <2>2, <2>3, Zenon DEF Regroups
  <2> QED BY <1>8, <1>9, <2>2, <2>4
<1>11. CASE x = Means(m \o i \o <<".">> \o f, f) /\ f # <<>>
  <2>1. PICK a : a = m \o i
    OBVIOUS
  <2>2. a \in Seq(NumberLetters)
    BY <1>9, <2>1
  <2>3. PICK b : b = a \o <<".">>
    OBVIOUS
  <2>4. b \in Seq(NumberLetters)
    BY <1>2, <2>2, <2>3
  <2>5. x.text = b \o f
    BY <1>11, <2>1, <2>3 DEF Means
  <2>6. PICK q \in Seq(NumberLetters) : q = f \o e
    BY <1>3
  <2>7. Regroups(b, f, e) /\ Regroups(a, <<".">>, q)
    BY <1>1, <1>2, <2>2, <2>4, <2>6, Regroup
  <2>8. y = <<".">> \o q
    BY <1>4, <1>11, <2>6 DEF y
  <2>9. Regroups(m, i, y)
    BY <1>5, <1>6, <1>8, Regroup
  <2>10. x.text \o e = m \o z
    BY <1>7, <2>1, <2>3, <2>5, <2>6, <2>7, <2>8, <2>9, Zenon DEF Regroups
  <2>11. b \o f \in Seq(NumberLetters)
    BY <1>1, <2>4
  <2> QED BY <1>8, <2>5, <2>10, <2>11
<1> QED BY <1>10, <1>11, Zenon DEF IsMantissa

LEMMA NumberTextIsNumber ==
    ASSUME NEW max, NEW t, Means(t, <<"number", t>>) \in NumberTexts(max, MaxExponent)
    PROVE  IsNumber(t) /\ t \in Seq(NumberLetters)
<1>1. PICK x : \E m \in {<<>>, <<"-">>} : \E i \in Wholes(max - 1) :
                 \E k : \E f \in Bits(k) \union {<<>>} : IsMantissa(x, m, i, f) /\ IsTail(t, x, f)
  BY NumberTextParts
<1>2. PICK m \in {<<>>, <<"-">>}, i \in Wholes(max - 1) :
         \E k : \E f \in Bits(k) \union {<<>>} : IsMantissa(x, m, i, f) /\ IsTail(t, x, f)
  BY <1>1
<1>3. PICK k : \E f \in Bits(k) \union {<<>>} : IsMantissa(x, m, i, f) /\ IsTail(t, x, f)
  BY <1>2
<1>4. PICK f \in Bits(k) \union {<<>>} : IsMantissa(x, m, i, f) /\ IsTail(t, x, f)
  BY <1>3
<1>5. PICK n : n = max - 1
  OBVIOUS
<1>6. i \in Wholes(n)
  BY <1>5
<1>7. <<>> \in Seq(NumberLetters) /\ IsExponent(<<>>, Len(f))
  BY DEF IsExponent
<1>8. x.text \in Seq(NumberLetters) /\ IsNumber(x.text \o <<>>)
  BY <1>4, <1>6, <1>7, NumberOf
<1>9. CASE t = x.text
  <2>1. x.text \o <<>> = x.text
    BY <1>8
  <2> QED BY <1>8, <1>9, <2>1
<1>10. CASE \E s \in {<<>>, <<"+">>, <<"-">>} : \E j : \E d \in Bits(j) \ {<<>>} :
               /\ t = x.text \o (<<"e">> \o s \o d)
               /\ s = <<"-">> \/ Len(d) = 1 \/ DecimalOf(d) <= MaxExponent + Len(f)
  <2>1. PICK s \in {<<>>, <<"+">>, <<"-">>} : \E j : \E d \in Bits(j) \ {<<>>} :
               /\ t = x.text \o (<<"e">> \o s \o d)
               /\ s = <<"-">> \/ Len(d) = 1 \/ DecimalOf(d) <= MaxExponent + Len(f)
    BY <1>10
  <2>2. PICK j : \E d \in Bits(j) \ {<<>>} :
               /\ t = x.text \o (<<"e">> \o s \o d)
               /\ s = <<"-">> \/ Len(d) = 1 \/ DecimalOf(d) <= MaxExponent + Len(f)
    BY <2>1
  <2>3. PICK d \in Bits(j) \ {<<>>} :
               /\ t = x.text \o (<<"e">> \o s \o d)
               /\ s = <<"-">> \/ Len(d) = 1 \/ DecimalOf(d) <= MaxExponent + Len(f)
    BY <2>2
  <2>4. PICK l : l = Len(f)
    OBVIOUS
  <2>5. s = <<"-">> \/ Len(d) = 1 \/ DecimalOf(d) <= MaxExponent + l
    BY <2>3, <2>4
  <2>6. IsExponent(<<"e">> \o s \o d, l) /\ <<"e">> \o s \o d \in Seq(NumberLetters)
    BY <2>5, ExponentOf
  <2>7. PICK e \in Seq(NumberLetters) : e = <<"e">> \o s \o d
    BY <2>6
  <2>8. IsExponent(e, Len(f))
    BY <2>4, <2>6, <2>7
  <2>9. IsNumber(x.text \o e)
    BY <1>4, <1>6, <2>8, NumberOf
  <2>10. x.text \o e \in Seq(NumberLetters)
    BY <1>8
  <2>11. t = x.text \o e
    BY <2>3, <2>7
  <2> QED BY <2>9, <2>10, <2>11
<1> QED BY <1>4, <1>9, <1>10, Zenon DEF IsTail

-----------------------------------------------------------------------------
\* What c_str leaves of a string is a string.
LEMMA c_strTyped ==
    ASSUME NEW s \in Seq(Characters)
    PROVE  c_str(s) \in Seq(Characters)
<1>1. CASE "nul" \in Range(s)
  <2> DEFINE I == {i \in 1..Len(s) : s[i] = "nul"}
             k == Min(I)
  <2>1. I # {} /\ I \subseteq Nat
    <3>1. PICK i \in DOMAIN s : s[i] = "nul"
      BY <1>1 DEF Range
    <3>2. i \in 1..Len(s)
      BY <3>1
    <3> QED BY <3>1, <3>2, LenProperties
  <2>2. \E x \in I : \A y \in I : x <= y
    <3> HIDE DEF I
    <3> QED BY <2>1, LeastNatural
  <2>3. k \in I
    <3> HIDE DEF I
    <3> QED BY <2>2, Zenon DEF Min
  <2>4. SelectInSeq(s, LAMBDA c : c = "nul") = k
    BY <2>1, Zenon DEF SelectInSeq
  <2>5. k \in 1..Len(s)
    BY <2>3
  <2> HIDE DEF k
  <2>6. SubSeq(s, 1, k - 1) \in Seq(Characters)
    BY <2>5, LenProperties
  <2> QED BY <1>1, <2>4, <2>6, Zenon DEF c_str
<1>2. CASE "nul" \notin Range(s)
  BY <1>2, Zenon DEF c_str
<1> QED BY <1>1, <1>2

-----------------------------------------------------------------------------
(* The parameters of a query.                                              *)

\* What the server reads of a parameter: of a double without digits nothing.
Arrives(param) ==
    IF param.value.type = "nonFinite" THEN Nothing
    ELSE Sent(param, charsOf(param.value))

Arriving == [i \in DOMAIN params |-> <<c_str(params[i].name), Arrives(params[i])>>]

Arrival == <<"object", Arriving>>

\* The values that occur in the text of the parameters.
Parts(goal, lost) ==
    {<<l, <<>>>> : l \in Literals} \union {<<"string", s>> : s \in Seq(Written)}
    \union {<<"number", s>> : s \in Seq(Written)}
    \union {goal} \union (IF lost THEN {Nothing} ELSE {})

Lost == \E i \in DOMAIN params : params[i].value.type = "nonFinite"

Params(goal, lost) == Guide(Written, Parts(goal, lost))

LEMMA PartsAre ==
    ASSUME NEW goal, NEW lost
    PROVE  /\ IsGreatest(Params(goal, lost), Written, Parts(goal, lost))
           /\ IsGuide(Params(goal, lost))
           /\ \A l \in Literals : <<l, <<>>>> \in Parts(goal, lost)
           /\ \A s \in Seq(Written) :
                 <<"string", s>> \in Parts(goal, lost) /\ <<"number", s>> \in Parts(goal, lost)
           /\ goal \in Parts(goal, lost)
           /\ lost => Nothing \in Parts(goal, lost)
<1>1. IsGreatest(Params(goal, lost), Written, Parts(goal, lost))
  BY WrittenLetters DEF IsGreatest, Params
<1>2. IsGuide(Params(goal, lost))
  BY <1>1, GreatestIs
<1>3. \A l \in Literals : <<l, <<>>>> \in Parts(goal, lost)
  BY DEF Parts
<1>4. \A s \in Seq(Written) :
         <<"string", s>> \in Parts(goal, lost) /\ <<"number", s>> \in Parts(goal, lost)
  BY DEF Parts
<1>5. goal \in Parts(goal, lost) /\ (lost => Nothing \in Parts(goal, lost))
  BY DEF Parts
<1> QED BY <1>1, <1>2, <1>3, <1>4, <1>5

-----------------------------------------------------------------------------
\* The parameters that were added, with the values they had then.
ParamsHeld ==
    /\ buffer \in Buffers
    /\ params \in Seq([name : Names, value : ParamValues])
    /\ asAdded \in Seq(Seq(Characters))
    /\ Len(asAdded) = Len(params)
    /\ \A i \in DOMAIN params :
          params[i].value.type # "chars" => asAdded[i] = params[i].value.chars

LEMMA addParamHeld ==
    ASSUME ParamsHeld, NEW name \in Names, NEW value \in ParamValues, addParam(name, value)
    PROVE  ParamsHeld'
<1>1. CASE UNCHANGED <<params, asAdded, buffer>>
  BY <1>1 DEF ParamsHeld
<1>2. CASE /\ params' = Append(params, [name |-> name, value |-> value])
           /\ asAdded' = Append(asAdded, charsOf(value))
           /\ UNCHANGED buffer
  <2>1. PICK P : P = [name : Names, value : ParamValues]
    OBVIOUS
  <2>2. PICK p : p = [name |-> name, value |-> value]
    OBVIOUS
  <2>3. p \in P /\ p.value = value
    BY <2>1, <2>2
  <2>4. PICK C : C = Seq(Characters)
    OBVIOUS
  <2>5. PICK c : c = charsOf(value)
    OBVIOUS
  <2>6. c \in C /\ (value.type # "chars" => c = value.chars)
    <3>1. buffer \in Seq(Characters) /\ value.chars \in Seq(Characters)
      BY ParamsAreKnown DEF ParamsHeld
    <3> QED BY <2>4, <2>5, <3>1 DEF charsOf
  <2>7. params \in Seq(P) /\ asAdded \in Seq(C) /\ Len(asAdded) = Len(params) /\ buffer \in Buffers
    BY <2>1, <2>4 DEF ParamsHeld
  <2>8. params' = Append(params, p) /\ asAdded' = Append(asAdded, c) /\ buffer' = buffer
    BY <1>2, <2>2, <2>5
  <2>9. params' \in Seq(P) /\ asAdded' \in Seq(C) /\ Len(asAdded') = Len(params')
    BY <2>3, <2>6, <2>7, <2>8
  <2>10. ASSUME NEW i \in DOMAIN params', params'[i].value.type # "chars"
         PROVE  asAdded'[i] = params'[i].value.chars
    <3>1. i \in 1..(Len(params) + 1) /\ Len(params) \in Nat
      BY <2>3, <2>7, <2>8
    <3>2. CASE i = Len(params) + 1
      <4>1. params'[i] = p /\ asAdded'[i] = c
        BY <2>3, <2>6, <2>7, <2>8, <3>2
      <4> QED BY <2>3, <2>6, <2>10, <4>1
    <3>3. CASE i \in 1..Len(params)
      <4>1. params'[i] = params[i] /\ asAdded'[i] = asAdded[i]
        BY <2>3, <2>6, <2>7, <2>8, <3>1, <3>3
      <4>2. i \in DOMAIN params
        BY <2>7, <3>3
      <4> QED BY <2>10, <4>1, <4>2 DEF ParamsHeld
    <3> QED BY <3>1, <3>2, <3>3
  <2> QED BY <2>1, <2>4, <2>7, <2>8, <2>9, <2>10 DEF ParamsHeld
<1> QED BY <1>1, <1>2 DEF addParam

LEMMA ParamIs ==
    ASSUME ParamsHeld, NEW i \in DOMAIN params
    PROVE  /\ params[i].name \in Seq(Characters)
           /\ params[i].value \in ParamValues
           /\ params[i].value.type \in ParamTypes
           /\ params[i].value.chars \in Seq(Characters)
           /\ charsOf(params[i].value) \in Seq(Characters)
           /\ charsOf(params[i].value)
                 = IF params[i].value.type = "chars" THEN buffer ELSE asAdded[i]
<1>1. params[i] \in [name : Names, value : ParamValues]
  <2>1. PICK P : P = [name : Names, value : ParamValues]
    OBVIOUS
  <2>2. params \in Seq(P)
    BY <2>1 DEF ParamsHeld
  <2>3. params[i] \in P
    BY <2>2
  <2> QED BY <2>1, <2>3
<1>2. params[i].name \in Names /\ params[i].value \in ParamValues
  BY <1>1
<1>3. buffer \in Seq(Characters)
  BY ParamsAreKnown DEF ParamsHeld
<1> QED BY <1>2, <1>3, ParamsAreKnown DEF charsOf, ParamsHeld

\* The visitor writes what arrives.
LEMMA visitPuts ==
    ASSUME ParamsHeld, NEW i \in DOMAIN params, NEW goal, NEW lost, Lost => lost,
           NEW w, Takes(w)
    PROVE  PutsOut(visit(w, params[i].value), w, Arrives(params[i]), Params(goal, lost))
<1> DEFINE G == Params(goal, lost)
           D == Parts(goal, lost)
<1>1. PICK value, chars0 : value = params[i].value /\ chars0 = charsOf(value)
  OBVIOUS
<1>2. /\ value.type \in ParamTypes /\ value.chars \in Seq(Characters) /\ chars0 \in Seq(Characters)
      /\ value \in ParamValues
      /\ value.type # "chars" => chars0 = value.chars
  BY <1>1, ParamIs DEF charsOf
<1>3. /\ IsGreatest(G, Written, D)
      /\ \A l \in Literals : <<l, <<>>>> \in D
      /\ \A s \in Seq(Written) : <<"string", s>> \in D /\ <<"number", s>> \in D
      /\ lost => Nothing \in D
  BY PartsAre
<1> HIDE DEF G, D
<1>4. Seq(Characters) \subseteq Seq(Elements) /\ Seq(Characters) \subseteq Seq(Written)
  <2>1. Characters \subseteq Elements
    BY ElementsAre
  <2>2. Elements \subseteq Written
    BY DEF Written
  <2> QED BY <2>1, <2>2
<1>5. CASE value.type = "bool"
  <2>1. value.chars \in {<<"true">>, <<"false">>}
    BY <1>2, <1>5, ParamsAreKnown
  <2>2. PICK l : l = Head(value.chars)
    OBVIOUS
  <2>3. l \in Literals
    BY <2>1, <2>2 DEF Literals
  <2>4. PutsOut(Literal(w, l), w, <<l, <<>>>>, G)
    BY <1>3, <2>3, LiteralPuts
  <2>5. visit(w, value) = Literal(w, l)
    BY <1>5, <2>2 DEF visit
  <2>6. Arrives(params[i]) = <<l, <<>>>>
    BY <1>1, <1>2, <1>5, <2>2 DEF Arrives, Sent
  <2> QED BY <1>1, <2>4, <2>5, <2>6 DEF G
<1>6. CASE value.type = "number"
  <2>1. PICK t : t = value.chars
    OBVIOUS
  <2>2. IsNumber(t)
    BY <1>2, <1>6, <2>1, NumbersAreWritten, NumberTextIsNumber
  <2>3. t \in Seq(Elements) /\ t \in Seq(Written) /\ <<"number", t>> \in D
    BY <1>2, <1>3, <1>4, <2>1
  <2>4. Means(t, <<"number", t>>) \in G.values
    BY <1>3, <2>2, <2>3, ValueNumber
  <2>5. visit(w, value) = Put(Prefix(w, FALSE), t)
    BY <1>6, <2>1 DEF visit, Number
  <2>6. Arrives(params[i]) = <<"number", t>>
    BY <1>1, <1>2, <1>6, <2>1 DEF Arrives, Sent
  <2>7. PutsOut(visit(w, value), w, <<"number", t>>, G)
    BY <2>3, <2>4, <2>5, Zenon DEF PutsOut
  <2> QED BY <1>1, <2>6, <2>7 DEF G
<1>7. CASE value.type = "nonFinite"
  <2>1. Lost
    BY <1>1, <1>7 DEF Lost
  <2>2. Nothing \in D
    BY <1>3, <2>1
  <2>3. Means(<<>>, Nothing) \in G.values
    BY <1>3, <2>2, ValueNothing
  <2>4. value.chars = <<>>
    BY <1>2, <1>7, ParamsAreKnown
  <2>5. visit(w, value) = Put(Prefix(w, FALSE), <<>>)
    BY <1>7, <2>4 DEF visit, Number
  <2>6. Arrives(params[i]) = Nothing
    BY <1>1, <1>7 DEF Arrives
  <2>7. <<>> \in Seq(Elements)
    OBVIOUS
  <2>8. PutsOut(visit(w, value), w, Nothing, G)
    BY <2>3, <2>5, <2>7, Zenon DEF PutsOut
  <2> QED BY <1>1, <2>6, <2>8 DEF G
<1>8. CASE value.type \in {"chars", "string"}
  <2>1. PICK s : s = c_str(chars0)
    OBVIOUS
  <2>2. s \in Seq(Characters) /\ <<"string", s>> \in D
    BY <1>2, <1>3, <1>4, <2>1, c_strTyped
  <2>3. PutsOut(String(w, s), w, <<"string", s>>, G)
    BY <1>3, <2>2, StringPuts
  <2>4. visit(w, value) = String(w, s)
    BY <1>1, <1>8, <2>1 DEF visit
  <2>5. Arrives(params[i]) = <<"string", s>>
    BY <1>1, <1>8, <2>1 DEF Arrives, Sent
  <2> QED BY <1>1, <2>3, <2>4, <2>5 DEF G
<1> QED BY <1>2, <1>5, <1>6, <1>7, <1>8 DEF ParamTypes

\* One turn of the loop of toJSON.
Turn(i) ==
    [w \in Writers |-> visit(String(w, c_str(params[i].name)), params[i].value)]

LEMMA TurnWrites ==
    ASSUME ParamsHeld, NEW i \in DOMAIN params, NEW goal, NEW lost, Lost => lost,
           NEW p \in Writers, NEW o \in Seq(Elements), NEW c \in Nat, c % 2 = 0
    PROVE  MemberWritten(Turn(i), c_str(params[i].name), Arrives(params[i]), p,
                         Params(goal, lost), o, c)
<1>1. PICK name, v, f : name = c_str(params[i].name) /\ v = Arrives(params[i]) /\ f = Turn(i)
  OBVIOUS
<1>2. name \in Seq(Characters)
  BY <1>1, ParamIs, c_strTyped
<1>3. PICK G, D : G = Params(goal, lost) /\ IsGreatest(G, Written, D)
  BY PartsAre
<1> DEFINE all == Writers \union {String(w, name) : w \in Writers}
           h == [w \in all |-> visit(w, params[i].value)]
<1>4. PICK g : g = h
  OBVIOUS
<1>5. Writes(g, v, G)
  <2> SUFFICES ASSUME NEW w, Takes(w)
               PROVE  PutsOut(g[w], w, v, G)
    BY Zenon DEF Writes
  <2>1. w \in all
    BY TakesPrefix
  <2>2. g[w] = visit(w, params[i].value)
    BY <1>4, <2>1
  <2>3. PutsOut(visit(w, params[i].value), w, Arrives(params[i]), Params(goal, lost))
    BY visitPuts
  <2> QED BY <1>1, <1>3, <2>2, <2>3
<1>6. ASSUME NEW w \in Writers
      PROVE  f[w] = g[String(w, name)]
  <2>1. PICK u : u = String(w, name)
    OBVIOUS
  <2>2. u \in all
    BY <2>1
  <2>3. g[u] = visit(u, params[i].value)
    BY <1>4, <2>2
  <2>4. f[w] = visit(String(w, name), params[i].value)
    BY <1>1 DEF Turn
  <2> QED BY <2>1, <2>3, <2>4
<1>7. MemberWritten(f, name, v, p, G, o, c)
  BY <1>2, <1>3, <1>5, <1>6, MemberByValue
<1> QED BY <1>1, <1>3, <1>7

LEMMA ArrivesTyped ==
    ASSUME ParamsHeld, NEW i \in DOMAIN params, NEW goal, NEW lost, Lost => lost
    PROVE  Arrives(params[i]) \in Parts(goal, lost)
<1>1. MemberWritten(Turn(i), c_str(params[i].name), Arrives(params[i]), NewWriter,
                    Params(goal, lost), <<>>, 0)
  <2>1. NewWriter \in Writers /\ <<>> \in Seq(Elements) /\ 0 \in Nat /\ 0 % 2 = 0
    BY NewWriterIs
  <2>2. PICK p, o, c : p = NewWriter /\ o = <<>> /\ c = 0
    OBVIOUS
  <2>3. p \in Writers /\ o \in Seq(Elements) /\ c \in Nat /\ c % 2 = 0
    BY <2>1, <2>2
  <2>4. MemberWritten(Turn(i), c_str(params[i].name), Arrives(params[i]), p,
                      Params(goal, lost), o, c)
    BY <2>3, TurnWrites
  <2> QED BY <2>2, <2>4
<1>2. PICK t : Means(t, Arrives(params[i])) \in Params(goal, lost).values
  BY <1>1 DEF MemberWritten
<1>3. PICK v : v = Arrives(params[i])
  OBVIOUS
<1>4. IsGreatest(Params(goal, lost), Written, Parts(goal, lost))
  BY PartsAre
<1>5. PICK G, D : G = Params(goal, lost) /\ D = Parts(goal, lost)
  OBVIOUS
<1>6. v \in D
  BY <1>2, <1>3, <1>4, <1>5, ValuesTexts
<1> QED BY <1>3, <1>5, <1>6

LEMMA toJSONPuts ==
    ASSUME ParamsHeld, NEW goal, goal = Arrival, NEW lost, Lost => lost
    PROVE  PutsOut(toJSON, NewWriter, goal, Params(goal, lost))
<1>1. PICK G, D : G = Params(goal, lost) /\ D = Parts(goal, lost)
  OBVIOUS
<1>2. IsGreatest(G, Written, D) /\ goal \in D
  BY <1>1, PartsAre
<1>3. PICK steps : steps = [i \in DOMAIN params |-> Turn(i)]
  OBVIOUS
<1>4. PICK of : of = Arriving
  OBVIOUS
<1>5. PICK n \in Nat : n = Len(params) /\ DOMAIN params = 1..n
  BY LenProperties DEF ParamsHeld
<1>6. PICK S : S = {steps[i] : i \in 1..n}
  OBVIOUS
<1>7. steps \in Seq(S) /\ Len(steps) = n
  <2>1. steps \in [1..n -> S]
    BY <1>3, <1>5, <1>6
  <2> QED BY <2>1
<1>8. of \in Seq(Seq(Written) \X D) /\ Len(of) = n
  <2>1. PICK T : T = Seq(Written) \X D
    OBVIOUS
  <2>2. ASSUME NEW i \in 1..n
        PROVE  <<c_str(params[i].name), Arrives(params[i])>> \in T
    <3>1. Arrives(params[i]) \in D
      BY <1>1, <1>5, ArrivesTyped
    <3>2. c_str(params[i].name) \in Seq(Characters)
      BY <1>5, ParamIs, c_strTyped
    <3>3. Characters \subseteq Written
      BY ElementsAre DEF Written
    <3>4. c_str(params[i].name) \in Seq(Written)
      BY <3>2, <3>3
    <3> QED BY <2>1, <3>1, <3>4
  <2>3. of \in [1..n -> T]
    BY <1>4, <1>5, <2>2 DEF Arriving
  <2>4. of \in Seq(T) /\ Len(of) = n
    BY <2>3
  <2> QED BY <2>1, <2>4
<1>9. <<"object", of>> = goal
  BY <1>4 DEF Arrival
<1>10. ASSUME NEW i \in 1..n, NEW p \in Writers, NEW o \in Seq(Elements), NEW c \in Nat, c % 2 = 0
       PROVE  MemberWritten(steps[i], of[i][1], of[i][2], p, G, o, c)
  <2>1. MemberWritten(Turn(i), c_str(params[i].name), Arrives(params[i]), p, G, o, c)
    BY <1>1, <1>5, <1>10, TurnWrites
  <2>2. steps[i] = Turn(i)
    BY <1>3, <1>5
  <2>3. of[i][1] = c_str(params[i].name) /\ of[i][2] = Arrives(params[i])
    BY <1>4, <1>5 DEF Arriving
  <2> QED BY <2>1, <2>2, <2>3, Zenon
<1>11. Takes(NewWriter)
  BY DEF Takes
<1>12. PICK w : w = NewWriter
  OBVIOUS
<1>13. PutsOut(EndObject(InTurn(steps, StartObject(w))), w, <<"object", of>>, G)
  BY <1>2, <1>7, <1>8, <1>9, <1>10, <1>11, <1>12, ObjectPuts
<1>14. toJSON = EndObject(InTurn(steps, StartObject(w)))
  BY <1>3, <1>12, Zenon DEF toJSON, Turn
<1> QED BY <1>1, <1>9, <1>12, <1>13, <1>14

-----------------------------------------------------------------------------
\* The server is in a text of what is to arrive.
ParamsFollow ==
    use = "params" =>
        /\ ParamsHeld
        /\ ~complete => pc = "document"
        /\ complete => sound /\ Follower(Params(Arrival, Lost), Arrival)

LEMMA HeldStays ==
    ASSUME ParamsHeld, UNCHANGED paramVars
    PROVE  ParamsHeld' /\ Arrival' = Arrival /\ Lost' = Lost
<1>1. params' = params /\ buffer' = buffer /\ asAdded' = asAdded
  BY DEF paramVars
<1>2. ParamsHeld'
  BY <1>1 DEF ParamsHeld
<1>3. Arrival' = Arrival
  BY <1>1 DEF Arrival, Arriving, Arrives, charsOf
<1>4. Lost' = Lost
  BY <1>1 DEF Lost
<1> QED BY <1>2, <1>3, <1>4

LEMMA FollowsArrival ==
    ASSUME NEW goal, NEW lost, Arrival' = goal, Lost' = lost, Follower(Params(goal, lost), goal)'
    PROVE  Follower(Params(Arrival, Lost), Arrival)'
<1>1. PICK g : g = Params(goal, lost)
  OBVIOUS
<1>2. Follower(g, goal)'
  BY <1>1
<1>3. Params(Arrival, Lost)' = g
  BY <1>1 DEF Params, Parts
<1> QED BY <1>2, <1>3

LEMMA ParamsFollowed ==
    ASSUME ParamsFollow, [ExchangeNext]_exchangeVars
    PROVE  ParamsFollow'
<1> SUFFICES ASSUME use' = "params"
             PROVE  /\ ParamsHeld'
                    /\ ~complete' => pc' = "document"
                    /\ complete' => (sound /\ Follower(Params(Arrival, Lost), Arrival))'
  BY DEF ParamsFollow
<1>1. CASE collect
  <2>1. use = "params" /\ ~complete /\ complete' = complete /\ pc' = pc
    BY <1>1 DEF collect, Collecting, readerVars, stream
  <2>2. ParamsHeld /\ pc = "document"
    BY <2>1 DEF ParamsFollow
  <2>3. ParamsHeld'
    <3>1. CASE \E name \in Names, value \in ParamValues : addParam(name, value)
      BY <2>2, <3>1, addParamHeld
    <3>2. CASE overwrite
      BY <2>2, <3>2 DEF overwrite, ParamsHeld
    <3> QED BY <1>1, <3>1, <3>2 DEF collect
  <2> QED BY <2>1, <2>2, <2>3
<1>2. CASE query
  <2>1. use = "params" /\ ~complete /\ reread(toJSON) /\ UNCHANGED paramVars
    BY <1>2 DEF query, Collecting, reread
  <2>2. ParamsHeld
    BY <2>1 DEF ParamsFollow
  <2>3. ParamsHeld' /\ Arrival' = Arrival /\ Lost' = Lost
    BY <2>1, <2>2, HeldStays
  <2>4. PICK goal, lost, w : goal = Arrival /\ lost = Lost /\ w = toJSON
    OBVIOUS
  <2>5. PutsOut(w, NewWriter, goal, Params(goal, lost))
    BY <2>2, <2>4, toJSONPuts
  <2>6. PICK t \in Seq(Elements) : /\ Means(t, goal) \in Params(goal, lost).values
                                   /\ w = Put(Prefix(NewWriter, FALSE), t)
    BY <2>5 DEF PutsOut
  <2>7. reread(w)
    BY <2>1, <2>4
  <2>8. Begun(t)' /\ sound'
    BY <2>6, <2>7, rereadBegins
  <2>9. IsGuide(Params(goal, lost))
    BY PartsAre
  <2>10. PICK g : g = Params(goal, lost)
    OBVIOUS
  <2>11. Follower(g, goal)'
    BY <2>6, <2>8, <2>9, <2>10, BegunFollows
  <2>12. Follower(Params(Arrival, Lost), Arrival)'
    BY <2>3, <2>4, <2>10, <2>11, FollowsArrival
  <2>13. complete'
    BY <2>8 DEF Begun
  <2> QED BY <2>3, <2>8, <2>12, <2>13
<1>3. CASE read
  <2>1. use = "params" /\ complete /\ ReaderNext /\ UNCHANGED paramVars /\ sound' = sound
    BY <1>3 DEF read, Collecting
  <2>2. ParamsHeld /\ sound /\ Follower(Params(Arrival, Lost), Arrival)
    BY <2>1 DEF ParamsFollow
  <2>3. ParamsHeld' /\ Arrival' = Arrival /\ Lost' = Lost
    BY <2>1, <2>2, HeldStays
  <2>4. PICK goal, lost : goal = Arrival /\ lost = Lost
    OBVIOUS
  <2>5. PICK g : g = Params(goal, lost)
    OBVIOUS
  <2>6. Follower(g, goal)
    BY <2>2, <2>4, <2>5
  <2>7. Follower(g, goal)'
    BY <2>1, <2>6, FollowerStays
  <2>8. Follower(Params(Arrival, Lost), Arrival)'
    BY <2>3, <2>4, <2>5, <2>7, FollowsArrival
  <2>9. complete'
    BY <2>1, TextStays
  <2> QED BY <2>1, <2>2, <2>3, <2>8, <2>9
<1>4. CASE jsonToString
  BY <1>4 DEF jsonToString
<1>5. CASE UNCHANGED exchangeVars
  <2>1. UNCHANGED paramVars /\ UNCHANGED readerVars /\ use' = use /\ sound' = sound
    BY <1>5 DEF exchangeVars
  <2>2. ParamsHeld /\ ParamsFollow /\ use = "params"
    BY <2>1 DEF ParamsFollow
  <2>3. ParamsHeld' /\ Arrival' = Arrival /\ Lost' = Lost
    BY <2>1, <2>2, HeldStays
  <2>4. complete' = complete /\ pc' = pc
    BY <2>1 DEF readerVars, stream
  <2>5. ASSUME complete
        PROVE  (sound /\ Follower(Params(Arrival, Lost), Arrival))'
    <3>1. PICK goal, lost : goal = Arrival /\ lost = Lost
      OBVIOUS
    <3>2. PICK g : g = Params(goal, lost)
      OBVIOUS
    <3>3. sound /\ Follower(g, goal)
      BY <2>2, <2>5, <3>1, <3>2 DEF ParamsFollow
    <3>4. Follower(g, goal)'
      BY <2>1, <3>3 DEF readerVars, stream, number, Follower, Follows, Ahead
    <3> QED BY <2>1, <2>3, <3>1, <3>2, <3>3, <3>4, FollowsArrival
  <2> QED BY <2>2, <2>3, <2>4, <2>5 DEF ParamsFollow
<1> QED BY <1>1, <1>2, <1>3, <1>4, <1>5 DEF ExchangeNext, Ended

LEMMA ParamsEnd ==
    ASSUME ParamsFollow
    PROVE  ParamsReadBack
<1> SUFFICES ASSUME use = "params", pc = "done"
             PROVE  /\ sound
                    /\ error = 0 <=>
                          \A i \in DOMAIN params : params[i].value.type # "nonFinite"
                    /\ error = 0 =>
                          /\ root[1] = "object"
                          /\ Len(root[2]) = Len(params)
                          /\ \A i \in DOMAIN params :
                                LET now == IF params[i].value.type = "chars"
                                             THEN buffer ELSE asAdded[i]
                                IN  root[2][i] =
                                      <<c_str(params[i].name), Sent(params[i], now)>>
  BY DEF ParamsReadBack
<1>1. ParamsHeld /\ complete /\ sound /\ Follower(Params(Arrival, Lost), Arrival)
  BY DEF ParamsFollow
<1>2. PICK goal, lost : goal = Arrival /\ lost = Lost
  OBVIOUS
<1>3. PICK g : g = Params(goal, lost)
  OBVIOUS
<1>4. Done(error, root, g, goal)
  <2>1. Follower(g, goal)
    BY <1>1, <1>2, <1>3
  <2> QED BY <2>1, FollowerEnds
<1>5. PICK n \in Nat : n = Len(params) /\ DOMAIN params = 1..n
  BY <1>1, LenProperties DEF ParamsHeld
<1>6. /\ goal[1] = "object" /\ Len(goal[2]) = n
      /\ \A i \in 1..n : goal[2][i] = <<c_str(params[i].name), Arrives(params[i])>>
  <2>1. goal[1] = "object" /\ goal[2] = Arriving
    BY <1>2 DEF Arrival
  <2>2. Len(Arriving) = n
    BY <1>5 DEF Arriving
  <2>3. \A i \in 1..n : Arriving[i] = <<c_str(params[i].name), Arrives(params[i])>>
    BY <1>5 DEF Arriving
  <2> QED BY <2>1, <2>2, <2>3
<1>7. CASE error = 0
  <2>1. root = goal /\ Whole(goal)
    BY <1>4, <1>7 DEF Done
  <2>2. ASSUME NEW i \in 1..n
        PROVE  /\ params[i].value.type # "nonFinite"
               /\ Arrives(params[i]) = Sent(params[i], charsOf(params[i].value))
    <3>1. goal[2][i][2] # Nothing
      BY <1>6, <2>1 DEF Whole
    <3>2. Arrives(params[i]) # Nothing
      <4>1. goal[2][i][2] = Arrives(params[i])
        BY <1>6
      <4> QED BY <3>1, <4>1
    <3> QED BY <3>2 DEF Arrives
  <2>3. ASSUME NEW i \in 1..n
        PROVE  charsOf(params[i].value)
                  = IF params[i].value.type = "chars" THEN buffer ELSE asAdded[i]
    BY <1>1, <1>5, ParamIs
  <2>4. ASSUME NEW i \in DOMAIN params
        PROVE  root[2][i] = <<c_str(params[i].name),
                  Sent(params[i], IF params[i].value.type = "chars" THEN buffer ELSE asAdded[i])>>
    <3>1. i \in 1..n
      BY <1>5
    <3>2. root[2][i] = <<c_str(params[i].name), Arrives(params[i])>>
      BY <1>6, <2>1, <3>1
    <3> QED BY <2>2, <2>3, <3>1, <3>2, Zenon
  <2>5. root[1] = "object" /\ Len(root[2]) = Len(params)
    BY <1>5, <1>6, <2>1
  <2>6. \A i \in DOMAIN params : params[i].value.type # "nonFinite"
    BY <1>5, <2>2
  <2> QED BY <1>1, <1>7, <2>4, <2>5, <2>6, Zenon
<1>8. CASE error # 0
  <2>1. PICK x \in g.values : x.value = Nothing
    BY <1>4, <1>8 DEF Done
  <2>2. Nothing \in Parts(goal, lost)
    BY <1>3, <2>1, PartsAre, GreatestTyped
  <2>3. lost
    <3>1. Nothing # goal
      <4>1. Nothing[1] = "nothing" /\ "nothing" # "object"
        BY DEF Nothing
      <4> QED BY <1>6, <4>1
    <3>2. \A l \in Literals : Nothing # <<l, <<>>>>
      BY DEF Nothing, Literals
    <3>3. \A s \in Seq(Written) : Nothing # <<"string", s>> /\ Nothing # <<"number", s>>
      BY DEF Nothing
    <3> QED BY <2>2, <3>1, <3>2, <3>3, Zenon DEF Parts
  <2>4. Lost
    BY <1>2, <2>3
  <2> QED BY <1>1, <1>8, <2>4 DEF Lost
<1> QED BY <1>7, <1>8

\* The parameters of a query are read from the text of toJSON, all, in their
\* order and with the values they had when they were added, for any number of
\* parameters; the text is no JSON exactly if there is a double without digits.
THEOREM ParamsArrive == ExchangeSpec => []ParamsReadBack
<1>1. ExchangeInit => ParamsFollow
  <2> SUFFICES ASSUME ExchangeInit, use = "params"
               PROVE  ParamsHeld /\ ~complete /\ pc = "document"
    BY DEF ParamsFollow
  <2>1. ParamsInit /\ ReaderStart /\ ~complete
    BY DEF ExchangeInit
  <2>2. <<>> \in Seq([name : Names, value : ParamValues]) /\ <<>> \in Seq(Seq(Characters))
    OBVIOUS
  <2>3. ParamsHeld
    BY <2>1, <2>2 DEF ParamsInit, ParamsHeld
  <2> QED BY <2>1, <2>3 DEF ReaderStart
<1>2. ParamsFollow /\ [ExchangeNext]_exchangeVars => ParamsFollow'
  BY ParamsFollowed
<1>3. ParamsFollow => ParamsReadBack
  BY ParamsEnd
<1> QED BY <1>1, <1>2, <1>3, PTL DEF ExchangeSpec
=============================================================================
