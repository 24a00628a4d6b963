---------------------------- MODULE JsonGrammar ----------------------------
(***************************************************************************)
(* Which texts are JSON and what they denote, said without a reader: all   *)
(* texts up to a length, built up from shorter ones.  The elements and the *)
(* values are those of modules JsonWriter and JsonReader.                  *)
(*                                                                         *)
(* There are three alphabets: of structure, where a string is one element, *)
(* of strings, and of numbers.                                             *)
(***************************************************************************)
EXTENDS Integers, Sequences, SequencesExt

Structure   == {"{", "}", "[", "]", ",", ":", "token", "null", "1", "newline"}
Strings     == {"quote", "backslash", "n", "newline", "u", "u0000", "uD83D",
                "uDE00"}
Numbers     == {"-", "0", "1", ".", "e", "+"}

\* A text that denotes a value.
Means(t, v) == [text |-> t, value |-> v]

Join(s, separator, t) == s \o <<separator>> \o t

\* Structure, without white space: for every length the values of it, the
\* lists of values and the lists of members.
StructureTexts(max) ==
    LET f[n \in 0..max] ==
          LET scalars ==
                IF n = 0 THEN {}
                ELSE {Means([i \in 1..n |-> "1"],
                            <<"number", [i \in 1..n |-> "1"]>>)}
                     \union (IF n > 1 THEN {} ELSE
                               {Means(<<"null">>, <<"null", <<>>>>),
                                Means(<<"token">>, <<"string", <<"token">>>>)})
              enclosed(open, close, kind, lists) ==
                (IF n = 2 THEN {Means(<<open, close>>, <<kind, <<>>>>)} ELSE {})
                \union {Means(<<open>> \o l.text \o <<close>>, <<kind, l.value>>) :
                           l \in lists}
              values ==
                IF n < 2 THEN scalars
                ELSE scalars
                     \union enclosed("[", "]", "array", f[n - 2].lists)
                     \union enclosed("{", "}", "object", f[n - 2].members)
              single ==
                IF n < 3 THEN {}
                ELSE {Means(<<"token", ":">> \o v.text,
                            <<<<<<"token">>, v.value>>>>) : v \in f[n - 2].values}
              \* Lists of more than one item, of which the first is an item.
              longer(Items(_), Lists(_)) ==
                UNION {{Means(Join(a.text, ",", b.text), a.value \o b.value) :
                           a \in Items(k), b \in Lists(n - 1 - k)} : k \in 1..(n - 2)}
          IN  [values  |-> values,
               single  |-> single,
               lists   |-> {Means(v.text, <<v.value>>) : v \in values}
                           \union longer(LAMBDA k : {Means(v.text, <<v.value>>) :
                                                       v \in f[k].values},
                                         LAMBDA k : f[k].lists),
               members |-> single \union longer(LAMBDA k : f[k].single,
                                                LAMBDA k : f[k].members)]
    IN  UNION {f[n].values : n \in 0..max}

\* The pieces of a string, and the character each stands for.
Pieces ==
    {Means(<<c>>, <<c>>) : c \in {"n", "u", "u0000", "uD83D", "uDE00"}}
    \union {Means(<<"backslash", c>>, <<c>>) : c \in {"quote", "backslash"}}
    \union {Means(<<"backslash", "n">>, <<"newline">>),
            Means(<<"backslash", "u0000">>, <<"nul">>),
            Means(<<"backslash", "uD83D", "backslash", "uDE00">>, <<"wide">>)}

\* One string, with white space in front of it and behind it.
StringTexts(max) ==
    LET f[n \in 0..max] ==
          IF n = 0 THEN {Means(<<>>, <<>>)}
          ELSE UNION {{Means(s.text \o p.text, s.value \o p.value) :
                          s \in f[n - Len(p.text)]} :
                         p \in {q \in Pieces : Len(q.text) <= n}}
        blanks(n) == [i \in 1..n |-> "newline"]
    IN  UNION {UNION {{Means(blanks(i) \o <<"quote">> \o s.text \o <<"quote">>
                                \o blanks(j), <<"string", s.value>>) :
                          s \in f[n]} :
                         i \in 0..(max - 2 - n), j \in 0..(max - 2 - n)} :
                  n \in 0..(max - 2)}

\* The value of an exponent, in decimal.
DecimalOf(digits) ==
    LET f[n \in 0..Len(digits)] ==
          IF n = 0 THEN 0
          ELSE 10 * f[n - 1] + (IF digits[n] = "1" THEN 1 ELSE 0)
    IN  f[Len(digits)]

\* Numbers, which denote their own text; one whose exponent is above the limit
\* is none, unless the exponent is a single digit.
NumberTexts(max, maxExponent) ==
    LET digits(n)   == SeqOf({"0", "1"}, n)
        positive(n) == digits(n) \ {<<>>}
        integers    == {<<"0">>} \union {<<"1">> \o d : d \in digits(max - 1)}
        \* A number without exponent, with the digits of its fraction.
        decimals ==
            UNION {UNION {
                {Means(m \o i, <<>>)} \union
                {Means(m \o i \o <<".">> \o f, f) :
                    f \in positive(max - 1 - Len(m) - Len(i))} :
                i \in {j \in integers : Len(m) + Len(j) <= max}} :
                m \in {<<>>, <<"-">>}}
        inRange(f, s, d) ==
            s = <<"-">> \/ Len(d) = 1 \/ DecimalOf(d) <= maxExponent + Len(f)
        exponents(f, n) ==
            UNION {{<<"e">> \o s \o d :
                      d \in {p \in positive(n - 1 - Len(s)) : inRange(f, s, p)}} :
                     s \in {<<>>, <<"+">>, <<"-">>}}
    IN  UNION {{Means(t, <<"number", t>>) :
                  t \in {n.text} \union
                        {n.text \o e :
                           e \in exponents(n.value, max - Len(n.text))}} :
                 n \in decimals}
=============================================================================
