----------------------------- MODULE LineFormat -----------------------------
(***************************************************************************)
(* A point while it is built, its text in line protocol (Point.cxx,        *)
(* LineProtocol.cxx) and what an InfluxDB server reads in that text.       *)
(*                                                                         *)
(* A text is a sequence of characters; a number, a time stamp, true or     *)
(* false is one element.  Formatting changes no state, so the line is a    *)
(* state function: the line that would be written now.                     *)
(***************************************************************************)
EXTENDS Integers, Sequences, SequencesExt, FiniteSets

CONSTANTS
    Texts,      \* texts the application uses as names and values
    Common,     \* one of them, without anything to escape
    MaxCalls,   \* bound: calls on the point and of addGlobalTag
    MaxSpecial  \* bound: uses of a text other than Common

ASSUME TextsHaveCommon == Common \in Texts

ASSUME TextsAreTexts == Texts \subseteq Seq(STRING)

\* The measurement may be one of the other texts.
ASSUME BoundsAreNaturals == MaxCalls \in Nat /\ MaxSpecial \in Nat \ {0}

VARIABLES
    measurement,  \* Point::mMeasurement
    tags,         \* Point::mTags
    fields,       \* Point::mFields
    globalTags,   \* LineProtocol::globalTags, of InfluxDB::mGlobalTags
    memory,       \* text a field of type const char* points to
    given,        \* history: what the application asked for
    calls,        \* calls made
    special       \* uses of other texts made

vars == <<measurement, tags, fields, globalTags, memory, given, calls, special>>

\* One of the alternatives of Point::addField: "pointer" is const char*.
Value(type, text) == [type |-> type, text |-> text]

\* A number is printed within 128 characters; "notFinite" is a double that is
\* infinite or no number.
FieldValues ==
    {Value(type, text) : type \in {"string", "pointer"}, text \in Texts}
    \union {Value("number", <<"1">>), Value("notFinite", <<"nan">>)}

\* Those that can be given now: a pointer is to what is there.
Values == {value \in FieldValues : value.type = "pointer" => value.text = memory}

\* How many of these texts are not Common.
Cost(texts) == Cardinality({i \in DOMAIN texts : texts[i] # Common})

Init ==
    /\ measurement \in Texts
    /\ tags = <<>>
    /\ fields = <<>>
    /\ globalTags = <<>>
    /\ memory = Common
    /\ given = [globals |-> <<>>, tags |-> <<>>, fields |-> <<>>]
    /\ calls = 0
    /\ special = Cost(<<measurement>>)

-----------------------------------------------------------------------------
(* Formatting.                                                             *)

escape(text, characters) ==
    FlattenSeq([i \in DOMAIN text |->
                   IF text[i] \in characters THEN <<"\\", text[i]>>
                                             ELSE <<text[i]>>])

escapeMeasurement(key) == escape(key, {",", " "})

escapedAsMeasurement(key) == escapeMeasurement(key)

escapeKey(key) == escape(key, {",", "=", " "})

escapeStringValue(value) ==
    <<"\"">> \o escape(value, {"\\", "\""}) \o <<"\"">>

\* The text of a pointer is what is there when the line is made.
valueText(value) ==
    CASE value.type = "string"  -> escapeStringValue(value.text)
      [] value.type = "pointer" -> escapeStringValue(memory)
      [] OTHER                  -> value.text

Joined(parts) ==
    FlattenSeq([i \in DOMAIN parts |->
                   IF i = 1 THEN parts[i] ELSE <<",">> \o parts[i]])

getTags ==
    Joined([i \in DOMAIN tags |->
               escapeKey(tags[i][1]) \o <<"=">> \o escapeKey(tags[i][2])])

getFields ==
    Joined([i \in DOMAIN fields |->
               escapeKey(fields[i][1]) \o <<"=">> \o valueText(fields[i][2])])

appendIfNotEmpty(value, separator) ==
    IF value = <<>> THEN <<>> ELSE <<separator>> \o value

\* LineProtocol::format, with the time stamp "54".
format ==
    escapeMeasurement(measurement)
    \o appendIfNotEmpty(globalTags, ",")
    \o appendIfNotEmpty(getTags, ",")
    \o appendIfNotEmpty(getFields, " ")
    \o <<" ", "54">>

-----------------------------------------------------------------------------
(* Building.                                                               *)

\* A call with these texts is within the bounds.
Called(texts) ==
    /\ calls < MaxCalls
    /\ special + Cost(texts) <= MaxSpecial
    /\ calls' = calls + 1
    /\ special' = special + Cost(texts)

tagAlways(key, value) == Append(tags, <<key, value>>)

\* A tag without key or value is dropped.
tagsWith(key, value) ==
    IF key = <<>> \/ value = <<>> THEN tags ELSE Append(tags, <<key, value>>)

addTag ==
    \E key, value \in Texts :
        /\ Called(<<key, value>>)
        /\ tags' = tagsWith(key, value)
        /\ given' = [given EXCEPT !.tags = Append(@, <<key, value>>)]
        /\ UNCHANGED <<measurement, fields, globalTags, memory>>

\* A field without name is dropped.
addField ==
    \E name \in Texts, value \in Values :
        /\ Called(IF value.type = "string" THEN <<name, value.text>>
                                           ELSE <<name>>)
        /\ fields' = IF name = <<>> THEN fields
                                    ELSE Append(fields, <<name, value>>)
        /\ given' = [given EXCEPT !.fields = Append(@, <<name, value>>)]
        /\ UNCHANGED <<measurement, tags, globalTags, memory>>

\* InfluxDB::addGlobalTag takes name and value as they are.
addGlobalTag ==
    \E name, value \in Texts :
        /\ Called(<<name, value>>)
        /\ globalTags' = globalTags
                         \o (IF globalTags = <<>> THEN <<>> ELSE <<",">>)
                         \o name \o <<"=">> \o value
        /\ given' = [given EXCEPT !.globals = Append(@, <<name, value>>)]
        /\ UNCHANGED <<measurement, tags, fields, memory>>

\* External: the application puts another text where the pointer points.
overwrite ==
    \E text \in Texts \ {memory} :
        /\ Called(<<text>>)
        /\ memory' = text
        /\ UNCHANGED <<measurement, tags, fields, globalTags, given>>

Next == addTag \/ addField \/ addGlobalTag \/ overwrite

Spec == Init /\ [][Next]_vars

-----------------------------------------------------------------------------
(* External: how an InfluxDB server reads a line.                          *)

\* The parts of a line, and what an unescaped character in one leads to; the
\* other characters a part has to escape make the line wrong.
LeadsTo(part, c) ==
    CASE part \in {"measurement", "tagValue"} /\ c = "," -> "tagKey"
      [] part \in {"measurement", "tagValue"} /\ c = " " -> "fieldKey"
      [] part = "tagKey" /\ c = "="                      -> "tagValue"
      [] part = "fieldKey" /\ c = "="                    -> "fieldValue"
      [] part \in {"fieldValue", "closed"} /\ c = ","    -> "fieldKey"
      [] part \in {"fieldValue", "closed"} /\ c = " "    -> "time"
      [] OTHER                                           -> "nothing"

Escaped(part) ==
    CASE part = "measurement"                        -> {",", " "}
      [] part \in {"tagKey", "tagValue", "fieldKey"} -> {",", "=", " "}
      [] OTHER                                       -> {}

Start ==
    [at |-> "measurement", back |-> FALSE, text |-> <<>>, key |-> <<>>,
     measurement |-> <<>>, tags |-> <<>>, fields |-> <<>>]

Wrong(r) == [r EXCEPT !.at = "wrong"]

\* A character behind a backslash loses that, if it is one to escape.
Take(r, c, characters) ==
    [r EXCEPT !.text = IF r.back /\ c \in characters
                         THEN Append(Front(@), c) ELSE Append(@, c),
              !.back = (c = "\\")]

\* Every part but a string and the time is ended with something in it.
Closed(r, part) ==
    LET done == [r EXCEPT !.at = part, !.back = FALSE, !.text = <<>>]
    IN  IF r.text = <<>> /\ r.at # "closed" THEN Wrong(r)
        ELSE CASE r.at = "measurement" -> [done EXCEPT !.measurement = r.text]
               [] r.at \in {"tagKey", "fieldKey"} -> [done EXCEPT !.key = r.text]
               [] r.at = "tagValue" ->
                     [done EXCEPT !.tags = Append(@, <<r.key, r.text>>)]
               [] OTHER ->
                     [done EXCEPT !.fields =
                         Append(@, <<r.key, r.text, r.at = "closed">>)]

ReadQuoted(r, c) ==
    IF c = "\"" /\ ~r.back THEN [r EXCEPT !.at = "closed"]
    ELSE IF r.back /\ c = "\\" THEN [r EXCEPT !.back = FALSE]
    ELSE Take(r, c, {"\""})

ReadValue(r, c) ==
    CASE c = "\"" /\ r.text = <<>> -> [r EXCEPT !.at = "quoted"]
      [] c = "1" /\ r.text = <<>>  -> Take(r, c, {})
      [] OTHER                     -> Wrong(r)

IsEscaped(r, c) == r.back /\ c \in Escaped(r.at)

\* Nothing can be made of this character here.
IsWrong(r, c) ==
    \/ c = "\n"
    \/ c = "#" /\ r = Start
    \/ c \in Escaped(r.at) /\ ~IsEscaped(r, c) /\ LeadsTo(r.at, c) = "nothing"
    \/ r.at = "closed" /\ LeadsTo(r.at, c) = "nothing"
    \/ r.at = "time" /\ c # "54"

ReadCharacter(r, c) ==
    IF r.at = "wrong" THEN r
    ELSE IF r.at = "quoted" THEN ReadQuoted(r, c)
    ELSE IF IsWrong(r, c) THEN Wrong(r)
    ELSE IF LeadsTo(r.at, c) # "nothing" /\ ~IsEscaped(r, c)
      THEN Closed(r, LeadsTo(r.at, c))
    ELSE IF r.at = "fieldValue" THEN ReadValue(r, c)
    ELSE Take(r, c, Escaped(r.at))

\* What a server has read behind a line, if it had read r in front of it.
ReadFrom(r, line) ==
    LET read[n \in 0..Len(line)] ==
          IF n = 0 THEN r ELSE ReadCharacter(read[n - 1], line[n])
    IN  read[Len(line)]

\* What a server reads in a line, up to the time.
ReadLine(line) == ReadFrom(Start, line)

-----------------------------------------------------------------------------
\* The values of the variables.  What the point keeps of the application's
\* calls has a key and a value, a name for each field, so that a line never
\* has an empty part but for the measurement and the global tags.
TypeOK ==
    /\ measurement \in Texts
    /\ tags \in Seq((Texts \ {<<>>}) \X (Texts \ {<<>>}))
    /\ fields \in Seq((Texts \ {<<>>}) \X FieldValues)
    /\ memory \in Texts
    /\ calls \in 0..MaxCalls
    /\ special \in 0..MaxSpecial

\* The elements of a sequence that are in this set.
Selected(s, chosen) ==
    FlattenSeq([i \in DOMAIN s |-> IF s[i] \in chosen THEN <<s[i]>> ELSE <<>>])

NotEmpty == Texts \ {<<>>}

\* The point the application asked for, as a server would have to read it.
Expected ==
    LET named == Selected(given.fields, NotEmpty \X FieldValues)
    IN  [measurement |-> measurement,
         tags |-> given.globals \o Selected(given.tags, NotEmpty \X NotEmpty),
         fields |-> [i \in DOMAIN named |->
                        <<named[i][1], named[i][2].text,
                          named[i][2].type \in {"string", "pointer"}>>]]

\* What a server makes of the line that would be written now.
Understood == ReadLine(format)

IsUnderstood ==
    /\ Understood.at = "time"
    /\ \A part \in DOMAIN Expected : Understood[part] = Expected[part]

Names ==
    {measurement}
    \union (UNION {{tag[1], tag[2]} : tag \in ToSet(tags)})
    \union {field[1] : field \in ToSet(fields)}

\* A backslash at the end of a name makes the separator behind it part of the
\* name, and a line break ends the line.
Closes(name) ==
    /\ name = <<>> \/ Last(name) # "\\"
    /\ "\n" \notin ToSet(name)

NeedsNoEscape(text) ==
    text # <<>> /\ Closes(text) /\ {",", "=", " "} \intersect ToSet(text) = {}

PlainGlobalTags ==
    \A tag \in ToSet(given.globals) :
        NeedsNoEscape(tag[1]) /\ NeedsNoEscape(tag[2])

\* What the line of a point takes for granted.
Sound ==
    /\ measurement # <<>> /\ measurement[1] # "#"
    /\ \A name \in Names : Closes(name)
    /\ fields # <<>>
    /\ \A field \in ToSet(fields) :
          /\ field[2].type # "notFinite"
          /\ field[2].type = "pointer" => field[2].text = memory

\* A server reads in the line the very point the application asked for,
\* separators, quotes, backslashes and line breaks in its names and texts
\* included, and it does so exactly when
\*   - the measurement is there and does not begin a comment,
\*   - no name ends in a backslash or has a line break,
\*   - there is a field, and every number is one,
\*   - what a const char* points to has not changed since it was given,
\*   - the global tags need no escaping.
LineReadsBack == IsUnderstood <=> Sound /\ PlainGlobalTags
=============================================================================
