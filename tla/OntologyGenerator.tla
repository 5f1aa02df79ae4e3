--------------------------- MODULE OntologyGenerator ---------------------------
(***************************************************************************)
(* ontology/cmd/generate: the enums of a set of proto files become one     *)
(* SKOS vocabulary, a scheme for an enum and a concept for each value, and *)
(* every name in it is made from theirs.  Names are sequences of letters;  *)
(* "Unspecified", "Concept" and "Scheme" are letters of their own, as none *)
(* of these words is taken apart.  The vocabulary is the set of statements *)
(* that a reader of the Turtle file gets, whatever their order.            *)
(***************************************************************************)
EXTENDS Naturals, Sequences, SequencesExt, Functions

CONSTANTS
    Upper,    \* small letters, and the capital of each
    Words,    \* the words that names are made of, in small letters ...
    Acronyms, \* ... and those that are written in capitals
    MostWords \* how many words a name may have

Underscore == "_"
Space == " "

ASSUME LettersAssumption ==
    /\ IsInjective(Upper)
    /\ Range(Upper) \cap DOMAIN Upper = {}
    /\ {Underscore, Space, "Unspecified"} \cap (DOMAIN Upper \cup Range(Upper)) = {}

(* A word of one letter has only capitals: it is an acronym.               *)
ASSUME WordsAssumption ==
    /\ \A word \in Words : word \in Seq(DOMAIN Upper) /\ Len(word) > 1
    /\ \A word \in Acronyms : word \in Seq(DOMAIN Upper) /\ word # <<>>
    /\ MostWords \in Nat

Lower == [C \in Range(Upper) |-> CHOOSE c \in DOMAIN Upper : Upper[c] = C]

-----------------------------------------------------------------------------
(* Letters and names.                                                      *)

isUpper(c) == c \in DOMAIN Lower
isLower(c) == c \in DOMAIN Upper
toUpper(c) == IF isLower(c) THEN Upper[c] ELSE c
toLower(c) == IF isUpper(c) THEN Lower[c] ELSE c

(* A capital before something that is not one ...                          *)
BeginsWord(s, i) == i > 1 /\ isUpper(s[i]) /\ i < Len(s) /\ ~isUpper(s[i + 1])
(* ... or after a small letter.                                            *)
EndsLower(s, i) == i > 1 /\ isUpper(s[i]) /\ isLower(s[i - 1])

(* Mutant: only the first of the two.                                      *)
camelByNextLetter(s) ==
    FlattenSeq([i \in 1..Len(s) |->
        (IF BeginsWord(s, i) THEN <<Underscore>> ELSE <<>>) \o <<toUpper(s[i])>>])
camelToScreamingSnake(s) ==
    FlattenSeq([i \in 1..Len(s) |->
        (IF BeginsWord(s, i) \/ EndsLower(s, i) THEN <<Underscore>> ELSE <<>>) \o <<toUpper(s[i])>>])
splitCamel(s) ==
    FlattenSeq([i \in 1..Len(s) |->
        (IF BeginsWord(s, i) THEN <<Space>> ELSE <<>>) \o <<s[i]>>])

(* The words between underscores with a capital, and what is put between.  *)
Capitalised(s, separator) ==
    FlattenSeq([i \in 1..Len(s) |->
        IF s[i] = Underscore THEN separator
        ELSE IF i = 1 \/ s[i - 1] = Underscore THEN <<toUpper(s[i])>> ELSE <<toLower(s[i])>>])
(* Mutant: the words lose their capitals.                                  *)
snakeToLower(s) ==
    FlattenSeq([i \in 1..Len(s) |-> IF s[i] = Underscore THEN <<>> ELSE <<toLower(s[i])>>])
snakeToPascal(s) == Capitalised(s, <<>>)
toTitle(s) == Capitalised(s, <<Space>>)

TrimPrefix(s, prefix) ==
    IF IsPrefix(prefix, s) THEN SubSeq(s, Len(prefix) + 1, Len(s)) ELSE s

-----------------------------------------------------------------------------
(* From the enums to the statements.                                       *)

Unspecified == <<Underscore, "Unspecified">>

Kept(enum) == {v \in ToSet(enum.values) : ~IsSuffix(Unspecified, v)}

ValueInfo(enum, v) ==
    LET raw == TrimPrefix(v, camelToScreamingSnake(enum.name) \o <<Underscore>>) IN
    [concept |-> enum.name \o snakeToPascal(raw), label |-> toTitle(raw), notation |-> v]

buildEnumInfo(enum) ==
    [name |-> enum.name, values |-> {ValueInfo(enum, v) : v \in Kept(enum)}]

Class(name) == name \o <<"Concept">>
Scheme(name) == name \o <<"Scheme">>

(* An enum without values is left out.                                     *)
writeEnum(info) ==
    IF info.values = {} THEN {} ELSE
    {<<Class(info.name), "a", <<"owl:Class">> >>,
     <<Class(info.name), "subClassOf", <<"skos:Concept">> >>,
     <<Scheme(info.name), "a", <<"skos:ConceptScheme">> >>,
     <<Scheme(info.name), "label", splitCamel(info.name)>>}
    \cup UNION {{<<v.concept, "a", Class(info.name)>>,
                 <<v.concept, "a", <<"skos:Concept">> >>,
                 <<v.concept, "prefLabel", v.label>>,
                 <<v.concept, "notation", v.notation>>,
                 <<v.concept, "inScheme", Scheme(info.name)>>} : v \in info.values}

(* A file has the enums it declares outside of messages: no other is read. *)
collectEnums(set) ==
    UNION {{buildEnumInfo(enum) : enum \in ToSet(file)} : file \in ToSet(set)}

(* Without enums there is no vocabulary: the tool reports an error.        *)
Vocabulary(set) == UNION {writeEnum(info) : info \in collectEnums(set)}

-----------------------------------------------------------------------------
(* The descriptor sets to generate from: enums and values whose names are  *)
(* made of words in the style of protobuf's guide.  An acronym has only    *)
(* capitals in an enum's name, any other word begins with one.             *)

Plain == {[letters |-> word, acronym |-> FALSE] : word \in Words}
Short == {[letters |-> word, acronym |-> TRUE] : word \in Acronyms}
Tails == SeqOf(Plain, MostWords) \ {<<>>}
(* Two acronyms in a row would be one.                                     *)
EnumWords ==
    {n \in SeqOf(Plain \cup Short, MostWords) \ {<<>>} :
        \A i \in 2..Len(n) : ~(n[i - 1].acronym /\ n[i].acronym)}

Capitals(word) == [i \in 1..Len(word.letters) |-> Upper[word.letters[i]]]
Capital(word) ==
    [i \in 1..Len(word.letters) |->
        IF i = 1 THEN Upper[word.letters[i]] ELSE word.letters[i]]
CamelWord(word) == IF word.acronym THEN Capitals(word) ELSE Capital(word)

Joined(forms, separator) ==
    FlattenSeq([i \in 1..Len(forms) |->
        (IF i = 1 THEN <<>> ELSE separator) \o forms[i]])
EnumName(n) == Joined([i \in 1..Len(n) |-> CamelWord(n[i])], <<>>)
EnumTitle(n) == Joined([i \in 1..Len(n) |-> CamelWord(n[i])], <<Space>>)
Value(n) == Joined([i \in 1..Len(n) |-> Capitals(n[i])], <<Underscore>>)
Title(t) == Joined([i \in 1..Len(t) |-> Capital(t[i])], <<Space>>)
Enum(n, values) == [name |-> EnumName(n), values |-> values]

(* A value that begins with what the tool recovers of the enum's name.     *)
Carries(v, n) == IsPrefix(Value(n) \o <<Underscore>>, v)
(* Values that do not, as OAUTH_PROVIDER_GOOGLE of OAuthProvider, from     *)
(* which the tool recovers O_AUTH_PROVIDER.                                *)
Bare(n) == {t \in Tails : ~Carries(Value(t), n)}

(* An enum by itself: its values carry its name, or none of them does.     *)
(* (The concepts of A_B and B, both of the enum A, would be one.)          *)
Alone ==
    {Enum(n, <<Value(n) \o Unspecified>>) : n \in EnumWords}
    \cup {Enum(n, <<Value(n) \o Unspecified, Value(n \o t)>>) : n \in EnumWords, t \in Tails}
    \cup {Enum(n, <<Value(n \o t), Value(n \o u)>>) : n \in EnumWords, t, u \in Tails}
    \cup {Enum(n, <<Value(t)>>) : n \in EnumWords, t \in Tails}
    \cup UNION {{Enum(n, <<Value(t), Value(u)>>) : t, u \in Bare(n)} : n \in EnumWords}
(* Two enums of a package have values that carry their names.              *)
WithOneValue == {Enum(n, <<Value(n \o t)>>) : n \in EnumWords, t \in Tails}

(* Names are unique in a package, which is a file here: those of enums,    *)
(* and those of the values of all of them.                                 *)
Legal(f) ==
    /\ IsInjective([i \in 1..Len(f) |-> f[i].name])
    /\ IsInjective(FlattenSeq([i \in 1..Len(f) |-> f[i].values]))

Packages ==
    {f \in {<<e>> : e \in Alone} \cup (WithOneValue \X WithOneValue) : Legal(f)}

-----------------------------------------------------------------------------
(* What the vocabulary should say of any of them.                          *)

Of(vocabulary, predicate) == {s \in vocabulary : s[2] = predicate}

(* A concept has one notation and is in one scheme.                        *)
Functional(statements) == \A s, t \in statements : s[1] = t[1] => s = t
ApartIn(set) ==
    LET vocabulary == Vocabulary(set) IN
    Functional(Of(vocabulary, "notation")) /\ Functional(Of(vocabulary, "inScheme"))
PackagesApart == \A f \in Packages : ApartIn(<<f>>)

(* Labels have the words that the names were made of, those of a value     *)
(* without its enum's if it carries its name, all of them if it does not.  *)
LabelsOf(enum) == {s[3] : s \in Of(Vocabulary(<<<<enum>>>>), "prefLabel")}
ReadableFor(n) ==
    /\ \A t \in Tails : LabelsOf(Enum(n, <<Value(n \o t)>>)) = {Title(t)}
    /\ \A t \in Bare(n) : LabelsOf(Enum(n, <<Value(t)>>)) = {Title(t)}
    /\ (\A i \in 2..Len(n) : ~n[i].acronym) => splitCamel(EnumName(n)) = EnumTitle(n)
NamesReadable == \A n \in EnumWords : ReadableFor(n)
=============================================================================
