--------------------------- MODULE OntologyProofs ----------------------------
(***************************************************************************)
(* Proofs about the documents of OntologyEvents and the vocabulary of      *)
(* OntologyGenerator.                                                      *)
(***************************************************************************)
EXTENDS MCEventPipeline, SequenceTheorems, FiniteSetTheorems, TLAPS

-----------------------------------------------------------------------------
(* The documents.                                                          *)

(* A key of a document has the properties' value, or else the envelope's.  *)
LEMMA DocumentValue ==
    ASSUME NEW event, NEW key, key \in DOMAIN event.props \cup {"id", "type", "dateModified"}
    PROVE MarshalJSON(event)[key] =
              IF ValueOf(event.props, key) # {} THEN ValueOf(event.props, key)
              ELSE ValueOf(Envelope(event), key)
  BY DEF MarshalJSON, Override, ValueOf, Envelope

LEMMA SessionsAreDescribed == SessionsDescribed
  BY NowAssumption
  DEF SessionsDescribed, Describes, NewSessionScheduledEvent, MarshalJSON, Override,
      ValueOf, Envelope

LEMMA MatchesAreDescribed == MatchesDescribed
  BY NowAssumption
  DEF MatchesDescribed, Describes, NewMatchEvent, MarshalJSON, Override, ValueOf, Envelope

(* A user's event is the one whose properties may hold a time, the one of  *)
(* a later change than its envelope's.                                     *)
LEMMA UsersAreDescribed == UsersDescribed
<1> SUFFICES ASSUME NEW user \in UserRow,
                    user.updatedAt = 0 \/ user.updatedAt >= user.createdAt
             PROVE Describes(NewUserRegisteredEvent(user), "User", user.id,
                             Latest(user.createdAt, user.updatedAt))
    BY DEF UsersDescribed
<1> DEFINE event == NewUserRegisteredEvent(user)
<1>1. user.createdAt \in 1..Now /\ user.updatedAt \in 0..Now /\ Now \in Nat
    BY NowAssumption DEF UserRow
<1>2. /\ ValueOf(event.props, "id") = {} /\ ValueOf(event.props, "type") = {}
      /\ ValueOf(event.props, "dateModified") = {user.updatedAt} \ {0, user.createdAt}
    BY DEF NewUserRegisteredEvent, ValueOf
<1>3. /\ ValueOf(Envelope(event), "id") = {IRI("User", user.id)}
      /\ ValueOf(Envelope(event), "type") = {"User"}
      /\ ValueOf(Envelope(event), "dateModified") = {user.createdAt} \ {0}
    BY DEF NewUserRegisteredEvent, ValueOf, Envelope
<1> HIDE DEF event
<1>4. MarshalJSON(event).id = {IRI("User", user.id)} /\ MarshalJSON(event).type = {"User"}
    BY <1>2, <1>3, DocumentValue
<1>5. MarshalJSON(event).dateModified = {Latest(user.createdAt, user.updatedAt)}
    <2>1. CASE user.updatedAt \in {0, user.createdAt}
        BY <1>1, <1>2, <1>3, <2>1, DocumentValue DEF Latest
    <2>2. CASE user.updatedAt \notin {0, user.createdAt}
        BY <1>1, <1>2, <2>2, DocumentValue DEF Latest
    <2> QED BY <2>1, <2>2
<1> QED BY <1>4, <1>5 DEF Describes, event

(* Whatever row an event is built from, its document names it, at the time *)
(* of its last change: for any identifiers, texts and times.               *)
THEOREM DocumentsDescribe == PipelineSpec => []DocumentsDescribeRows
<1>1. DocumentsDescribeRows
    BY UsersAreDescribed, SessionsAreDescribed, MatchesAreDescribed DEF DocumentsDescribeRows
<1> QED BY <1>1, PTL

(* A key with one value is read as that value; a key whose value is left   *)
(* out when it is the default is read as that value all the same.          *)
LEMMA ReadValue ==
    ASSUME NEW map, NEW key, NEW default, NEW value, ValueOf(map, key) = {value}
    PROVE ReadOr(map, key, default) = value
<1>1. map[key] = {value}
    BY DEF ValueOf
<1>2. (CHOOSE v \in {value} : TRUE) = value
    OBVIOUS
<1> QED BY <1>1, <1>2 DEF ReadOr

LEMMA ReadOptional ==
    ASSUME NEW map, NEW key, NEW default, NEW value,
           ValueOf(map, key) = {value} \ {default}
    PROVE ReadOr(map, key, default) = value
<1>1. CASE value = default
    BY <1>1 DEF ReadOr
<1>2. CASE value # default
    <2>1. ValueOf(map, key) = {value}
        BY <1>2
    <2> QED BY <2>1, ReadValue
<1> QED BY <1>1, <1>2

LEMMA SessionsAreToldApart == SessionsToldApart
<1> SUFFICES ASSUME NEW session \in SessionRow, NEW document,
                    document = MarshalJSON(NewSessionScheduledEvent(session))
             PROVE SessionRead(document) = Told(session)
    BY DEF SessionsToldApart
<1> USE DEF NewSessionScheduledEvent, MarshalJSON, Override, ValueOf, Envelope
<1>1. ValueOf(document, "id") = {IRI("Session", session.id)}
    OBVIOUS
<1>2. ValueOf(document, "hasParticipant") =
          {<<IRI("User", session.initiator), IRI("User", session.partner)>>}
    OBVIOUS
<1>3. ValueOf(document, "isPremium") = {session.premium}
    OBVIOUS
<1>4. ValueOf(document, "sessionStatus") = {session.status} \ {""}
    OBVIOUS
<1>5. ValueOf(document, "meetingUrl") = {session.url} \ {""}
    OBVIOUS
<1>6. ValueOf(document, "sessionNotes") = {session.notes} \ {""}
    OBVIOUS
<1>7. ValueOf(document, "scheduledStart") = {session.start} \ {0}
    OBVIOUS
<1>8. ValueOf(document, "scheduledEnd") = {session.end} \ {0}
    OBVIOUS
<1>9. ValueOf(document, "initiatorOffers") = {session.initiatorOffers} \ {<<>>}
    OBVIOUS
<1>10. ValueOf(document, "partnerOffers") = {session.partnerOffers} \ {<<>>}
    OBVIOUS
<1> HIDE DEF NewSessionScheduledEvent, MarshalJSON, Override, ValueOf, Envelope
<1>11. ReadOr(document, "id", <<>>) = IRI("Session", session.id)
    BY <1>1, ReadValue
<1>12. ReadOr(document, "hasParticipant", <<>>) =
          <<IRI("User", session.initiator), IRI("User", session.partner)>>
    BY <1>2, ReadValue
<1>13. ReadOr(document, "isPremium", FALSE) = session.premium
    BY <1>3, ReadValue
<1>14. ReadOr(document, "sessionStatus", "") = session.status
    BY <1>4, ReadOptional
<1>15. ReadOr(document, "meetingUrl", "") = session.url
    BY <1>5, ReadOptional
<1>16. ReadOr(document, "sessionNotes", "") = session.notes
    BY <1>6, ReadOptional
<1>17. ReadOr(document, "scheduledStart", 0) = session.start
    BY <1>7, ReadOptional
<1>18. ReadOr(document, "scheduledEnd", 0) = session.end
    BY <1>8, ReadOptional
<1>19. ReadOr(document, "initiatorOffers", <<>>) = session.initiatorOffers
    BY <1>9, ReadOptional
<1>20. ReadOr(document, "partnerOffers", <<>>) = session.partnerOffers
    BY <1>10, ReadOptional
<1>21. IRI("Session", session.id)[2] = session.id
    BY DEF IRI
<1>22. LET participants == <<IRI("User", session.initiator), IRI("User", session.partner)>> IN
       participants[1][2] = session.initiator /\ participants[2][2] = session.partner
    BY DEF IRI
<1>23. Told(session) =
          [id |-> session.id, initiator |-> session.initiator, partner |-> session.partner,
           status |-> session.status, start |-> session.start, end |-> session.end,
           url |-> session.url, notes |-> session.notes,
           initiatorOffers |-> session.initiatorOffers,
           partnerOffers |-> session.partnerOffers, premium |-> session.premium]
    <2>1. DOMAIN session \ {"createdAt"} =
              {"id", "initiator", "partner", "status", "start", "end", "url", "notes",
               "initiatorOffers", "partnerOffers", "premium"}
        BY DEF SessionRow
    <2> QED BY <2>1 DEF Told
<1> QED
    BY <1>11, <1>12, <1>13, <1>14, <1>15, <1>16, <1>17, <1>18, <1>19, <1>20, <1>21,
       <1>22, <1>23
    DEF SessionRead

(* A session can be read back from its document, but for the time it was   *)
(* created at, for any identifiers, texts, times and lists.                *)
THEOREM DocumentsTellApart == PipelineSpec => []DocumentsTellRowsApart
<1>1. DocumentsTellRowsApart
    BY SessionsAreToldApart DEF DocumentsTellRowsApart
<1> QED BY <1>1, PTL

-----------------------------------------------------------------------------
(* The vocabulary.                                                         *)

(* Every enum of every file is read, and what is written for it is there.  *)
LEMMA EnumIsWritten ==
    ASSUME NEW set, NEW f \in ToSet(set), NEW e \in ToSet(f)
    PROVE writeEnum(buildEnumInfo(e)) \subseteq Vocabulary(set)
<1>1. buildEnumInfo(e) \in collectEnums(set)
    BY DEF collectEnums
<1> QED BY <1>1 DEF Vocabulary

(* A value that is kept has its concept in the scheme and the class of its *)
(* own enum.                                                               *)
LEMMA ValueIsWritten ==
    ASSUME NEW e, NEW v \in Kept(e)
    PROVE LET concept == ValueInfo(e, v).concept
              statements == writeEnum(buildEnumInfo(e)) IN
          /\ <<concept, "notation", v>> \in statements
          /\ <<concept, "inScheme", Scheme(e.name)>> \in statements
          /\ <<concept, "a", Class(e.name)>> \in statements
          /\ <<concept, "prefLabel", ValueInfo(e, v).label>> \in statements
<1> DEFINE info == buildEnumInfo(e)
           value == ValueInfo(e, v)
<1>1. value \in info.values /\ info.name = e.name
    BY DEF buildEnumInfo
<1>2. value.notation = v
    BY DEF ValueInfo
<1> HIDE DEF info, value
<1>3. {<<value.concept, "a", Class(info.name)>>,
       <<value.concept, "a", <<"skos:Concept">> >>,
       <<value.concept, "prefLabel", value.label>>,
       <<value.concept, "notation", value.notation>>,
       <<value.concept, "inScheme", Scheme(info.name)>>} \subseteq writeEnum(info)
    BY <1>1 DEF writeEnum
<1> QED BY <1>1, <1>2, <1>3 DEF info, value

-----------------------------------------------------------------------------
(* Induction over the natural numbers.                                     *)

(* Every set of natural numbers has a least one: the intervals below them  *)
(* are finite sets, and those are well-founded by inclusion.               *)
LEMMA LeastNatural ==
    ASSUME NEW T, T \subseteq Nat, T # {}
    PROVE \E n \in T : \A m \in T : n <= m
<1> DEFINE Below == {0..n : n \in T}
<1>1. Below \subseteq FiniteSubsetsOf(Nat)
    <2>1. ASSUME NEW n \in T PROVE IsFiniteSet(0..n) /\ 0..n \subseteq Nat
        BY FS_Interval
    <2> QED BY <2>1 DEF FiniteSubsetsOf
<1>2. Below # {}
    OBVIOUS
<1>3. PICK B \in Below : \A C \in Below : <<C, B>> \notin StrictSubsetOrdering(Nat)
    <2> HIDE DEF Below
    <2>1. IsWellFoundedOn(StrictSubsetOrdering(Nat), FiniteSubsetsOf(Nat))
        BY FS_StrictSubsetOrderingWellFounded
    <2> QED BY <1>1, <1>2, <2>1, WFMin
<1>4. PICK n \in T : B = 0..n
    OBVIOUS
<1>5. ASSUME NEW m \in T, m < n PROVE FALSE
    <2>1. 0..m \subseteq 0..n /\ 0..m # 0..n
        <3>1. n \in 0..n /\ n \notin 0..m
            BY <1>5
        <3> QED BY <3>1, <1>5
    <2>2. 0..m \in SUBSET Nat /\ 0..n \in SUBSET Nat
        OBVIOUS
    <2>3. <<0..m, B>> \in StrictSubsetOrdering(Nat)
        BY <1>4, <2>1, <2>2 DEF StrictSubsetOrdering
    <2> QED BY <1>3, <2>3
<1> QED BY <1>5

(* A set with 0 and, with a number, the next has them all.                 *)
LEMMA SetInduction ==
    ASSUME NEW T, 0 \in T, \A n \in Nat : n \in T => n + 1 \in T
    PROVE \A n \in Nat : n \in T
<1> SUFFICES ASSUME NEW x \in Nat, x \notin T PROVE FALSE
    OBVIOUS
<1>1. PICK n \in Nat \ T : \A m \in Nat \ T : n <= m
    BY LeastNatural
<1>2. n # 0 /\ n - 1 \in T
    BY <1>1
<1> QED BY <1>1, <1>2

-----------------------------------------------------------------------------
(* FlattenSeq, which the generator's loops over letters and words are.     *)

(* What FlattenSeq computes from the left, up to the k-th sequence.        *)
Flattens(g, k, seqs) ==
    g = [i \in 1..k |-> IF i = 1 THEN seqs[i] ELSE g[i - 1] \o seqs[i]]

(* It can always be computed one step further ...                          *)
LEMMA FlattensOneMore ==
    ASSUME NEW seqs, NEW k \in Nat, NEW g, Flattens(g, k, seqs)
    PROVE \E h : Flattens(h, k + 1, seqs)
<1> DEFINE h == [i \in 1..(k + 1) |->
                    IF i <= k THEN g[i]
                    ELSE IF i = 1 THEN seqs[i] ELSE g[i - 1] \o seqs[i]]
<1>1. \A i \in 1..k : g[i] = IF i = 1 THEN seqs[i] ELSE g[i - 1] \o seqs[i]
    BY DEF Flattens
<1>2. ASSUME NEW i \in 1..(k + 1)
      PROVE h[i] = IF i = 1 THEN seqs[i] ELSE h[i - 1] \o seqs[i]
    <2>1. CASE i = 1
        BY <1>1, <2>1
    <2>2. CASE i # 1
        <3>1. i - 1 \in 1..k /\ h[i - 1] = g[i - 1]
            BY <2>2
        <3>2. h[i] = g[i - 1] \o seqs[i]
            <4>1. CASE i <= k
                <5>1. i \in 1..k /\ h[i] = g[i]
                    BY <4>1
                <5> HIDE DEF h
                <5>2. g[i] = g[i - 1] \o seqs[i]
                    BY <1>1, <2>2, <5>1
                <5> QED BY <5>1, <5>2
            <4>2. CASE ~(i <= k)
                <5>1. h[i] = IF i = 1 THEN seqs[i] ELSE g[i - 1] \o seqs[i]
                    BY <4>2
                <5> HIDE DEF h
                <5> QED BY <2>2, <5>1
            <4> QED BY <4>1, <4>2
        <3> QED BY <2>2, <3>1, <3>2
    <2> QED BY <2>1, <2>2
<1>3. h = [i \in 1..(k + 1) |-> h[i]]
    OBVIOUS
<1> HIDE DEF h
<1>4. h = [i \in 1..(k + 1) |-> IF i = 1 THEN seqs[i] ELSE h[i - 1] \o seqs[i]]
    BY <1>2, <1>3
<1> QED BY <1>4 DEF Flattens

(* ... and so as far as one likes.                                         *)
LEMMA FlattenExists ==
    ASSUME NEW seqs, NEW k \in Nat
    PROVE \E g : Flattens(g, k, seqs)
<1> DEFINE T == {n \in Nat : \E g : Flattens(g, n, seqs)}
<1>1. 0 \in T
    <2>1. Flattens([i \in 1..0 |-> <<>>], 0, seqs)
        BY DEF Flattens
    <2> QED BY <2>1
<1>2. ASSUME NEW n \in Nat, n \in T PROVE n + 1 \in T
    <2>1. PICK g : Flattens(g, n, seqs)
        BY <1>2
    <2> QED BY <2>1, FlattensOneMore
<1> HIDE DEF T
<1>3. k \in T
    BY <1>1, <1>2, SetInduction
<1> QED BY <1>3 DEF T

(* What it computes on the way are sequences of the same elements.         *)
LEMMA FlattenTyped ==
    ASSUME NEW S, NEW seqs \in Seq(Seq(S)), NEW g, Flattens(g, Len(seqs), seqs)
    PROVE \A i \in 1..Len(seqs) : g[i] \in Seq(S)
<1> DEFINE T == {n \in Nat : n \in 1..Len(seqs) => g[n] \in Seq(S)}
<1>1. \A i \in 1..Len(seqs) : g[i] = IF i = 1 THEN seqs[i] ELSE g[i - 1] \o seqs[i]
    BY DEF Flattens
<1>2. \A i \in 1..Len(seqs) : seqs[i] \in Seq(S)
    BY ElementOfSeq
<1>3. Len(seqs) \in Nat
    BY LenProperties
<1>4. ASSUME NEW n \in Nat, n \in T PROVE n + 1 \in T
    <2> SUFFICES ASSUME n + 1 \in 1..Len(seqs) PROVE g[n + 1] \in Seq(S)
        OBVIOUS
    <2>1. CASE n = 0
        BY <1>1, <1>2, <2>1
    <2>2. CASE n # 0
        <3>1. g[n] \in Seq(S) /\ seqs[n + 1] \in Seq(S)
            BY <1>2, <1>3, <1>4, <2>2
        <3>2. n + 1 \in 1..Len(seqs) /\ n + 1 # 1 /\ (n + 1) - 1 = n
            BY <2>2
        <3>3. g[n + 1] = g[(n + 1) - 1] \o seqs[n + 1]
            BY <1>1, <3>2
        <3> QED BY <3>1, <3>2, <3>3, ConcatProperties
    <2> QED BY <2>1, <2>2
<1>5. 0 \in T
    OBVIOUS
<1> HIDE DEF T
<1>6. \A n \in Nat : n \in T
    BY <1>4, <1>5, SetInduction
<1> QED BY <1>3, <1>6 DEF T

(* FlattenSeq is the last of what is computed.                             *)
LEMMA FlattenSeqIs ==
    ASSUME NEW S, NEW seqs \in Seq(Seq(S)), seqs # <<>>
    PROVE \E g : Flattens(g, Len(seqs), seqs) /\ FlattenSeq(seqs) = g[Len(seqs)]
<1> DEFINE flatten == CHOOSE f : Flattens(f, Len(seqs), seqs)
<1>1. Flattens(flatten, Len(seqs), seqs)
    BY FlattenExists, LenProperties
<1>2. Len(seqs) # 0
    BY EmptySeq
<1>3. FlattenSeq(seqs) = flatten[Len(seqs)]
    BY <1>2 DEF FlattenSeq, Flattens
<1> QED BY <1>1, <1>3

(* The first k elements are the same.                                      *)
Agree(s, t, k) == \A i \in 1..k : s[i] = t[i]

(* Two that agree up to k on the sequences agree on what they compute.     *)
LEMMA FlattensAgree ==
    ASSUME NEW s, NEW t, NEW k \in Nat, NEW l \in Nat, k <= l,
           Agree(s, t, k), NEW g, NEW h, Flattens(g, k, s), Flattens(h, l, t)
    PROVE Agree(g, h, k)
<1> DEFINE T == {n \in Nat : n \in 1..k => g[n] = h[n]}
<1>1. \A i \in 1..k : g[i] = IF i = 1 THEN s[i] ELSE g[i - 1] \o s[i]
    BY DEF Flattens
<1>2. \A i \in 1..l : h[i] = IF i = 1 THEN t[i] ELSE h[i - 1] \o t[i]
    BY DEF Flattens
<1>3. ASSUME NEW n \in Nat, n \in T PROVE n + 1 \in T
    <2> SUFFICES ASSUME n + 1 \in 1..k PROVE g[n + 1] = h[n + 1]
        OBVIOUS
    <2>1. n + 1 \in 1..l /\ s[n + 1] = t[n + 1] /\ (n + 1) - 1 = n
        BY DEF Agree
    <2>2. CASE n = 0
        BY <1>1, <1>2, <2>1, <2>2
    <2>3. CASE n # 0
        <3>1. g[n] = h[n]
            BY <1>3, <2>3
        <3> DEFINE i == n + 1
        <3>2. i \in 1..k /\ i \in 1..l /\ i # 1 /\ i - 1 = n /\ s[i] = t[i]
            BY <2>1, <2>3
        <3> HIDE DEF i
        <3>3. g[i] = g[i - 1] \o s[i] /\ h[i] = h[i - 1] \o t[i]
            BY <1>1, <1>2, <3>2
        <3>4. g[i] = h[i]
            BY <3>1, <3>2, <3>3
        <3> QED BY <3>4 DEF i
    <2> QED BY <2>2, <2>3
<1>4. 0 \in T
    OBVIOUS
<1> HIDE DEF T
<1>5. \A n \in Nat : n \in T
    BY <1>3, <1>4, SetInduction
<1> QED BY <1>5 DEF T, Agree

(* Nothing, of no sequences.                                               *)
LEMMA FlattenEmpty == FlattenSeq(<<>>) = <<>>
  BY DEF FlattenSeq

(* FlattenSeq gives a sequence of the same elements.                       *)
LEMMA FlattenType ==
    ASSUME NEW S, NEW seqs \in Seq(Seq(S))
    PROVE FlattenSeq(seqs) \in Seq(S)
<1>1. CASE seqs = <<>>
    BY <1>1, FlattenEmpty, EmptySeq
<1>2. CASE seqs # <<>>
    <2>1. PICK g : Flattens(g, Len(seqs), seqs) /\ FlattenSeq(seqs) = g[Len(seqs)]
        BY <1>2, FlattenSeqIs
    <2>2. Len(seqs) \in 1..Len(seqs)
        BY <1>2, EmptySeq
    <2> QED BY <2>1, <2>2, FlattenTyped
<1> QED BY <1>1, <1>2

(* One sequence more.                                                      *)
LEMMA FlattenOneMore ==
    ASSUME NEW S, NEW seqs \in Seq(Seq(S)), NEW last \in Seq(S),
           NEW longer \in Seq(Seq(S)), Len(longer) = Len(seqs) + 1,
           \A i \in 1..Len(seqs) : longer[i] = seqs[i],
           longer[Len(longer)] = last
    PROVE FlattenSeq(longer) = FlattenSeq(seqs) \o last
<1> DEFINE k == Len(seqs)
<1>1. k \in Nat /\ Len(longer) = k + 1 /\ longer # <<>> /\ longer[k + 1] = last
    BY LenProperties
<1>2. PICK h : Flattens(h, k + 1, longer) /\ FlattenSeq(longer) = h[k + 1]
    BY <1>1, FlattenSeqIs
<1>3. \A i \in 1..(k + 1) : h[i] = IF i = 1 THEN longer[i] ELSE h[i - 1] \o longer[i]
    BY <1>2 DEF Flattens
<1>4. CASE k = 0
    <2>1. seqs = <<>> /\ FlattenSeq(seqs) = <<>>
        BY <1>4, EmptySeq, FlattenEmpty
    <2>2. h[1] = last
        BY <1>1, <1>3, <1>4
    <2>3. FlattenSeq(seqs) \o last = last
        BY <2>1, ConcatEmptySeq
    <2> QED BY <1>2, <1>4, <2>2, <2>3
<1>5. CASE k # 0
    <2>1. PICK g : Flattens(g, k, seqs) /\ FlattenSeq(seqs) = g[k]
        BY <1>5, EmptySeq, FlattenSeqIs
    <2>2. \A i \in 1..k : g[i] = h[i]
        <3>1. Agree(seqs, longer, k)
            BY DEF Agree
        <3> DEFINE l == k + 1
        <3>2. k \in Nat /\ l \in Nat /\ k <= l
            BY <1>1
        <3>3. Flattens(g, k, seqs) /\ Flattens(h, l, longer)
            BY <1>2, <2>1
        <3> HIDE DEF k, l
        <3>4. Agree(g, h, k)
            BY <3>1, <3>2, <3>3, FlattensAgree
        <3> QED BY <3>4 DEF Agree
    <2>3. k + 1 \in 1..(k + 1) /\ k + 1 # 1 /\ (k + 1) - 1 = k /\ k \in 1..k
        BY <1>1, <1>5
    <2>4. h[k + 1] = h[(k + 1) - 1] \o longer[k + 1]
        BY <1>3, <2>3
    <2> QED BY <1>1, <1>2, <2>1, <2>2, <2>3, <2>4
<1> QED BY <1>4, <1>5

(* One sequence more of the first ones.                                    *)
LEMMA FlattenPrefix ==
    ASSUME NEW S, NEW seqs \in Seq(Seq(S)), NEW k \in Nat, k < Len(seqs)
    PROVE FlattenSeq(SubSeq(seqs, 1, k + 1)) = FlattenSeq(SubSeq(seqs, 1, k)) \o seqs[k + 1]
<1>1. Len(seqs) \in Nat /\ k + 1 \in 1..Len(seqs)
    BY LenProperties
<1>2. seqs[k + 1] \in Seq(S)
    BY <1>1, ElementOfSeq
<1> DEFINE shorter == SubSeq(seqs, 1, k)
           longer == SubSeq(seqs, 1, k + 1)
<1>3. /\ shorter \in Seq(Seq(S)) /\ Len(shorter) = k
      /\ \A i \in 1..k : shorter[i] = seqs[i]
    BY <1>1, SubSeqProperties
<1>4. /\ longer \in Seq(Seq(S)) /\ Len(longer) = k + 1
      /\ \A i \in 1..(k + 1) : longer[i] = seqs[i]
    BY <1>1, SubSeqProperties
<1> HIDE DEF shorter, longer
<1>5. ASSUME NEW i \in 1..Len(shorter) PROVE longer[i] = shorter[i]
    <2>1. i \in 1..k /\ i \in 1..(k + 1)
        BY <1>3
    <2> QED BY <1>3, <1>4, <2>1
<1>6. Len(longer) = Len(shorter) + 1 /\ longer[Len(longer)] = seqs[k + 1]
    BY <1>1, <1>3, <1>4
<1>7. FlattenSeq(longer) = FlattenSeq(shorter) \o seqs[k + 1]
    BY <1>2, <1>3, <1>4, <1>5, <1>6, FlattenOneMore
<1> QED BY <1>7 DEF shorter, longer

-----------------------------------------------------------------------------
(* Names.                                                                  *)

(* What the generator's names are spelt with.                              *)
Alphabet == DOMAIN Upper \cup Range(Upper) \cup {Underscore, Space, "Unspecified"}
Spelling == Seq(Alphabet)
(* One after the other.                                                    *)
Cat(a, b) == a \o b
(* A letter by itself.                                                     *)
One(c) == <<c>>

(* The length of two names together ...                                    *)
LEMMA CatType ==
    ASSUME NEW a \in Spelling, NEW b \in Spelling
    PROVE /\ Cat(a, b) \in Spelling
          /\ Len(Cat(a, b)) = Len(a) + Len(b)
  BY ConcatProperties DEF Cat, Spelling

(* ... and their letters, which are those of the one and then the other's. *)
LEMMA CatAt ==
    ASSUME NEW a \in Spelling, NEW b \in Spelling
    PROVE /\ \A i \in 1..Len(a) : Cat(a, b)[i] = a[i]
          /\ \A i \in 1..Len(b) : Cat(a, b)[Len(a) + i] = b[i]
<1>1. Len(a) \in Nat /\ Len(b) \in Nat
    BY LenProperties DEF Spelling
<1>2. \A i \in 1..(Len(a) + Len(b)) : (a \o b)[i] = IF i <= Len(a) THEN a[i] ELSE b[i - Len(a)]
    BY ConcatProperties DEF Spelling
<1>3. ASSUME NEW i \in 1..Len(a) PROVE (a \o b)[i] = a[i]
    BY <1>1, <1>2
<1>4. ASSUME NEW i \in 1..Len(b) PROVE (a \o b)[Len(a) + i] = b[i]
    BY <1>1, <1>2
<1> QED BY <1>3, <1>4 DEF Cat

(* Three names together, in any order of taking them.                      *)
LEMMA CatAssoc ==
    ASSUME NEW a \in Spelling, NEW b \in Spelling, NEW c \in Spelling
    PROVE Cat(Cat(a, b), c) = Cat(a, Cat(b, c))
  BY ConcatAssociative DEF Cat, Spelling

(* The empty name adds nothing.                                            *)
LEMMA CatEmpty ==
    ASSUME NEW a \in Spelling
    PROVE <<>> \in Spelling /\ Cat(a, <<>>) = a /\ Cat(<<>>, a) = a
  BY ConcatEmptySeq DEF Cat, Spelling

(* A letter is a name.                                                     *)
LEMMA OneType ==
    ASSUME NEW c \in Alphabet
    PROVE One(c) \in Spelling /\ Len(One(c)) = 1 /\ One(c)[1] = c
  BY DEF One, Spelling

(* A name has letters up to its length.                                    *)
LEMMA SpellingType ==
    ASSUME NEW a \in Spelling
    PROVE /\ Len(a) \in Nat
          /\ \A i \in 1..Len(a) : a[i] \in Alphabet
          /\ a = <<>> <=> Len(a) = 0
  BY LenProperties, ElementOfSeq, EmptySeq DEF Spelling

(* Names with the same letters are the same.                               *)
LEMMA SameSpelling ==
    ASSUME NEW a \in Spelling, NEW b \in Spelling, Len(a) = Len(b),
           \A i \in 1..Len(a) : a[i] = b[i]
    PROVE a = b
  BY SeqEqual DEF Spelling

(* The letters of a word, one by one, the first after something else.      *)
Letters(seqs, n, before, word) ==
    /\ seqs[n + 1] = Cat(before, One(word[1]))
    /\ \A i \in 2..Len(word) : seqs[n + i] = One(word[i])

(* The first k letters of a word.                                          *)
First(word, k) == SubSeq(word, 1, k)

(* One letter more.                                                        *)
LEMMA FirstOneMore ==
    ASSUME NEW word \in Spelling, NEW k \in Nat, k < Len(word)
    PROVE First(word, k) \in Spelling /\ First(word, k + 1) = Cat(First(word, k), One(word[k + 1]))
<1>1. Len(word) \in Nat /\ k + 1 \in 1..Len(word) /\ (k + 1) - 1 = k
    BY LenProperties DEF Spelling
<1>2. SubSeq(word, 1, k) \in Seq(Alphabet)
    <2>1. \A i \in 1..k : word[i] \in Alphabet
        BY <1>1, SpellingType
    <2> QED BY <2>1, SubSeqProperties
<1>3. SubSeq(word, 1, k + 1) = SubSeq(word, 1, (k + 1) - 1) \o <<word[k + 1]>>
    <2>1. 1 \in 1..Len(word) /\ k + 1 \in 1..Len(word) /\ k + 1 \in 1..(k + 1)
        BY <1>1
    <2> DEFINE n == k + 1
    <2>2. 1 \in 1..Len(word) /\ n \in 1..Len(word)
        BY <1>1
    <2> HIDE DEF n
    <2>3. SubSeq(word, 1, n) = SubSeq(word, 1, n - 1) \o <<word[n]>>
        BY <2>2, SubSeqRecursiveSecond DEF Spelling
    <2> QED BY <2>3 DEF n
<1> QED BY <1>1, <1>2, <1>3 DEF First, Cat, One, Spelling

(* Letter by letter, a word is added to what was there before it.          *)
LEMMA FlattenWord ==
    ASSUME NEW seqs \in Seq(Spelling), NEW longer \in Seq(Spelling),
           NEW word \in Spelling, NEW before \in Spelling, word # <<>>,
           Len(longer) = Len(seqs) + Len(word), Agree(longer, seqs, Len(seqs)),
           Letters(longer, Len(seqs), before, word)
    PROVE FlattenSeq(longer) = Cat(FlattenSeq(seqs), Cat(before, word))
<1> DEFINE m == Len(seqs)
           Prefix(k) == FlattenSeq(SubSeq(longer, 1, m + k))
           T == {k \in Nat : k < Len(word) =>
                    Prefix(k + 1) = Cat(FlattenSeq(seqs), Cat(before, First(word, k + 1)))}
<1>1. m \in Nat /\ Len(word) \in Nat /\ Len(word) # 0 /\ Len(longer) = m + Len(word)
    BY LenProperties, SpellingType
<1>2. Prefix(0) = FlattenSeq(seqs) /\ FlattenSeq(seqs) \in Spelling
    <2>1. /\ SubSeq(longer, 1, m) \in Seq(Spelling) /\ Len(SubSeq(longer, 1, m)) = m
          /\ \A i \in 1..m : SubSeq(longer, 1, m)[i] = longer[i]
        BY <1>1, SubSeqProperties
    <2>2. \A i \in 1..m : SubSeq(longer, 1, m)[i] = seqs[i]
        BY <2>1 DEF Agree
    <2>3. SubSeq(longer, 1, m) = seqs
        BY <2>1, <2>2, SeqEqual
    <2>4. m + 0 = m
        BY <1>1
    <2> QED BY <2>3, <2>4, FlattenType DEF Spelling
<1>3. ASSUME NEW k \in Nat, k < Len(word)
      PROVE Prefix(k + 1) = Cat(Prefix(k), longer[m + (k + 1)])
    <2> DEFINE j == m + k
    <2>1. j \in Nat /\ j < Len(longer) /\ m + (k + 1) = j + 1
        BY <1>1, <1>3
    <2> HIDE DEF j
    <2>2. FlattenSeq(SubSeq(longer, 1, j + 1)) = FlattenSeq(SubSeq(longer, 1, j)) \o longer[j + 1]
        BY <2>1, FlattenPrefix DEF Spelling
    <2> QED BY <2>1, <2>2 DEF j, Cat
<1>4. longer[m + (0 + 1)] = Cat(before, One(word[0 + 1])) /\ First(word, 0) = <<>>
    <2>1. m + (0 + 1) = m + 1 /\ 0 + 1 = 1
        BY <1>1
    <2>2. First(word, 0) = <<>>
        BY SubSeqEmpty DEF First
    <2> QED BY <2>1, <2>2 DEF Letters
<1>5. ASSUME NEW k \in Nat, k < Len(word), k # 0
      PROVE longer[m + (k + 1)] = One(word[k + 1])
    <2>1. k + 1 \in 2..Len(word)
        BY <1>1, <1>5
    <2> QED BY <2>1 DEF Letters
<1>6. \A k \in Nat : k < Len(word) => word[k + 1] \in Alphabet /\ One(word[k + 1]) \in Spelling
    BY <1>1, SpellingType, OneType
<1> HIDE DEF Prefix, m
<1>7. 0 \in T
    <2>1. Prefix(0 + 1) = Cat(FlattenSeq(seqs), Cat(before, One(word[0 + 1])))
        BY <1>1, <1>2, <1>3, <1>4
    <2>2. First(word, 0 + 1) = One(word[0 + 1])
        BY <1>1, <1>4, <1>6, FirstOneMore, CatEmpty
    <2> QED BY <2>1, <2>2
<1>8. ASSUME NEW k \in Nat, k \in T PROVE k + 1 \in T
    <2> SUFFICES ASSUME k + 1 < Len(word)
                 PROVE Prefix((k + 1) + 1) =
                           Cat(FlattenSeq(seqs), Cat(before, First(word, (k + 1) + 1)))
        OBVIOUS
    <2>1. PICK n \in Nat : n = k + 1 /\ n # 0 /\ n < Len(word)
        BY <1>1
    <2>2. Prefix(n) = Cat(FlattenSeq(seqs), Cat(before, First(word, n)))
        BY <1>1, <1>8, <2>1
    <2>3. Prefix(n + 1) = Cat(Prefix(n), One(word[n + 1]))
        BY <1>3, <1>5, <2>1
    <2>4. First(word, n) \in Spelling /\ First(word, n + 1) = Cat(First(word, n), One(word[n + 1]))
        BY <2>1, FirstOneMore
    <2>5. One(word[n + 1]) \in Spelling
        BY <1>6, <2>1
    <2>6. Cat(Cat(FlattenSeq(seqs), Cat(before, First(word, n))), One(word[n + 1])) =
              Cat(FlattenSeq(seqs), Cat(Cat(before, First(word, n)), One(word[n + 1])))
        BY <1>2, <2>4, <2>5, CatType, CatAssoc
    <2>7. Cat(Cat(before, First(word, n)), One(word[n + 1])) =
              Cat(before, Cat(First(word, n), One(word[n + 1])))
        BY <2>4, <2>5, CatAssoc
    <2> QED BY <2>1, <2>2, <2>3, <2>4, <2>6, <2>7
<1> HIDE DEF T
<1>9. \A k \in Nat : k \in T
    BY <1>7, <1>8, SetInduction
<1>10. PICK k \in Nat : k + 1 = Len(word) /\ k < Len(word)
    <2> DEFINE k == Len(word) - 1
    <2>1. k \in Nat /\ k + 1 = Len(word) /\ k < Len(word)
        BY <1>1
    <2> HIDE DEF k
    <2> QED BY <2>1
<1>11. Prefix(Len(word)) = Cat(FlattenSeq(seqs), Cat(before, First(word, Len(word))))
    BY <1>9, <1>10 DEF T
<1>12. Prefix(Len(word)) = FlattenSeq(longer)
    <2>1. SubSeq(longer, 1, Len(longer)) = longer
        BY SubSeqFull
    <2> QED BY <1>1, <2>1 DEF Prefix, m
<1>13. First(word, Len(word)) = word
    BY SubSeqFull DEF First, Spelling
<1> QED BY <1>11, <1>12, <1>13

-----------------------------------------------------------------------------
(* What is built one by one.                                               *)

(* One more at the end.                                                    *)
Extends(longer, s, last) ==
    /\ Len(longer) = Len(s) + 1
    /\ \A i \in 1..Len(s) : longer[i] = s[i]
    /\ longer[Len(s) + 1] = last

(* A sequence that is not empty is a shorter one and its last.             *)
LEMMA Shorter ==
    ASSUME NEW S, NEW s \in Seq(S), s # <<>>
    PROVE \E shorter \in Seq(S), last \in S :
              Extends(s, shorter, last) /\ Len(shorter) < Len(s)
<1>1. Len(s) \in Nat /\ Len(s) # 0
    BY EmptySeq, LenProperties
<1> DEFINE k == Len(s) - 1
           shorter == SubSeq(s, 1, k)
<1>2. k \in Nat /\ Len(s) = k + 1 /\ k < Len(s)
    BY <1>1
<1>3. \A i \in 1..(k + 1) : s[i] \in S
    BY <1>2, ElementOfSeq
<1> HIDE DEF k
<1>4. shorter \in Seq(S) /\ Len(shorter) = k /\ \A i \in 1..k : shorter[i] = s[i]
    BY <1>2, <1>3, SubSeqProperties
<1> HIDE DEF shorter
<1>5. Extends(s, shorter, s[k + 1]) /\ s[k + 1] \in S
    BY <1>2, <1>3, <1>4 DEF Extends
<1> QED BY <1>2, <1>4, <1>5

(* One name more is added at the end.                                      *)
LEMMA FlattenExtended ==
    ASSUME NEW seqs \in Seq(Spelling), NEW longer \in Seq(Spelling), NEW last \in Spelling,
           Extends(longer, seqs, last)
    PROVE FlattenSeq(longer) = Cat(FlattenSeq(seqs), last) /\ FlattenSeq(seqs) \in Spelling
<1>1. Len(longer) = Len(seqs) + 1 /\ \A i \in 1..Len(seqs) : longer[i] = seqs[i]
    BY DEF Extends
<1>2. longer[Len(longer)] = last
    BY DEF Extends
<1>3. /\ seqs \in Seq(Seq(Alphabet)) /\ longer \in Seq(Seq(Alphabet))
      /\ last \in Seq(Alphabet)
    BY DEF Spelling
<1>4. FlattenSeq(longer) = FlattenSeq(seqs) \o last
    <2> HIDE DEF Extends
    <2> QED BY <1>1, <1>2, <1>3, FlattenOneMore, ZenonT(60)
<1> QED BY <1>4, FlattenType DEF Cat, Spelling

(* The names with the separator, before they are one.                      *)
Separated(forms, separator) ==
    [i \in 1..Len(forms) |-> (IF i = 1 THEN <<>> ELSE separator) \o forms[i]]

(* They are names, as many as before.                                      *)
LEMMA SeparatedType ==
    ASSUME NEW forms \in Seq(Spelling), NEW separator \in Spelling
    PROVE /\ Separated(forms, separator) \in Seq(Spelling)
          /\ Len(Separated(forms, separator)) = Len(forms)
<1>1. Len(forms) \in Nat
    BY LenProperties
<1>2. ASSUME NEW i \in 1..Len(forms)
      PROVE (IF i = 1 THEN <<>> ELSE separator) \o forms[i] \in Spelling
    <2>1. forms[i] \in Spelling /\ <<>> \in Spelling
        BY ElementOfSeq, CatEmpty
    <2>2. Cat(<<>>, forms[i]) \in Spelling /\ Cat(separator, forms[i]) \in Spelling
        BY <2>1, CatType
    <2> QED BY <2>2 DEF Cat
<1> QED BY <1>1, <1>2 DEF Separated

(* Joined is a name ...                                                    *)
LEMMA JoinedType ==
    ASSUME NEW forms \in Seq(Spelling), NEW separator \in Spelling
    PROVE Joined(forms, separator) \in Spelling
  BY SeparatedType, FlattenType DEF Joined, Separated, Spelling

(* ... the empty one of no names ...                                       *)
LEMMA JoinedNone == \A separator : Joined(<<>>, separator) = <<>>
<1> TAKE separator
<1>1. [i \in 1..Len(<<>>) |-> (IF i = 1 THEN <<>> ELSE separator) \o <<>>[i]] = <<>>
    OBVIOUS
<1> QED BY <1>1, FlattenEmpty DEF Joined

(* ... and one name more comes after a separator, unless it is the first.  *)
LEMMA JoinedOneMore ==
    ASSUME NEW forms \in Seq(Spelling), NEW longer \in Seq(Spelling), NEW last \in Spelling,
           NEW separator \in Spelling, Extends(longer, forms, last)
    PROVE Joined(longer, separator) =
              IF Len(forms) = 0 THEN last
              ELSE Cat(Joined(forms, separator), Cat(separator, last))
<1> DEFINE s == Separated(forms, separator)
           t == Separated(longer, separator)
           before == IF Len(forms) = 0 THEN <<>> ELSE separator
<1>1. /\ s \in Seq(Spelling) /\ Len(s) = Len(forms) /\ Len(forms) \in Nat
      /\ t \in Seq(Spelling) /\ Len(t) = Len(forms) + 1
    BY SeparatedType, LenProperties DEF Extends
<1>2. before \in Spelling /\ Cat(before, last) \in Spelling
    BY CatEmpty, CatType
<1>3. \A i \in 1..Len(s) : t[i] = s[i]
    BY <1>1 DEF Separated, Extends
<1>4. t[Len(t)] = Cat(before, last)
    <2>1. Len(t) \in 1..Len(longer) /\ (Len(t) = 1 <=> Len(forms) = 0) /\ Len(t) = Len(forms) + 1
        BY <1>1 DEF Extends
    <2>2. longer[Len(t)] = last
        BY <1>1 DEF Extends
    <2>3. t[Len(t)] = (IF Len(t) = 1 THEN <<>> ELSE separator) \o longer[Len(t)]
        BY <2>1 DEF Separated
    <2> QED BY <2>1, <2>2, <2>3 DEF Cat
<1> HIDE DEF s, t, before
<1>5. FlattenSeq(t) = Cat(FlattenSeq(s), Cat(before, last))
    <2>1. Extends(t, s, Cat(before, last))
        BY <1>1, <1>3, <1>4 DEF Extends
    <2> QED BY <1>1, <1>2, <2>1, FlattenExtended
<1>6. FlattenSeq(t) = Joined(longer, separator) /\ FlattenSeq(s) = Joined(forms, separator)
    BY DEF s, t, Joined, Separated
<1>7. CASE Len(forms) = 0
    <2>1. forms = <<>>
        BY <1>7, EmptySeq
    <2>2. FlattenSeq(s) = <<>>
        BY <1>6, <2>1, JoinedNone
    <2> QED BY <1>5, <1>6, <1>7, <2>2, CatEmpty DEF before, Cat
<1>8. CASE Len(forms) # 0
    BY <1>5, <1>6, <1>8 DEF before, Cat
<1> QED BY <1>7, <1>8

(* What two names are joined to.                                           *)
LEMMA JoinedBoth ==
    ASSUME NEW f \in Seq(Spelling), NEW g \in Seq(Spelling), NEW separator \in Spelling,
           f # <<>>, g # <<>>
    PROVE Joined(Cat(f, g), separator) =
              Cat(Cat(Joined(f, separator), separator), Joined(g, separator))
<1> DEFINE J(s) == Joined(s, separator)
           T == {k \in Nat : \A h \in Seq(Spelling) : h # <<>> /\ Len(h) = k =>
                    J(Cat(f, h)) = Cat(Cat(J(f), separator), J(h))}
<1>1. \A h \in Seq(Spelling) : J(h) \in Spelling
    BY JoinedType
<1>2. Len(f) \in Nat /\ Len(f) # 0
    BY LenProperties, EmptySeq
<1> HIDE DEF J
<1>3. 0 \in T
    BY EmptySeq
<1>4. ASSUME NEW k \in Nat, k \in T PROVE k + 1 \in T
    <2> SUFFICES ASSUME NEW h \in Seq(Spelling), Len(h) = k + 1
                 PROVE J(Cat(f, h)) = Cat(Cat(J(f), separator), J(h))
        OBVIOUS
    <2>1. h # <<>>
        BY EmptySeq
    <2>2. PICK shorter \in Seq(Spelling), last \in Spelling : Extends(h, shorter, last)
        BY <2>1, Shorter
    <2>3. Len(shorter) = k
        BY <2>2, LenProperties DEF Extends
    <2>4. /\ Cat(f, shorter) \in Seq(Spelling) /\ Len(Cat(f, shorter)) = Len(f) + k
          /\ \A i \in 1..(Len(f) + k) :
                Cat(f, shorter)[i] = IF i <= Len(f) THEN f[i] ELSE shorter[i - Len(f)]
        BY <2>3, ConcatProperties DEF Cat
    <2>5. /\ Cat(f, h) \in Seq(Spelling) /\ Len(Cat(f, h)) = Len(f) + (k + 1)
          /\ \A i \in 1..(Len(f) + (k + 1)) :
                Cat(f, h)[i] = IF i <= Len(f) THEN f[i] ELSE h[i - Len(f)]
        <3>1. /\ Cat(f, h) \in Seq(Spelling) /\ Len(Cat(f, h)) = Len(f) + Len(h)
              /\ \A i \in 1..(Len(f) + Len(h)) :
                    Cat(f, h)[i] = IF i <= Len(f) THEN f[i] ELSE h[i - Len(f)]
            BY ConcatProperties DEF Cat
        <3> QED BY <3>1
    <2>6. Extends(Cat(f, h), Cat(f, shorter), last)
        <3>1. ASSUME NEW i \in 1..(Len(f) + k) PROVE Cat(f, h)[i] = Cat(f, shorter)[i]
            <4>1. i \in 1..(Len(f) + (k + 1))
                BY <1>2
            <4>2. CASE i <= Len(f)
                BY <2>4, <2>5, <4>1, <4>2
            <4>3. CASE ~(i <= Len(f))
                <5>1. i - Len(f) \in 1..k
                    BY <1>2, <4>3
                <5>2. h[i - Len(f)] = shorter[i - Len(f)]
                    BY <2>2, <2>3, <5>1 DEF Extends
                <5> QED BY <2>4, <2>5, <4>1, <4>3, <5>2
            <4> QED BY <4>2, <4>3
        <3>2. Cat(f, h)[(Len(f) + k) + 1] = last
            <4> DEFINE i == (Len(f) + k) + 1
            <4>1. i \in 1..(Len(f) + (k + 1)) /\ ~(i <= Len(f)) /\ i - Len(f) = k + 1
                BY <1>2
            <4>2. Cat(f, h)[i] = h[k + 1]
                BY <2>5, <4>1
            <4> QED BY <2>2, <2>3, <4>2 DEF Extends
        <3>3. Len(f) + (k + 1) = (Len(f) + k) + 1
            BY <1>2
        <3> QED BY <2>4, <2>5, <3>1, <3>2, <3>3 DEF Extends
    <2>7. J(Cat(f, h)) = Cat(J(Cat(f, shorter)), Cat(separator, last))
        <3>1. Len(Cat(f, shorter)) # 0
            BY <1>2, <2>4
        <3>2. Cat(f, shorter) \in Seq(Spelling) /\ Cat(f, h) \in Seq(Spelling)
            BY <2>4, <2>5
        <3>3. Joined(Cat(f, h), separator) = Cat(Joined(Cat(f, shorter), separator), Cat(separator, last))
            BY <2>6, <3>1, <3>2, JoinedOneMore
        <3> QED BY <3>3 DEF J
    <2>8. CASE k = 0
        <3>1. Cat(f, shorter) = f
            BY <2>3, <2>8, EmptySeq, ConcatEmptySeq DEF Cat
        <3>2. J(h) = last
            BY <2>2, <2>3, <2>8, JoinedOneMore DEF J
        <3>3. Cat(J(f), Cat(separator, last)) = Cat(Cat(J(f), separator), last)
            BY <1>1, CatAssoc
        <3> QED BY <2>7, <3>1, <3>2, <3>3
    <2>9. CASE k # 0
        <3>1. J(h) = Cat(J(shorter), Cat(separator, last))
            BY <2>2, <2>3, <2>9, JoinedOneMore DEF J
        <3>2. shorter # <<>>
            BY <2>3, <2>9, EmptySeq
        <3>3. J(Cat(f, shorter)) = Cat(Cat(J(f), separator), J(shorter))
            BY <1>4, <2>3, <3>2
        <3>4. /\ Cat(J(f), separator) \in Spelling /\ J(shorter) \in Spelling
              /\ Cat(separator, last) \in Spelling
            BY <1>1, CatType
        <3>5. Cat(Cat(Cat(J(f), separator), J(shorter)), Cat(separator, last)) =
                  Cat(Cat(J(f), separator), Cat(J(shorter), Cat(separator, last)))
            BY <3>4, CatAssoc
        <3> QED BY <2>7, <3>1, <3>3, <3>5
    <2> QED BY <2>8, <2>9
<1> HIDE DEF T
<1>5. Len(g) \in T
    BY <1>3, <1>4, SetInduction, LenProperties
<1> QED BY <1>5 DEF T, J

-----------------------------------------------------------------------------
(* Letters and words.                                                      *)

(* A letter has a capital, which is none of the small letters, and back.   *)
LEMMA LetterKinds ==
    ASSUME NEW c \in DOMAIN Upper
    PROVE /\ isLower(c) /\ ~isUpper(c) /\ toUpper(c) = Upper[c] /\ toLower(c) = c
          /\ isUpper(Upper[c]) /\ ~isLower(Upper[c])
          /\ toUpper(Upper[c]) = Upper[c] /\ toLower(Upper[c]) = c
          /\ c \in Alphabet /\ Upper[c] \in Alphabet /\ c # Underscore /\ Upper[c] # Underscore
<1>1. Upper[c] \in Range(Upper)
    BY DEF Range
<1>2. c \notin Range(Upper) /\ Upper[c] \notin DOMAIN Upper /\ c # Underscore /\ Upper[c] # Underscore
    BY <1>1, LettersAssumption
<1>3. DOMAIN Lower = Range(Upper)
    BY DEF Lower
<1>4. Lower[Upper[c]] = c
    <2>1. \A d \in DOMAIN Upper : Upper[d] = Upper[c] => d = c
        BY LettersAssumption DEF IsInjective
    <2>2. Lower[Upper[c]] = CHOOSE d \in DOMAIN Upper : Upper[d] = Upper[c]
        BY <1>1 DEF Lower
    <2> QED BY <2>1, <2>2
<1> QED BY <1>1, <1>2, <1>3, <1>4 DEF isLower, isUpper, toUpper, toLower, Alphabet

(* An underscore is no letter of a word.                                   *)
LEMMA UnderscoreKind ==
    /\ Underscore \in Alphabet /\ Space \in Alphabet /\ "Unspecified" \in Alphabet
    /\ ~isLower(Underscore) /\ ~isUpper(Underscore)
  BY LettersAssumption DEF Alphabet, isLower, isUpper, Lower, Underscore, Space

(* What names are made of.                                                 *)
Word == Plain \cup Short

(* A word has small letters, two at least unless it is an acronym.         *)
LEMMA WordLetters ==
    ASSUME NEW w \in Word
    PROVE /\ Len(w.letters) \in Nat /\ Len(w.letters) > 0
          /\ w.acronym \in BOOLEAN /\ (~w.acronym => Len(w.letters) > 1)
          /\ \A i \in 1..Len(w.letters) : w.letters[i] \in DOMAIN Upper
<1>1. /\ w.letters \in Seq(DOMAIN Upper) /\ w.letters # <<>> /\ w.acronym \in BOOLEAN
      /\ ~w.acronym => Len(w.letters) > 1
    <2>1. CASE w \in Plain
        <3>1. PICK word \in Words : w = [letters |-> word, acronym |-> FALSE]
            BY <2>1 DEF Plain
        <3>2. word \in Seq(DOMAIN Upper) /\ Len(word) > 1
            BY WordsAssumption
        <3>3. word # <<>>
            BY <3>2
        <3> QED BY <3>1, <3>2, <3>3
    <2>2. CASE w \in Short
        <3>1. PICK word \in Acronyms : w = [letters |-> word, acronym |-> TRUE]
            BY <2>2 DEF Short
        <3> QED BY <3>1, WordsAssumption
    <2> QED BY <2>1, <2>2 DEF Word
<1>2. Len(w.letters) \in Nat /\ Len(w.letters) # 0
    BY <1>1, EmptySeq
<1>3. \A i \in 1..Len(w.letters) : w.letters[i] \in DOMAIN Upper
    BY <1>1, ElementOfSeq
<1> QED BY <1>1, <1>2, <1>3

(* A function into the letters is a name.                                  *)
LEMMA Spelt ==
    ASSUME NEW n \in Nat, NEW f, DOMAIN f = 1..n, f = [i \in 1..n |-> f[i]],
           \A i \in 1..n : f[i] \in Alphabet
    PROVE f \in Spelling /\ Len(f) = n
  BY DEF Spelling

(* A word is as long in each of its forms.                                 *)
LEMMA WordSpelt ==
    ASSUME NEW w \in Word
    PROVE /\ Capitals(w) \in Spelling /\ Len(Capitals(w)) = Len(w.letters)
          /\ Capital(w) \in Spelling /\ Len(Capital(w)) = Len(w.letters)
          /\ CamelWord(w) \in Spelling /\ Len(CamelWord(w)) = Len(w.letters)
<1> DEFINE n == Len(w.letters)
<1>1. n \in Nat /\ \A i \in 1..n : w.letters[i] \in Alphabet /\ Upper[w.letters[i]] \in Alphabet
    BY WordLetters, LetterKinds
<1>2. Capitals(w) \in Spelling /\ Len(Capitals(w)) = n
    BY <1>1, Spelt DEF Capitals
<1>3. Capital(w) \in Spelling /\ Len(Capital(w)) = n
    BY <1>1, Spelt DEF Capital
<1> QED BY <1>2, <1>3, WordLetters DEF CamelWord

(* A word in a name begins with a capital; the rest of it are capitals if  *)
(* it is an acronym and small letters if it is not.                        *)
LEMMA WordKinds ==
    ASSUME NEW w \in Word
    PROVE LET s == CamelWord(w) IN
          /\ isUpper(s[1]) /\ ~isLower(s[1])
          /\ \A i \in 2..Len(w.letters) : isUpper(s[i]) <=> w.acronym
          /\ \A i \in 2..Len(w.letters) : isLower(s[i]) <=> ~w.acronym
          /\ \A i \in 1..Len(w.letters) : toUpper(s[i]) = Capitals(w)[i]
<1> DEFINE n == Len(w.letters)
<1>1. n \in Nat /\ n > 0 /\ w.acronym \in BOOLEAN
    BY WordLetters
<1>2. \A i \in 1..n : LET c == w.letters[i] IN
          /\ isLower(c) /\ ~isUpper(c) /\ toUpper(c) = Upper[c]
          /\ isUpper(Upper[c]) /\ ~isLower(Upper[c]) /\ toUpper(Upper[c]) = Upper[c]
    BY WordLetters, LetterKinds
<1>3. \A i \in 1..n : Capitals(w)[i] = Upper[w.letters[i]]
    BY DEF Capitals
<1>4. \A i \in 1..n : CamelWord(w)[i] =
          IF w.acronym \/ i = 1 THEN Upper[w.letters[i]] ELSE w.letters[i]
    BY <1>1 DEF CamelWord, Capitals, Capital
<1> HIDE DEF n
<1>5. 1 \in 1..n /\ \A i \in 2..n : i \in 1..n /\ i # 1
    BY <1>1
<1>6. isUpper(CamelWord(w)[1]) /\ ~isLower(CamelWord(w)[1])
    BY <1>2, <1>4, <1>5
<1>7. ASSUME NEW i \in 2..n
      PROVE (isUpper(CamelWord(w)[i]) <=> w.acronym) /\ (isLower(CamelWord(w)[i]) <=> ~w.acronym)
    BY <1>1, <1>2, <1>4, <1>5
<1>8. ASSUME NEW i \in 1..n PROVE toUpper(CamelWord(w)[i]) = Capitals(w)[i]
    BY <1>2, <1>3, <1>4
<1> QED BY <1>6, <1>7, <1>8 DEF n

-----------------------------------------------------------------------------
(* What becomes of a name when a word is added.                            *)

(* Its breaks stay where they are ...                                      *)
LEMMA SameBreaks ==
    ASSUME NEW s \in Spelling, NEW t \in Spelling, Len(t) > 0, isUpper(t[1]),
           NEW i \in 1..Len(s)
    PROVE /\ Cat(s, t)[i] = s[i]
          /\ BeginsWord(Cat(s, t), i) <=> BeginsWord(s, i)
          /\ EndsLower(Cat(s, t), i) <=> EndsLower(s, i)
<1>1. /\ Len(s) \in Nat /\ Len(t) \in Nat /\ Len(Cat(s, t)) = Len(s) + Len(t)
      /\ \A j \in 1..Len(s) : Cat(s, t)[j] = s[j]
      /\ \A j \in 1..Len(t) : Cat(s, t)[Len(s) + j] = t[j]
    BY SpellingType, CatType, CatAt
<1> DEFINE u == Cat(s, t)
<1>2. u[i] = s[i] /\ (i > 1 => u[i - 1] = s[i - 1]) /\ (i < Len(s) => u[i + 1] = s[i + 1])
    <2>1. i > 1 => i - 1 \in 1..Len(s)
        BY <1>1
    <2>2. i < Len(s) => i + 1 \in 1..Len(s)
        BY <1>1
    <2> QED BY <1>1, <2>1, <2>2
<1>3. i = Len(s) => isUpper(u[i + 1])
    <2>1. 1 \in 1..Len(t)
        BY <1>1
    <2> QED BY <1>1, <2>1
<1>4. i < Len(u) /\ (i < Len(s) \/ i = Len(s))
    BY <1>1
<1> HIDE DEF u
<1>5. BeginsWord(u, i) <=> BeginsWord(s, i)
    BY <1>2, <1>3, <1>4 DEF BeginsWord
<1>6. EndsLower(u, i) <=> EndsLower(s, i)
    BY <1>2 DEF EndsLower
<1> QED BY <1>2, <1>5, <1>6 DEF u

(* ... and there is one more at the most, before the word.                 *)
LEMMA BreaksAfter ==
    ASSUME NEW s \in Spelling, NEW w \in Word
    PROVE LET u == Cat(s, CamelWord(w)) n == Len(s) IN
          /\ u[n + 1] = CamelWord(w)[1]
          /\ BeginsWord(u, n + 1) <=> n > 0 /\ ~w.acronym
          /\ EndsLower(u, n + 1) <=> n > 0 /\ isLower(s[n])
          /\ \A i \in 2..Len(w.letters) :
                /\ u[n + i] = CamelWord(w)[i]
                /\ ~BeginsWord(u, n + i) /\ ~EndsLower(u, n + i)
<1> DEFINE t == CamelWord(w)
           u == Cat(s, t)
           n == Len(s)
           m == Len(w.letters)
<1>1. /\ n \in Nat /\ m \in Nat /\ m > 0 /\ w.acronym \in BOOLEAN /\ (~w.acronym => m > 1)
      /\ t \in Spelling /\ Len(t) = m /\ Len(u) = n + m
      /\ \A j \in 1..n : u[j] = s[j]
      /\ \A j \in 1..m : u[n + j] = t[j]
    <2>1. t \in Spelling /\ Len(t) = m
        BY WordSpelt
    <2>2. n \in Nat /\ m \in Nat /\ m > 0 /\ w.acronym \in BOOLEAN /\ (~w.acronym => m > 1)
        BY WordLetters, SpellingType
    <2> HIDE DEF t
    <2>3. Len(u) = n + Len(t) /\ \A j \in 1..n : u[j] = s[j]
        BY <2>1, CatType, CatAt
    <2>4. \A j \in 1..Len(t) : u[n + j] = t[j]
        BY <2>1, CatAt
    <2> QED BY <2>1, <2>2, <2>3, <2>4
<1>2. /\ isUpper(t[1]) /\ ~isLower(t[1])
      /\ \A i \in 2..m : isUpper(t[i]) <=> w.acronym
      /\ \A i \in 2..m : isLower(t[i]) <=> ~w.acronym
    BY WordKinds
<1> HIDE DEF t, u, n, m
<1>3. u[n + 1] = t[1]
    <2>1. 1 \in 1..m
        BY <1>1
    <2> QED BY <1>1, <2>1
<1>4. BeginsWord(u, n + 1) <=> n > 0 /\ ~w.acronym
    <2>1. n + 1 > 1 <=> n > 0
        BY <1>1
    <2>2. n + 1 < Len(u) <=> m > 1
        BY <1>1
    <2>3. ASSUME m > 1 PROVE u[(n + 1) + 1] = t[2] /\ 2 \in 2..m
        <3>1. 2 \in 1..m /\ 2 \in 2..m /\ (n + 1) + 1 = n + 2
            BY <1>1, <2>3
        <3> QED BY <1>1, <3>1
    <2>4. CASE m > 1
        <3>1. isUpper(u[(n + 1) + 1]) <=> w.acronym
            BY <1>2, <2>3, <2>4
        <3> QED BY <1>2, <1>3, <2>1, <2>2, <2>4, <3>1 DEF BeginsWord
    <2>5. CASE ~(m > 1)
        BY <1>1, <2>2, <2>5 DEF BeginsWord
    <2> QED BY <2>4, <2>5
<1>5. EndsLower(u, n + 1) <=> n > 0 /\ isLower(s[n])
    <2>1. n + 1 > 1 <=> n > 0
        BY <1>1
    <2>2. n > 0 => u[(n + 1) - 1] = s[n]
        <3>1. n > 0 => n \in 1..n /\ (n + 1) - 1 = n
            BY <1>1
        <3> QED BY <1>1, <3>1
    <2> QED BY <1>2, <1>3, <2>1, <2>2 DEF EndsLower
<1>6. ASSUME NEW i \in 2..m
      PROVE u[n + i] = t[i] /\ ~BeginsWord(u, n + i) /\ ~EndsLower(u, n + i)
    <2>1. i \in 1..m /\ i - 1 \in 1..m /\ i \in Nat
        BY <1>1
    <2>2. u[n + i] = t[i] /\ u[(n + i) - 1] = t[i - 1]
        <3>1. (n + i) - 1 = n + (i - 1)
            BY <1>1, <2>1
        <3> QED BY <1>1, <2>1, <3>1
    <2>3. CASE ~w.acronym
        <3>1. ~isUpper(u[n + i])
            BY <1>2, <2>2, <2>3
        <3> QED BY <2>2, <3>1 DEF BeginsWord, EndsLower
    <2>4. CASE w.acronym
        <3>1. ~isLower(t[i - 1])
            <4>1. CASE i = 2
                BY <1>2, <4>1
            <4>2. CASE i # 2
                <5>1. i - 1 \in 2..m
                    BY <1>1, <4>2
                <5> QED BY <1>2, <2>4, <5>1
            <4> QED BY <4>1, <4>2
        <3>2. n + i < Len(u) => isUpper(u[(n + i) + 1])
            <4> SUFFICES ASSUME n + i < Len(u) PROVE isUpper(u[(n + i) + 1])
                OBVIOUS
            <4>1. i + 1 \in 1..m /\ i + 1 \in 2..m /\ (n + i) + 1 = n + (i + 1)
                BY <1>1, <2>1
            <4>2. u[n + (i + 1)] = t[i + 1]
                BY <1>1, <4>1
            <4> QED BY <1>2, <2>4, <4>1, <4>2
        <3> QED BY <2>2, <3>1, <3>2 DEF BeginsWord, EndsLower
    <2> QED BY <1>1, <2>3, <2>4
<1> QED BY <1>3, <1>4, <1>5, <1>6 DEF t, u, n, m

(* What becomes of each letter.                                            *)
Snaked(s) ==
    [i \in 1..Len(s) |->
        (IF BeginsWord(s, i) \/ EndsLower(s, i) THEN <<Underscore>> ELSE <<>>) \o <<toUpper(s[i])>>]
(* The same for splitCamel.                                                *)
Split(s) ==
    [i \in 1..Len(s) |-> (IF BeginsWord(s, i) THEN <<Space>> ELSE <<>>) \o <<s[i]>>]

(* Changing the case of a letter gives a letter.                           *)
LEMMA LetterType ==
    ASSUME NEW c \in Alphabet
    PROVE toUpper(c) \in Alphabet /\ toLower(c) \in Alphabet
<1>1. toUpper(c) \in Alphabet
    BY LetterKinds DEF toUpper, isLower
<1>2. toLower(c) \in Alphabet
    <2>1. CASE isUpper(c)
        <3>1. PICK d \in DOMAIN Upper : c = Upper[d]
            BY <2>1 DEF isUpper, Lower, Range
        <3> QED BY <3>1, LetterKinds
    <2>2. CASE ~isUpper(c)
        BY <2>2 DEF toLower
    <2> QED BY <2>1, <2>2
<1> QED BY <1>1, <1>2

(* A function from the first n numbers is a sequence.                      *)
LEMMA FunctionIsSeq ==
    ASSUME NEW S, NEW n \in Nat, NEW f \in [1..n -> S]
    PROVE f \in Seq(S) /\ Len(f) = n
  OBVIOUS

(* There is something for each letter.                                     *)
LEMMA SnakedType ==
    ASSUME NEW s \in Spelling
    PROVE /\ Snaked(s) \in Seq(Spelling) /\ Len(Snaked(s)) = Len(s)
          /\ Split(s) \in Seq(Spelling) /\ Len(Split(s)) = Len(s)
<1>1. Len(s) \in Nat /\ <<>> \in Spelling /\ <<Underscore>> \in Spelling /\ <<Space>> \in Spelling
    BY SpellingType, CatEmpty, UnderscoreKind, OneType DEF One
<1>2. ASSUME NEW i \in 1..Len(s)
      PROVE <<toUpper(s[i])>> \in Spelling /\ <<s[i]>> \in Spelling
    <2>1. s[i] \in Alphabet
        BY SpellingType
    <2> QED BY <2>1, LetterType, OneType DEF One
<1>3. \A a, b \in Spelling : a \o b \in Spelling
    BY CatType DEF Cat
<1>4. ASSUME NEW i \in 1..Len(s)
      PROVE /\ (IF BeginsWord(s, i) \/ EndsLower(s, i) THEN <<Underscore>> ELSE <<>>)
                    \o <<toUpper(s[i])>> \in Spelling
            /\ (IF BeginsWord(s, i) THEN <<Space>> ELSE <<>>) \o <<s[i]>> \in Spelling
    BY <1>1, <1>2, <1>3
<1>5. Snaked(s) \in [1..Len(s) -> Spelling]
    BY <1>4 DEF Snaked
<1>6. Split(s) \in [1..Len(s) -> Spelling]
    BY <1>4 DEF Split
<1> QED BY <1>1, <1>5, <1>6, FunctionIsSeq

(* camelToScreamingSnake takes the words of a name one by one.             *)
LEMMA SnakeStep ==
    ASSUME NEW s \in Spelling, NEW w \in Word,
           Len(s) > 0 /\ w.acronym => isLower(s[Len(s)])
    PROVE /\ camelToScreamingSnake(s) \in Spelling
          /\ camelToScreamingSnake(Cat(s, CamelWord(w))) =
                Cat(camelToScreamingSnake(s),
                    Cat(IF Len(s) = 0 THEN <<>> ELSE One(Underscore), Capitals(w)))
<1> DEFINE t == CamelWord(w)
           u == Cat(s, t)
           n == Len(s)
           before == IF n = 0 THEN <<>> ELSE One(Underscore)
<1>1. t \in Spelling /\ Len(t) = Len(w.letters) /\ u \in Spelling /\ n \in Nat
    BY WordSpelt, CatType, SpellingType
<1>2. before \in Spelling
    BY CatEmpty, OneType, UnderscoreKind
<1>3. /\ Capitals(w) \in Spelling /\ Len(Capitals(w)) = Len(w.letters)
      /\ Len(w.letters) > 0 /\ Len(w.letters) \in Nat /\ Capitals(w) # <<>>
    BY WordSpelt, WordLetters, SpellingType
<1>4. Len(u) = n + Len(w.letters)
    BY <1>1, CatType
<1>5. isUpper(t[1])
    BY WordKinds
<1>6. \A i \in 1..n : u[i] = s[i] /\ (BeginsWord(u, i) <=> BeginsWord(s, i))
                                  /\ (EndsLower(u, i) <=> EndsLower(s, i))
    <2> HIDE DEF t
    <2> QED BY <1>1, <1>3, <1>5, SameBreaks
<1>7. Agree(Snaked(u), Snaked(s), n)
    <2> SUFFICES ASSUME NEW i \in 1..n PROVE Snaked(u)[i] = Snaked(s)[i]
        BY DEF Agree
    <2>1. i \in 1..Len(u)
        BY <1>1, <1>3, <1>4
    <2> HIDE DEF u
    <2> QED BY <1>6, <2>1 DEF Snaked
<1>8. Letters(Snaked(u), n, before, Capitals(w))
    <2>1. BeginsWord(u, n + 1) \/ EndsLower(u, n + 1) <=> n # 0
        <3>1. w.acronym \in BOOLEAN
            BY WordLetters
        <3> QED BY <1>1, <3>1, BreaksAfter
    <2>2. u[n + 1] = t[1]
        BY BreaksAfter
    <2>3. \A i \in 2..Len(w.letters) :
              u[n + i] = t[i] /\ ~BeginsWord(u, n + i) /\ ~EndsLower(u, n + i)
        BY BreaksAfter
    <2>4. \A i \in 1..Len(w.letters) : toUpper(t[i]) = Capitals(w)[i] /\ n + i \in 1..Len(u)
        BY <1>1, <1>3, <1>4, WordKinds
    <2>5. 1 \in 1..Len(w.letters) /\ \A i \in 2..Len(w.letters) : i \in 1..Len(w.letters)
        BY <1>3
    <2> HIDE DEF u, t, n
    <2>6. Snaked(u)[n + 1] = before \o <<Capitals(w)[1]>>
        BY <2>1, <2>2, <2>4, <2>5 DEF Snaked, One
    <2>7. ASSUME NEW i \in 2..Len(w.letters)
          PROVE Snaked(u)[n + i] = <<>> \o <<Capitals(w)[i]>>
        BY <2>3, <2>4, <2>5 DEF Snaked
    <2>8. \A i \in 1..Len(w.letters) : Capitals(w)[i] \in Alphabet
        BY <1>3, SpellingType
    <2>9. \A c \in Alphabet : <<>> \o <<c>> = One(c)
        BY OneType, CatEmpty DEF Cat, One
    <2> QED BY <1>3, <2>5, <2>6, <2>7, <2>8, <2>9 DEF Letters, Cat, One
<1>9. /\ Snaked(s) \in Seq(Spelling) /\ Len(Snaked(s)) = n
      /\ Snaked(u) \in Seq(Spelling) /\ Len(Snaked(u)) = Len(u)
    BY <1>1, SnakedType
<1> HIDE DEF u, t, n, before
<1>10. FlattenSeq(Snaked(u)) = Cat(FlattenSeq(Snaked(s)), Cat(before, Capitals(w)))
    BY <1>2, <1>3, <1>4, <1>7, <1>8, <1>9, FlattenWord
<1>11. FlattenSeq(Snaked(s)) \in Spelling
    BY <1>9, FlattenType DEF Spelling
<1> QED BY <1>10, <1>11 DEF camelToScreamingSnake, Snaked, u, t, n, before

(* splitCamel does so too, unless the word is an acronym after another one.*)
LEMMA SplitStep ==
    ASSUME NEW s \in Spelling, NEW w \in Word, Len(s) = 0 \/ ~w.acronym
    PROVE /\ splitCamel(s) \in Spelling
          /\ splitCamel(Cat(s, CamelWord(w))) =
                Cat(splitCamel(s), Cat(IF Len(s) = 0 THEN <<>> ELSE One(Space), CamelWord(w)))
<1> DEFINE t == CamelWord(w)
           u == Cat(s, t)
           n == Len(s)
           before == IF n = 0 THEN <<>> ELSE One(Space)
<1>1. t \in Spelling /\ Len(t) = Len(w.letters) /\ u \in Spelling /\ n \in Nat
    BY WordSpelt, CatType, SpellingType
<1>2. before \in Spelling
    BY CatEmpty, OneType, UnderscoreKind
<1>3. Len(w.letters) > 0 /\ Len(w.letters) \in Nat /\ t # <<>>
    BY <1>1, WordLetters, SpellingType
<1>4. Len(u) = n + Len(w.letters)
    BY <1>1, CatType
<1>5. isUpper(t[1])
    BY WordKinds
<1>6. \A i \in 1..n : u[i] = s[i] /\ (BeginsWord(u, i) <=> BeginsWord(s, i))
    <2> HIDE DEF t
    <2> QED BY <1>1, <1>3, <1>5, SameBreaks
<1>7. Agree(Split(u), Split(s), n)
    <2> SUFFICES ASSUME NEW i \in 1..n PROVE Split(u)[i] = Split(s)[i]
        BY DEF Agree
    <2>1. i \in 1..Len(u)
        BY <1>1, <1>3, <1>4
    <2> HIDE DEF u
    <2> QED BY <1>6, <2>1 DEF Split
<1>8. Letters(Split(u), n, before, t)
    <2>1. BeginsWord(u, n + 1) <=> n # 0
        <3>1. w.acronym \in BOOLEAN
            BY WordLetters
        <3> QED BY <1>1, <3>1, BreaksAfter
    <2>2. u[n + 1] = t[1]
        BY BreaksAfter
    <2>3. \A i \in 2..Len(w.letters) : u[n + i] = t[i] /\ ~BeginsWord(u, n + i)
        BY BreaksAfter
    <2>4. \A i \in 1..Len(w.letters) : n + i \in 1..Len(u)
        BY <1>1, <1>3, <1>4
    <2>5. 1 \in 1..Len(w.letters) /\ \A i \in 2..Len(w.letters) : i \in 1..Len(w.letters)
        BY <1>3
    <2> HIDE DEF u, t, n
    <2>6. Split(u)[n + 1] = before \o <<t[1]>>
        BY <2>1, <2>2, <2>4, <2>5 DEF Split, One
    <2>7. ASSUME NEW i \in 2..Len(w.letters)
          PROVE Split(u)[n + i] = <<>> \o <<t[i]>>
        BY <2>3, <2>4, <2>5 DEF Split
    <2>8. \A i \in 1..Len(w.letters) : t[i] \in Alphabet
        BY <1>1, SpellingType
    <2>9. \A c \in Alphabet : <<>> \o <<c>> = One(c)
        BY OneType, CatEmpty DEF Cat, One
    <2> QED BY <1>1, <2>5, <2>6, <2>7, <2>8, <2>9 DEF Letters, Cat, One
<1>9. /\ Split(s) \in Seq(Spelling) /\ Len(Split(s)) = n
      /\ Split(u) \in Seq(Spelling) /\ Len(Split(u)) = Len(u)
    BY <1>1, SnakedType
<1> HIDE DEF u, t, n, before
<1>10. FlattenSeq(Split(u)) = Cat(FlattenSeq(Split(s)), Cat(before, t))
    BY <1>1, <1>2, <1>3, <1>4, <1>7, <1>8, <1>9, FlattenWord
<1>11. FlattenSeq(Split(s)) \in Spelling
    BY <1>9, FlattenType DEF Spelling
<1> QED BY <1>10, <1>11 DEF splitCamel, Split, u, t, n, before

(* The same for snakeToPascal and toTitle.                                 *)
Cased(s, separator) ==
    [i \in 1..Len(s) |->
        IF s[i] = Underscore THEN separator
        ELSE IF i = 1 \/ s[i - 1] = Underscore THEN <<toUpper(s[i])>> ELSE <<toLower(s[i])>>]

(* There is something for each letter here, too.                           *)
LEMMA CasedType ==
    ASSUME NEW s \in Spelling, NEW separator \in Spelling
    PROVE /\ Cased(s, separator) \in Seq(Spelling) /\ Len(Cased(s, separator)) = Len(s)
          /\ Capitalised(s, separator) \in Spelling
<1>1. Len(s) \in Nat
    BY SpellingType
<1>2. ASSUME NEW i \in 1..Len(s)
      PROVE <<toUpper(s[i])>> \in Spelling /\ <<toLower(s[i])>> \in Spelling
    <2>1. s[i] \in Alphabet
        BY SpellingType
    <2> QED BY <2>1, LetterType, OneType DEF One
<1>3. Cased(s, separator) \in [1..Len(s) -> Spelling]
    BY <1>2 DEF Cased
<1>4. Cased(s, separator) \in Seq(Spelling) /\ Len(Cased(s, separator)) = Len(s)
    BY <1>1, <1>3, FunctionIsSeq
<1> QED BY <1>4, FlattenType DEF Capitalised, Cased, Spelling

(* What is added to a name does not change what becomes of it.             *)
LEMMA CasedAgree ==
    ASSUME NEW s \in Spelling, NEW t \in Spelling, NEW separator
    PROVE Agree(Cased(Cat(s, t), separator), Cased(s, separator), Len(s))
<1> SUFFICES ASSUME NEW i \in 1..Len(s)
             PROVE Cased(Cat(s, t), separator)[i] = Cased(s, separator)[i]
    BY DEF Agree
<1> DEFINE u == Cat(s, t)
<1>1. /\ Len(s) \in Nat /\ Len(t) \in Nat /\ Len(u) = Len(s) + Len(t)
      /\ \A j \in 1..Len(s) : u[j] = s[j]
    BY SpellingType, CatType, CatAt
<1>2. i \in 1..Len(u) /\ (i # 1 => i - 1 \in 1..Len(s))
    BY <1>1
<1>3. u[i] = s[i] /\ (i # 1 => u[i - 1] = s[i - 1])
    BY <1>1, <1>2
<1> HIDE DEF u
<1>4. Cased(u, separator)[i] = Cased(s, separator)[i]
    BY <1>2, <1>3 DEF Cased
<1> QED BY <1>4 DEF u

(* snakeToPascal and toTitle take an underscore for the separator ...      *)
LEMMA UnderscoreStep ==
    ASSUME NEW s \in Spelling, NEW separator \in Spelling
    PROVE Capitalised(Cat(s, One(Underscore)), separator) = Cat(Capitalised(s, separator), separator)
<1> DEFINE t == One(Underscore)
           u == Cat(s, t)
           n == Len(s)
<1>1. t \in Spelling /\ Len(t) = 1 /\ t[1] = Underscore
    BY OneType, UnderscoreKind
<1>2. n \in Nat /\ u \in Spelling /\ Len(u) = n + 1 /\ u[n + 1] = Underscore
    <2> HIDE DEF t
    <2>1. u \in Spelling /\ Len(u) = n + Len(t) /\ \A i \in 1..Len(t) : u[n + i] = t[i]
        BY <1>1, CatType, CatAt
    <2>2. n \in Nat
        BY SpellingType
    <2>3. 1 \in 1..Len(t)
        BY <1>1
    <2> QED BY <1>1, <2>1, <2>2, <2>3
<1>3. Agree(Cased(u, separator), Cased(s, separator), n)
    BY <1>1, CasedAgree
<1> HIDE DEF t, u
<1>4. Cased(u, separator)[n + 1] = separator
    <2>1. n + 1 \in 1..Len(u)
        BY <1>2
    <2> QED BY <1>2, <2>1 DEF Cased
<1>5. /\ Cased(s, separator) \in Seq(Spelling) /\ Len(Cased(s, separator)) = n
      /\ Cased(u, separator) \in Seq(Spelling) /\ Len(Cased(u, separator)) = n + 1
    BY <1>2, CasedType
<1>6. Extends(Cased(u, separator), Cased(s, separator), separator)
    BY <1>3, <1>4, <1>5 DEF Extends, Agree
<1>7. FlattenSeq(Cased(u, separator)) = Cat(FlattenSeq(Cased(s, separator)), separator)
    BY <1>5, <1>6, FlattenExtended
<1> QED BY <1>7 DEF Capitalised, Cased, t, u

(* ... and give the word after it its capital.                             *)
LEMMA CapitalStep ==
    ASSUME NEW s \in Spelling, NEW w \in Word, NEW separator \in Spelling,
           Len(s) = 0 \/ s[Len(s)] = Underscore
    PROVE Capitalised(Cat(s, Capitals(w)), separator) =
              Cat(Capitalised(s, separator), Capital(w))
<1> DEFINE t == Capitals(w)
           u == Cat(s, t)
           n == Len(s)
           m == Len(w.letters)
<1>0. m \in Nat /\ m > 0 /\ n \in Nat
    BY WordLetters, SpellingType
<1>1. /\ t \in Spelling /\ Len(t) = m
      /\ Capital(w) \in Spelling /\ Len(Capital(w)) = m
    BY WordSpelt
<1>2. /\ u \in Spelling /\ Len(u) = n + m
      /\ \A i \in 1..n : u[i] = s[i]
      /\ \A i \in 1..m : u[n + i] = t[i]
    <2> HIDE DEF t
    <2>1. u \in Spelling /\ Len(u) = n + Len(t) /\ \A i \in 1..n : u[i] = s[i]
        BY <1>1, CatType, CatAt
    <2>2. \A i \in 1..Len(t) : u[n + i] = t[i]
        BY <1>1, CatAt
    <2> QED BY <1>1, <2>1, <2>2
<1>3. Agree(Cased(u, separator), Cased(s, separator), n)
    <2> HIDE DEF t
    <2> QED BY <1>1, CasedAgree
<1>4. ASSUME NEW i \in 1..m
      PROVE /\ t[i] # Underscore /\ toUpper(t[i]) = t[i]
            /\ Capital(w)[i] = IF i = 1 THEN t[i] ELSE toLower(t[i])
    <2>1. w.letters[i] \in DOMAIN Upper
        BY WordLetters
    <2>2. t[i] = Upper[w.letters[i]]
        BY DEF Capitals
    <2>3. Capital(w)[i] = IF i = 1 THEN Upper[w.letters[i]] ELSE w.letters[i]
        BY DEF Capital
    <2> QED BY <2>1, <2>2, <2>3, LetterKinds
<1> HIDE DEF t, u, n, m
<1>5. Cased(u, separator)[n + 1] = One(Capital(w)[1])
    <2>1. 1 \in 1..m /\ n + 1 \in 1..(n + m) /\ Len(u) = n + m
        BY <1>0, <1>2
    <2>2. n + 1 = 1 \/ u[(n + 1) - 1] = Underscore
        <3>1. n # 0 => n \in 1..n
            BY <1>0
        <3>2. (n + 1) - 1 = n /\ (n = 0 => n + 1 = 1)
            BY <1>0
        <3>3. n = 0 \/ s[n] = Underscore
            BY DEF n
        <3> QED BY <1>2, <3>1, <3>2, <3>3
    <2>3. u[n + 1] = t[1] /\ t[1] # Underscore /\ toUpper(t[1]) = Capital(w)[1]
        BY <1>2, <1>4, <2>1
    <2> QED BY <2>1, <2>2, <2>3 DEF Cased, One
<1>6. ASSUME NEW i \in 2..m PROVE Cased(u, separator)[n + i] = One(Capital(w)[i])
    <2>1. i \in 1..m /\ i - 1 \in 1..m /\ i # 1
        BY <1>0
    <2>2. n + i \in 1..(n + m) /\ n + i # 1 /\ (n + i) - 1 = n + (i - 1) /\ Len(u) = n + m
        BY <1>0, <1>2, <2>1
    <2>3. u[n + i] = t[i] /\ u[n + (i - 1)] = t[i - 1]
        BY <1>2, <2>1
    <2>4. t[i] # Underscore /\ t[i - 1] # Underscore /\ toLower(t[i]) = Capital(w)[i]
        BY <1>4, <2>1
    <2> QED BY <2>2, <2>3, <2>4 DEF Cased, One
<1>7. /\ Cased(s, separator) \in Seq(Spelling) /\ Len(Cased(s, separator)) = n
      /\ Cased(u, separator) \in Seq(Spelling) /\ Len(Cased(u, separator)) = n + m
    BY <1>2, CasedType DEF n
<1>8. <<>> \in Spelling /\ \A c \in Spelling : Cat(<<>>, c) = c
    BY CatEmpty
<1>9. Letters(Cased(u, separator), n, <<>>, Capital(w))
    <2>1. 1 \in 1..m
        BY <1>0
    <2>3. Capital(w)[1] \in Alphabet
        BY <1>1, <2>1, SpellingType
    <2>2. Cat(<<>>, One(Capital(w)[1])) = One(Capital(w)[1])
        BY <1>8, <2>3, OneType
    <2> QED BY <1>1, <1>5, <1>6, <2>2 DEF Letters
<1>10. FlattenSeq(Cased(u, separator)) =
           Cat(FlattenSeq(Cased(s, separator)), Cat(<<>>, Capital(w)))
    <2>1. Capital(w) # <<>>
        BY <1>0, <1>1, SpellingType
    <2>2. Len(Cased(u, separator)) = Len(Cased(s, separator)) + Len(Capital(w))
        BY <1>1, <1>7
    <2>3. <<>> \in Spelling
        BY <1>8
    <2> QED BY <1>1, <1>3, <1>7, <1>9, <2>1, <2>2, <2>3, FlattenWord
<1>11. Cat(<<>>, Capital(w)) = Capital(w)
    BY <1>1, <1>8
<1> QED BY <1>10, <1>11 DEF Capitalised, Cased, t, u

-----------------------------------------------------------------------------
(* The names of enums and values.                                          *)

(* The words as they are in an enum's name ...                             *)

Camels(n) == [i \in 1..Len(n) |-> CamelWord(n[i])]
(* ... all in capitals ...                                                 *)
Shouts(n) == [i \in 1..Len(n) |-> Capitals(n[i])]
(* ... with a capital each.                                                *)
Titles(n) == [i \in 1..Len(n) |-> Capital(n[i])]

(* There are as many forms as words.                                       *)
LEMMA FormsType ==
    ASSUME NEW n \in Seq(Word)
    PROVE /\ Camels(n) \in Seq(Spelling) /\ Len(Camels(n)) = Len(n)
          /\ Shouts(n) \in Seq(Spelling) /\ Len(Shouts(n)) = Len(n)
          /\ Titles(n) \in Seq(Spelling) /\ Len(Titles(n)) = Len(n)
<1>1. Len(n) \in Nat /\ \A i \in 1..Len(n) : n[i] \in Word
    BY LenProperties, ElementOfSeq
<1>2. Camels(n) \in [1..Len(n) -> Spelling]
    BY <1>1, WordSpelt DEF Camels
<1>3. Shouts(n) \in [1..Len(n) -> Spelling]
    BY <1>1, WordSpelt DEF Shouts
<1>4. Titles(n) \in [1..Len(n) -> Spelling]
    BY <1>1, WordSpelt DEF Titles
<1> QED BY <1>1, <1>2, <1>3, <1>4, FunctionIsSeq

(* One word more, one form more.                                           *)
LEMMA FormsExtend ==
    ASSUME NEW n \in Seq(Word), NEW longer \in Seq(Word), NEW w \in Word, Extends(longer, n, w)
    PROVE /\ Extends(Camels(longer), Camels(n), CamelWord(w))
          /\ Extends(Shouts(longer), Shouts(n), Capitals(w))
          /\ Extends(Titles(longer), Titles(n), Capital(w))
<1>1. Len(n) \in Nat /\ Len(longer) = Len(n) + 1
    BY LenProperties DEF Extends
<1>2. /\ \A i \in 1..Len(n) : longer[i] = n[i] /\ i \in 1..Len(longer)
      /\ longer[Len(n) + 1] = w /\ Len(n) + 1 \in 1..Len(longer)
    BY <1>1 DEF Extends
<1>3. Extends(Camels(longer), Camels(n), CamelWord(w))
    <2>1. Len(Camels(longer)) = Len(Camels(n)) + 1 /\ Len(Camels(n)) = Len(n)
        BY <1>1, FormsType
    <2>2. \A i \in 1..Len(n) : Camels(longer)[i] = Camels(n)[i]
        BY <1>2 DEF Camels
    <2>3. Camels(longer)[Len(n) + 1] = CamelWord(w)
        BY <1>2 DEF Camels
    <2> QED BY <2>1, <2>2, <2>3 DEF Extends
<1>4. Extends(Shouts(longer), Shouts(n), Capitals(w))
    <2>1. Len(Shouts(longer)) = Len(Shouts(n)) + 1 /\ Len(Shouts(n)) = Len(n)
        BY <1>1, FormsType
    <2>2. \A i \in 1..Len(n) : Shouts(longer)[i] = Shouts(n)[i]
        BY <1>2 DEF Shouts
    <2>3. Shouts(longer)[Len(n) + 1] = Capitals(w)
        BY <1>2 DEF Shouts
    <2> QED BY <2>1, <2>2, <2>3 DEF Extends
<1>5. Extends(Titles(longer), Titles(n), Capital(w))
    <2>1. Len(Titles(longer)) = Len(Titles(n)) + 1 /\ Len(Titles(n)) = Len(n)
        BY <1>1, FormsType
    <2>2. \A i \in 1..Len(n) : Titles(longer)[i] = Titles(n)[i]
        BY <1>2 DEF Titles
    <2>3. Titles(longer)[Len(n) + 1] = Capital(w)
        BY <1>2 DEF Titles
    <2> QED BY <2>1, <2>2, <2>3 DEF Extends
<1> QED BY <1>3, <1>4, <1>5

(* The separators are names.                                               *)
LEMMA Separators ==
    /\ <<>> \in Spelling /\ <<Underscore>> \in Spelling /\ <<Space>> \in Spelling
    /\ <<Underscore>> = One(Underscore) /\ <<Space>> = One(Space)
  BY CatEmpty, OneType, UnderscoreKind DEF One

(* The names of the generator's input are names.                           *)
LEMMA NameType ==
    ASSUME NEW n \in Seq(Word)
    PROVE EnumName(n) \in Spelling /\ EnumTitle(n) \in Spelling /\ Value(n) \in Spelling
<1>1. Camels(n) \in Seq(Spelling) /\ Shouts(n) \in Seq(Spelling)
    BY FormsType
<1>2. /\ Joined(Camels(n), <<>>) \in Spelling /\ Joined(Camels(n), <<Space>>) \in Spelling
      /\ Joined(Shouts(n), <<Underscore>>) \in Spelling
    BY <1>1, JoinedType, Separators
<1> QED BY <1>2 DEF EnumName, EnumTitle, Value, Camels, Shouts

(* Without words there are no letters, and none become of them.            *)
LEMMA NameNone ==
    /\ EnumName(<<>>) = <<>> /\ EnumTitle(<<>>) = <<>> /\ Value(<<>>) = <<>>
    /\ camelToScreamingSnake(<<>>) = <<>> /\ splitCamel(<<>>) = <<>>
<1>1. /\ Camels(<<>>) = <<>> /\ Shouts(<<>>) = <<>>
      /\ Snaked(<<>>) = <<>> /\ Split(<<>>) = <<>>
    BY DEF Camels, Shouts, Snaked, Split
<1>2. EnumName(<<>>) = <<>> /\ EnumTitle(<<>>) = <<>> /\ Value(<<>>) = <<>>
    BY <1>1, JoinedNone DEF EnumName, EnumTitle, Value, Camels, Shouts
<1>3. camelToScreamingSnake(<<>>) = <<>> /\ splitCamel(<<>>) = <<>>
    BY <1>1, FlattenEmpty DEF camelToScreamingSnake, splitCamel, Snaked, Split
<1> QED BY <1>2, <1>3

(* What a word more adds to an enum's name, its title, and a value's name. *)
LEMMA NameGrows ==
    ASSUME NEW n \in Seq(Word), NEW longer \in Seq(Word), NEW w \in Word, Extends(longer, n, w)
    PROVE /\ EnumName(longer) = Cat(EnumName(n), CamelWord(w))
          /\ EnumTitle(longer) =
                IF Len(n) = 0 THEN CamelWord(w)
                ELSE Cat(EnumTitle(n), Cat(One(Space), CamelWord(w)))
          /\ Value(longer) =
                IF Len(n) = 0 THEN Capitals(w)
                ELSE Cat(Value(n), Cat(One(Underscore), Capitals(w)))
<1>1. /\ Camels(n) \in Seq(Spelling) /\ Len(Camels(n)) = Len(n)
      /\ Shouts(n) \in Seq(Spelling) /\ Len(Shouts(n)) = Len(n)
      /\ Camels(longer) \in Seq(Spelling) /\ Shouts(longer) \in Seq(Spelling)
    BY FormsType
<1>2. /\ Extends(Camels(longer), Camels(n), CamelWord(w))
      /\ Extends(Shouts(longer), Shouts(n), Capitals(w))
    BY FormsExtend
<1>3. CamelWord(w) \in Spelling /\ Capitals(w) \in Spelling
    BY WordSpelt
<1>4. EnumName(longer) = Cat(EnumName(n), CamelWord(w))
    <2>1. Joined(Camels(longer), <<>>) =
              IF Len(n) = 0 THEN CamelWord(w)
              ELSE Cat(Joined(Camels(n), <<>>), Cat(<<>>, CamelWord(w)))
        BY <1>1, <1>2, <1>3, JoinedOneMore, Separators
    <2>2. Cat(<<>>, CamelWord(w)) = CamelWord(w)
        BY <1>3, CatEmpty
    <2>3. Len(n) = 0 => n = <<>>
        BY EmptySeq
    <2>4. EnumName(longer) = IF Len(n) = 0 THEN CamelWord(w) ELSE Cat(EnumName(n), CamelWord(w))
        BY <2>1, <2>2 DEF EnumName, Camels
    <2> QED BY <2>2, <2>3, <2>4, NameNone
<1>5. EnumTitle(longer) =
          IF Len(n) = 0 THEN CamelWord(w)
          ELSE Cat(EnumTitle(n), Cat(One(Space), CamelWord(w)))
    <2>1. Joined(Camels(longer), <<Space>>) =
              IF Len(n) = 0 THEN CamelWord(w)
              ELSE Cat(Joined(Camels(n), <<Space>>), Cat(<<Space>>, CamelWord(w)))
        BY <1>1, <1>2, <1>3, JoinedOneMore, Separators
    <2> QED BY <2>1, Separators DEF EnumTitle, Camels
<1>6. Value(longer) =
          IF Len(n) = 0 THEN Capitals(w)
          ELSE Cat(Value(n), Cat(One(Underscore), Capitals(w)))
    <2>1. Joined(Shouts(longer), <<Underscore>>) =
              IF Len(n) = 0 THEN Capitals(w)
              ELSE Cat(Joined(Shouts(n), <<Underscore>>), Cat(<<Underscore>>, Capitals(w)))
        BY <1>1, <1>2, <1>3, JoinedOneMore, Separators
    <2> QED BY <2>1, Separators DEF Value, Shouts
<1> QED BY <1>4, <1>5, <1>6

(* A name ends with a small letter unless its last word is an acronym.     *)
LEMMA NameEnds ==
    ASSUME NEW n \in Seq(Word)
    PROVE /\ Len(EnumName(n)) = 0 <=> Len(n) = 0
          /\ Len(n) # 0 /\ ~n[Len(n)].acronym => isLower(EnumName(n)[Len(EnumName(n))])
<1>1. CASE n = <<>>
    BY <1>1, NameNone
<1>2. CASE n # <<>>
    <2>1. PICK m \in Seq(Word), w \in Word : Extends(n, m, w)
        BY <1>2, Shorter
    <2> DEFINE s == EnumName(m)
               t == CamelWord(w)
               k == Len(w.letters)
    <2>2. /\ s \in Spelling /\ Len(s) \in Nat /\ t \in Spelling /\ Len(t) = k
          /\ k \in Nat /\ k > 0 /\ (~w.acronym => k > 1)
        BY NameType, SpellingType, WordSpelt, WordLetters
    <2>3. \A i \in 2..k : isLower(t[i]) <=> ~w.acronym
        BY WordKinds
    <2>4. EnumName(n) = Cat(s, t)
        BY <2>1, NameGrows
    <2>5. n[Len(n)] = w /\ Len(n) # 0
        BY <2>1, LenProperties DEF Extends
    <2> HIDE DEF s, t, k
    <2>6. Len(EnumName(n)) = Len(s) + k /\ EnumName(n)[Len(s) + k] = t[k]
        <3>1. Len(Cat(s, t)) = Len(s) + Len(t) /\ \A i \in 1..Len(t) : Cat(s, t)[Len(s) + i] = t[i]
            BY <2>2, CatType, CatAt
        <3>2. k \in 1..k
            BY <2>2
        <3> QED BY <2>2, <2>4, <3>1, <3>2
    <2>7. Len(s) + k # 0 /\ (~w.acronym => k \in 2..k)
        BY <2>2
    <2> QED BY <2>3, <2>5, <2>6, <2>7
<1> QED BY <1>1, <1>2

(* No two acronyms meet.                                                   *)
Apart(n) == \A i \in 2..Len(n) : ~(n[i - 1].acronym /\ n[i].acronym)

(* The name of a value, or of a value's concept, is recovered from its     *)
(* capitals, provided no two acronyms meet.                                *)
LEMMA SnakeBack ==
    ASSUME NEW n \in Seq(Word), Apart(n)
    PROVE camelToScreamingSnake(EnumName(n)) = Value(n)
<1> DEFINE T == {k \in Nat : \A m \in Seq(Word) : Len(m) = k /\ Apart(m) =>
                    camelToScreamingSnake(EnumName(m)) = Value(m)}
<1>1. 0 \in T
    BY EmptySeq, NameNone
<1>2. ASSUME NEW k \in Nat, k \in T PROVE k + 1 \in T
    <2> SUFFICES ASSUME NEW m \in Seq(Word), Len(m) = k + 1, Apart(m)
                 PROVE camelToScreamingSnake(EnumName(m)) = Value(m)
        OBVIOUS
    <2>1. m # <<>>
        BY EmptySeq
    <2>2. PICK l \in Seq(Word), w \in Word : Extends(m, l, w)
        BY <2>1, Shorter
    <2>3. Len(l) = k
        BY <2>2, LenProperties DEF Extends
    <2>4. Apart(l)
        <3>1. ASSUME NEW i \in 2..k PROVE ~(l[i - 1].acronym /\ l[i].acronym)
            <4>1. i \in 1..k /\ i - 1 \in 1..k /\ i \in 2..Len(m)
                OBVIOUS
            <4>2. m[i] = l[i] /\ m[i - 1] = l[i - 1]
                BY <2>2, <2>3, <4>1 DEF Extends
            <4> QED BY <4>1, <4>2 DEF Apart
        <3> QED BY <2>3, <3>1 DEF Apart
    <2>5. camelToScreamingSnake(EnumName(l)) = Value(l)
        BY <1>2, <2>3, <2>4
    <2>6. EnumName(l) \in Spelling /\ (Len(EnumName(l)) = 0 <=> k = 0)
        BY <2>3, NameType, NameEnds
    <2>7. Len(EnumName(l)) > 0 /\ w.acronym => isLower(EnumName(l)[Len(EnumName(l))])
        <3> SUFFICES ASSUME Len(EnumName(l)) > 0, w.acronym
                     PROVE ~l[Len(l)].acronym /\ Len(l) # 0
            BY NameEnds
        <3>1. k # 0
            BY <2>6
        <3>2. k + 1 \in 2..Len(m) /\ (k + 1) - 1 = k /\ k \in 1..k
            BY <3>1
        <3>3. m[k + 1] = w /\ m[k] = l[k]
            BY <2>2, <2>3, <3>2 DEF Extends
        <3>4. ~(m[(k + 1) - 1].acronym /\ m[k + 1].acronym)
            BY <3>2 DEF Apart
        <3> QED BY <2>3, <3>1, <3>2, <3>3, <3>4
    <2>8. camelToScreamingSnake(Cat(EnumName(l), CamelWord(w))) =
              Cat(Value(l), Cat(IF k = 0 THEN <<>> ELSE One(Underscore), Capitals(w)))
        BY <2>5, <2>6, <2>7, SnakeStep
    <2>9. EnumName(m) = Cat(EnumName(l), CamelWord(w))
        BY <2>2, NameGrows
    <2>10. Value(m) = IF k = 0 THEN Capitals(w)
                      ELSE Cat(Value(l), Cat(One(Underscore), Capitals(w)))
        BY <2>2, <2>3, NameGrows
    <2>11. k = 0 => Value(l) = <<>>
        BY <2>3, EmptySeq, NameNone
    <2>12. Cat(<<>>, Cat(<<>>, Capitals(w))) = Capitals(w)
        BY WordSpelt, CatEmpty
    <2> QED BY <2>8, <2>9, <2>10, <2>11, <2>12
<1> HIDE DEF T
<1>3. Len(n) \in T
    BY <1>1, <1>2, SetInduction, LenProperties
<1> QED BY <1>3 DEF T

(* The words of a name, unless an acronym comes after another word.        *)
LEMMA SplitBack ==
    ASSUME NEW n \in Seq(Word), \A i \in 2..Len(n) : ~n[i].acronym
    PROVE splitCamel(EnumName(n)) = EnumTitle(n)
<1> DEFINE NoneLater(m) == \A i \in 2..Len(m) : ~m[i].acronym
           T == {k \in Nat : \A m \in Seq(Word) : Len(m) = k /\ NoneLater(m) =>
                    splitCamel(EnumName(m)) = EnumTitle(m)}
<1>1. 0 \in T
    BY EmptySeq, NameNone
<1>2. ASSUME NEW k \in Nat, k \in T PROVE k + 1 \in T
    <2> SUFFICES ASSUME NEW m \in Seq(Word), Len(m) = k + 1, NoneLater(m)
                 PROVE splitCamel(EnumName(m)) = EnumTitle(m)
        OBVIOUS
    <2>1. m # <<>>
        BY EmptySeq
    <2>2. PICK l \in Seq(Word), w \in Word : Extends(m, l, w)
        BY <2>1, Shorter
    <2>3. Len(l) = k
        BY <2>2, LenProperties DEF Extends
    <2>4. NoneLater(l)
        <3>1. ASSUME NEW i \in 2..k PROVE ~l[i].acronym
            <4>1. i \in 1..k /\ i \in 2..Len(m)
                OBVIOUS
            <4>2. m[i] = l[i]
                BY <2>2, <2>3, <4>1 DEF Extends
            <4> QED BY <4>1, <4>2
        <3> QED BY <2>3, <3>1
    <2>5. splitCamel(EnumName(l)) = EnumTitle(l)
        BY <1>2, <2>3, <2>4
    <2>6. EnumName(l) \in Spelling /\ (Len(EnumName(l)) = 0 <=> k = 0)
        BY <2>3, NameType, NameEnds
    <2>7. Len(EnumName(l)) = 0 \/ ~w.acronym
        <3>1. k # 0 => k + 1 \in 2..Len(m)
            OBVIOUS
        <3>2. m[k + 1] = w
            BY <2>2, <2>3 DEF Extends
        <3> QED BY <2>6, <3>1, <3>2
    <2>8. splitCamel(Cat(EnumName(l), CamelWord(w))) =
              Cat(EnumTitle(l), Cat(IF k = 0 THEN <<>> ELSE One(Space), CamelWord(w)))
        BY <2>5, <2>6, <2>7, SplitStep
    <2>9. EnumName(m) = Cat(EnumName(l), CamelWord(w))
        BY <2>2, NameGrows
    <2>10. EnumTitle(m) = IF k = 0 THEN CamelWord(w)
                          ELSE Cat(EnumTitle(l), Cat(One(Space), CamelWord(w)))
        BY <2>2, <2>3, NameGrows
    <2>11. k = 0 => EnumTitle(l) = <<>>
        BY <2>3, EmptySeq, NameNone
    <2>12. Cat(<<>>, Cat(<<>>, CamelWord(w))) = CamelWord(w)
        BY WordSpelt, CatEmpty
    <2> QED BY <2>8, <2>9, <2>10, <2>11, <2>12
<1> HIDE DEF T
<1>3. Len(n) \in T
    BY <1>1, <1>2, SetInduction, LenProperties
<1> QED BY <1>3 DEF T

(* The words of a value's name get their capitals back, with any separator.*)
LEMMA CasedValue ==
    ASSUME NEW n \in Seq(Word), NEW separator \in Spelling
    PROVE Capitalised(Value(n), separator) = Joined(Titles(n), separator)
<1> DEFINE T == {k \in Nat : \A m \in Seq(Word) : Len(m) = k =>
                    Capitalised(Value(m), separator) = Joined(Titles(m), separator)}
<1>0. Capitalised(<<>>, separator) = <<>> /\ Titles(<<>>) = <<>>
    <2>1. Cased(<<>>, separator) = <<>>
        BY DEF Cased
    <2>2. Titles(<<>>) = <<>>
        BY DEF Titles
    <2> QED BY <2>1, <2>2, FlattenEmpty DEF Capitalised, Cased
<1>1. 0 \in T
    BY <1>0, EmptySeq, NameNone, JoinedNone
<1>2. ASSUME NEW k \in Nat, k \in T PROVE k + 1 \in T
    <2> SUFFICES ASSUME NEW m \in Seq(Word), Len(m) = k + 1
                 PROVE Capitalised(Value(m), separator) = Joined(Titles(m), separator)
        OBVIOUS
    <2>1. m # <<>>
        BY EmptySeq
    <2>2. PICK l \in Seq(Word), w \in Word : Extends(m, l, w)
        BY <2>1, Shorter
    <2>3. Len(l) = k
        BY <2>2, LenProperties DEF Extends
    <2>4. Capitalised(Value(l), separator) = Joined(Titles(l), separator)
        BY <1>2, <2>3
    <2>5. Value(m) = IF k = 0 THEN Capitals(w)
                     ELSE Cat(Value(l), Cat(One(Underscore), Capitals(w)))
        BY <2>2, <2>3, NameGrows
    <2>6. Joined(Titles(m), separator) =
              IF k = 0 THEN Capital(w)
              ELSE Cat(Joined(Titles(l), separator), Cat(separator, Capital(w)))
        <3>1. /\ Titles(l) \in Seq(Spelling) /\ Len(Titles(l)) = k
              /\ Titles(m) \in Seq(Spelling)
            BY <2>3, FormsType
        <3>2. Extends(Titles(m), Titles(l), Capital(w))
            BY <2>2, FormsExtend
        <3>3. Capital(w) \in Spelling
            BY WordSpelt
        <3> QED BY <3>1, <3>2, <3>3, JoinedOneMore
    <2>7. Value(l) \in Spelling /\ Capitals(w) \in Spelling /\ Capital(w) \in Spelling
        BY NameType, WordSpelt
    <2>8. CASE k = 0
        <3>1. <<>> \in Spelling /\ Len(<<>>) = 0
            BY CatEmpty
        <3>2. Capitalised(Cat(<<>>, Capitals(w)), separator) =
                  Cat(Capitalised(<<>>, separator), Capital(w))
            BY <3>1, CapitalStep
        <3>3. Cat(<<>>, Capitals(w)) = Capitals(w) /\ Cat(<<>>, Capital(w)) = Capital(w)
            BY <2>7, CatEmpty
        <3> QED BY <1>0, <2>5, <2>6, <2>8, <3>2, <3>3
    <2>9. CASE k # 0
        <3> DEFINE s == Cat(Value(l), One(Underscore))
        <3>1. One(Underscore) \in Spelling /\ Len(One(Underscore)) = 1 /\ One(Underscore)[1] = Underscore
            BY OneType, UnderscoreKind
        <3>2. /\ s \in Spelling /\ Len(s) = Len(Value(l)) + 1
              /\ s[Len(Value(l)) + 1] = Underscore
            <4>1. s \in Spelling /\ Len(s) = Len(Value(l)) + Len(One(Underscore))
                BY <2>7, <3>1, CatType
            <4>2. \A i \in 1..Len(One(Underscore)) : s[Len(Value(l)) + i] = One(Underscore)[i]
                BY <2>7, <3>1, CatAt
            <4>3. 1 \in 1..Len(One(Underscore))
                BY <3>1
            <4> QED BY <3>1, <4>1, <4>2, <4>3
        <3>3. Value(m) = Cat(s, Capitals(w))
            BY <2>5, <2>7, <2>9, <3>1, CatAssoc
        <3>4. Capitalised(s, separator) = Cat(Joined(Titles(l), separator), separator)
            BY <2>4, <2>7, UnderscoreStep
        <3> HIDE DEF s
        <3>5. Capitalised(Cat(s, Capitals(w)), separator) = Cat(Capitalised(s, separator), Capital(w))
            BY <3>2, CapitalStep
        <3>6. Joined(Titles(l), separator) \in Spelling
            BY FormsType, JoinedType
        <3>7. Cat(Cat(Joined(Titles(l), separator), separator), Capital(w)) =
                  Cat(Joined(Titles(l), separator), Cat(separator, Capital(w)))
            BY <2>7, <3>6, CatAssoc
        <3> QED BY <2>6, <2>9, <3>3, <3>4, <3>5, <3>7
    <2> QED BY <2>8, <2>9
<1> HIDE DEF T
<1>3. Len(n) \in T
    BY <1>1, <1>2, SetInduction, LenProperties
<1> QED BY <1>3 DEF T

(* What two sequences of names are one after the other.                    *)
LEMMA CatForms ==
    ASSUME NEW f \in Seq(Spelling), NEW g \in Seq(Spelling)
    PROVE /\ Cat(f, g) \in Seq(Spelling)
          /\ Len(Cat(f, g)) = Len(f) + Len(g)
          /\ \A i \in 1..(Len(f) + Len(g)) :
                Cat(f, g)[i] = IF i <= Len(f) THEN f[i] ELSE g[i - Len(f)]
  BY ConcatProperties DEF Cat

(* A name with words of another.                                           *)
LEMMA NameBoth ==
    ASSUME NEW n \in Seq(Word), NEW t \in Seq(Word), n # <<>>, t # <<>>
    PROVE /\ n \o t \in Seq(Word)
          /\ EnumName(n \o t) = Cat(EnumName(n), EnumName(t))
          /\ Value(n \o t) = Cat(Cat(Value(n), One(Underscore)), Value(t))
<1> DEFINE m == n \o t
<1>1. /\ m \in Seq(Word) /\ Len(m) = Len(n) + Len(t)
      /\ \A i \in 1..(Len(n) + Len(t)) : m[i] = IF i <= Len(n) THEN n[i] ELSE t[i - Len(n)]
      /\ Len(n) \in Nat /\ Len(t) \in Nat
    BY ConcatProperties, LenProperties
<1>2. /\ Camels(n) \in Seq(Spelling) /\ Len(Camels(n)) = Len(n)
      /\ Shouts(n) \in Seq(Spelling) /\ Len(Shouts(n)) = Len(n)
      /\ Camels(t) \in Seq(Spelling) /\ Len(Camels(t)) = Len(t)
      /\ Shouts(t) \in Seq(Spelling) /\ Len(Shouts(t)) = Len(t)
    BY FormsType
<1>3. /\ Camels(m) \in Seq(Spelling) /\ Len(Camels(m)) = Len(n) + Len(t)
      /\ Shouts(m) \in Seq(Spelling) /\ Len(Shouts(m)) = Len(n) + Len(t)
    <2> HIDE DEF m
    <2> QED BY <1>1, FormsType
<1>4. /\ Camels(n) # <<>> /\ Camels(t) # <<>> /\ Shouts(n) # <<>> /\ Shouts(t) # <<>>
    BY <1>2, EmptySeq
<1> HIDE DEF m
<1>5. Camels(m) = Cat(Camels(n), Camels(t))
    <2>1. /\ Cat(Camels(n), Camels(t)) \in Seq(Spelling)
          /\ Len(Cat(Camels(n), Camels(t))) = Len(n) + Len(t)
          /\ \A i \in 1..(Len(n) + Len(t)) : Cat(Camels(n), Camels(t))[i] =
                IF i <= Len(n) THEN Camels(n)[i] ELSE Camels(t)[i - Len(n)]
        <3>1. /\ Cat(Camels(n), Camels(t)) \in Seq(Spelling)
              /\ Len(Cat(Camels(n), Camels(t))) = Len(Camels(n)) + Len(Camels(t))
              /\ \A i \in 1..(Len(Camels(n)) + Len(Camels(t))) : Cat(Camels(n), Camels(t))[i] =
                    IF i <= Len(Camels(n)) THEN Camels(n)[i] ELSE Camels(t)[i - Len(Camels(n))]
            BY <1>2, CatForms
        <3> QED BY <1>2, <3>1
    <2>2. ASSUME NEW i \in 1..(Len(n) + Len(t)) PROVE Camels(m)[i] = Cat(Camels(n), Camels(t))[i]
        <3>1. Camels(m)[i] = CamelWord(m[i])
            BY <1>1 DEF Camels
        <3>2. CASE i <= Len(n)
            <4>1. i \in 1..Len(n)
                BY <1>1, <3>2
            <4> QED BY <1>1, <2>1, <3>1, <3>2, <4>1 DEF Camels
        <3>3. CASE ~(i <= Len(n))
            <4>1. i - Len(n) \in 1..Len(t)
                BY <1>1, <3>3
            <4> QED BY <1>1, <2>1, <3>1, <3>3, <4>1 DEF Camels
        <3> QED BY <3>2, <3>3
    <2> QED BY <1>3, <2>1, <2>2, SeqEqual
<1>6. Shouts(m) = Cat(Shouts(n), Shouts(t))
    <2>1. /\ Cat(Shouts(n), Shouts(t)) \in Seq(Spelling)
          /\ Len(Cat(Shouts(n), Shouts(t))) = Len(n) + Len(t)
          /\ \A i \in 1..(Len(n) + Len(t)) : Cat(Shouts(n), Shouts(t))[i] =
                IF i <= Len(n) THEN Shouts(n)[i] ELSE Shouts(t)[i - Len(n)]
        <3>1. /\ Cat(Shouts(n), Shouts(t)) \in Seq(Spelling)
              /\ Len(Cat(Shouts(n), Shouts(t))) = Len(Shouts(n)) + Len(Shouts(t))
              /\ \A i \in 1..(Len(Shouts(n)) + Len(Shouts(t))) : Cat(Shouts(n), Shouts(t))[i] =
                    IF i <= Len(Shouts(n)) THEN Shouts(n)[i] ELSE Shouts(t)[i - Len(Shouts(n))]
            BY <1>2, CatForms
        <3> QED BY <1>2, <3>1
    <2>2. ASSUME NEW i \in 1..(Len(n) + Len(t)) PROVE Shouts(m)[i] = Cat(Shouts(n), Shouts(t))[i]
        <3>1. Shouts(m)[i] = Capitals(m[i])
            BY <1>1 DEF Shouts
        <3>2. CASE i <= Len(n)
            <4>1. i \in 1..Len(n)
                BY <1>1, <3>2
            <4> QED BY <1>1, <2>1, <3>1, <3>2, <4>1 DEF Shouts
        <3>3. CASE ~(i <= Len(n))
            <4>1. i - Len(n) \in 1..Len(t)
                BY <1>1, <3>3
            <4> QED BY <1>1, <2>1, <3>1, <3>3, <4>1 DEF Shouts
        <3> QED BY <3>2, <3>3
    <2> QED BY <1>3, <2>1, <2>2, SeqEqual
<1>7. EnumName(m) = Cat(EnumName(n), EnumName(t))
    <2>1. Joined(Cat(Camels(n), Camels(t)), <<>>) =
              Cat(Cat(Joined(Camels(n), <<>>), <<>>), Joined(Camels(t), <<>>))
        BY <1>2, <1>4, Separators, JoinedBoth
    <2>2. Joined(Camels(n), <<>>) = EnumName(n) /\ Joined(Camels(t), <<>>) = EnumName(t)
          /\ Joined(Camels(m), <<>>) = EnumName(m)
        BY DEF EnumName, Camels
    <2>3. Cat(EnumName(n), <<>>) = EnumName(n)
        BY NameType, CatEmpty
    <2> QED BY <1>5, <2>1, <2>2, <2>3
<1>8. Value(m) = Cat(Cat(Value(n), One(Underscore)), Value(t))
    <2>1. Joined(Cat(Shouts(n), Shouts(t)), <<Underscore>>) =
              Cat(Cat(Joined(Shouts(n), <<Underscore>>), <<Underscore>>),
                  Joined(Shouts(t), <<Underscore>>))
        BY <1>2, <1>4, Separators, JoinedBoth
    <2>2. Joined(Shouts(n), <<Underscore>>) = Value(n) /\ Joined(Shouts(t), <<Underscore>>) = Value(t)
          /\ Joined(Shouts(m), <<Underscore>>) = Value(m)
        BY DEF Value, Shouts
    <2> QED BY <1>6, <2>1, <2>2, Separators
<1> QED BY <1>1, <1>7, <1>8 DEF m

(* Some letters of a name.                                                 *)
Part(s, m, n) == SubSeq(s, m, n)

(* They are as many as they should be, in their places.                    *)
LEMMA PartType ==
    ASSUME NEW s \in Spelling, NEW m \in Nat, NEW n \in Nat, m > 0, n <= Len(s), m <= n + 1
    PROVE /\ Part(s, m, n) \in Spelling /\ Len(Part(s, m, n)) = (n - m) + 1
          /\ \A i \in 1..((n - m) + 1) : Part(s, m, n)[i] = s[(m + i) - 1]
<1>1. \A i \in m..n : s[i] \in Alphabet
    <2>1. \A i \in m..n : i \in 1..Len(s)
        BY SpellingType
    <2> QED BY <2>1, SpellingType
<1>2. /\ SubSeq(s, m, n) \in Seq(Alphabet)
      /\ Len(SubSeq(s, m, n)) = IF m <= n THEN n - m + 1 ELSE 0
      /\ \A i \in 1..(n - m + 1) : SubSeq(s, m, n)[i] = s[m + i - 1]
    BY <1>1, SubSeqProperties
<1> QED BY <1>2 DEF Part, Spelling

(* A name with another one's letters first has it as a prefix.             *)
LEMMA PrefixOf ==
    ASSUME NEW a \in Spelling, NEW s \in Spelling, Len(a) <= Len(s),
           \A i \in 1..Len(a) : s[i] = a[i]
    PROVE IsPrefix(a, s)
<1>1. Len(a) \in Nat /\ Len(s) \in Nat
    BY SpellingType
<1>2. /\ Part(s, 1, Len(a)) \in Spelling /\ Len(Part(s, 1, Len(a))) = Len(a)
      /\ \A i \in 1..Len(a) : Part(s, 1, Len(a))[i] = s[i]
    <2> DEFINE k == Len(a)
    <2>1. k \in Nat /\ k <= Len(s) /\ 1 <= k + 1 /\ (k - 1) + 1 = k
        BY <1>1
    <2>2. \A i \in 1..k : (1 + i) - 1 = i
        OBVIOUS
    <2> HIDE DEF k
    <2>3. /\ Part(s, 1, k) \in Spelling /\ Len(Part(s, 1, k)) = (k - 1) + 1
          /\ \A i \in 1..((k - 1) + 1) : Part(s, 1, k)[i] = s[(1 + i) - 1]
        BY <2>1, PartType
    <2>4. \A i \in 1..k : Part(s, 1, k)[i] = s[i]
        BY <2>1, <2>2, <2>3
    <2> QED BY <2>1, <2>3, <2>4 DEF k
<1>3. \A i \in 1..Len(Part(s, 1, Len(a))) : Part(s, 1, Len(a))[i] = a[i]
    BY <1>2
<1>4. Part(s, 1, Len(a)) = a
    BY <1>2, <1>3, SameSpelling
<1>5. SubSeq(a, 1, Len(a)) = a
    BY SubSeqFull DEF Spelling
<1> QED BY <1>1, <1>4, <1>5 DEF IsPrefix, Part

(* TrimPrefix takes away what was put before.                              *)
LEMMA Trimmed ==
    ASSUME NEW a \in Spelling, NEW b \in Spelling
    PROVE TrimPrefix(Cat(a, b), a) = b
<1> DEFINE s == Cat(a, b)
<1>1. /\ s \in Spelling /\ Len(s) = Len(a) + Len(b) /\ Len(a) \in Nat /\ Len(b) \in Nat
      /\ \A i \in 1..Len(a) : s[i] = a[i]
    BY CatType, CatAt, SpellingType
<1>2. \A i \in 1..Len(b) : s[Len(a) + i] = b[i]
    BY CatAt
<1> HIDE DEF s
<1>3. IsPrefix(a, s)
    BY <1>1, PrefixOf
<1> DEFINE m == Len(a) + 1
           n == Len(s)
<1>4. /\ m \in Nat /\ n \in Nat /\ m > 0 /\ n <= Len(s) /\ m <= n + 1 /\ (n - m) + 1 = Len(b)
      /\ \A i \in 1..Len(b) : (m + i) - 1 = Len(a) + i
    BY <1>1
<1> HIDE DEF m, n
<1>5. /\ Part(s, m, n) \in Spelling /\ Len(Part(s, m, n)) = (n - m) + 1
      /\ \A i \in 1..((n - m) + 1) : Part(s, m, n)[i] = s[(m + i) - 1]
    BY <1>1, <1>4, PartType
<1>6. \A i \in 1..Len(b) : Part(s, m, n)[i] = b[i]
    BY <1>2, <1>4, <1>5
<1>7. Part(s, m, n) = b
    BY <1>4, <1>5, <1>6, SameSpelling
<1> QED BY <1>3, <1>7 DEF TrimPrefix, Part, m, n, s

(* What was put after is a suffix.                                         *)
LEMMA SuffixOf ==
    ASSUME NEW a \in Spelling, NEW b \in Spelling
    PROVE IsSuffix(b, Cat(a, b))
<1> DEFINE s == Cat(a, b)
<1>1. s \in Spelling /\ Len(s) = Len(a) + Len(b) /\ Len(a) \in Nat /\ Len(b) \in Nat
    BY CatType, SpellingType
<1>2. \A i \in 1..Len(b) : s[Len(a) + i] = b[i]
    BY CatAt
<1> HIDE DEF s
<1>3. ASSUME NEW c \in Spelling
      PROVE /\ Reverse(c) \in Spelling /\ Len(Reverse(c)) = Len(c)
            /\ \A i \in 1..Len(c) : Reverse(c)[i] = c[(Len(c) - i) + 1]
    <2>1. Len(c) \in Nat
        BY SpellingType
    <2>2. \A i \in 1..Len(c) : (Len(c) - i) + 1 \in 1..Len(c)
        BY <2>1
    <2>3. \A i \in 1..Len(c) : c[(Len(c) - i) + 1] \in Alphabet
        BY <2>2, SpellingType
    <2>4. Reverse(c) \in [1..Len(c) -> Alphabet]
        BY <2>3 DEF Reverse
    <2>5. Reverse(c) \in Spelling /\ Len(Reverse(c)) = Len(c)
        BY <2>1, <2>4, FunctionIsSeq DEF Spelling
    <2> QED BY <2>5 DEF Reverse
<1>4. ASSUME NEW i \in 1..Len(b) PROVE Reverse(s)[i] = Reverse(b)[i]
    <2> DEFINE j == (Len(b) - i) + 1
    <2>1. j \in 1..Len(b) /\ (Len(s) - i) + 1 = Len(a) + j /\ i \in 1..Len(s)
        BY <1>1
    <2>2. Reverse(b)[i] = b[j]
        BY <1>3
    <2> HIDE DEF j
    <2>3. Reverse(s)[i] = s[Len(a) + j]
        BY <1>1, <1>3, <2>1
    <2> QED BY <1>2, <2>1, <2>2, <2>3
<1>5. /\ Reverse(b) \in Spelling /\ Len(Reverse(b)) = Len(b)
      /\ Reverse(s) \in Spelling /\ Len(Reverse(s)) = Len(s) /\ Len(b) <= Len(s)
    BY <1>1, <1>3
<1>6. IsPrefix(Reverse(b), Reverse(s))
    BY <1>4, <1>5, PrefixOf
<1> QED BY <1>6 DEF IsSuffix, s

-----------------------------------------------------------------------------
(* The words of the generator's input.                                     *)

(* Sequences of bounded length are sequences.                              *)
LEMMA BoundedIsSeq ==
    ASSUME NEW S, NEW T, S \subseteq T, NEW s \in SeqOf(S, MostWords), s # <<>>
    PROVE s \in Seq(T) /\ \A i \in 1..Len(s) : s[i] \in S
<1>1. PICK k \in 0..MostWords : s \in [1..k -> S]
    BY DEF SeqOf
<1>2. k \in Nat
    BY WordsAssumption
<1>3. s \in Seq(S) /\ Len(s) = k
    BY <1>1, <1>2, FunctionIsSeq
<1>4. s \in [1..k -> T]
    BY <1>1
<1> QED BY <1>2, <1>3, <1>4, FunctionIsSeq, ElementOfSeq

(* The words after an enum's name have no acronyms ...                     *)
LEMMA TailWords ==
    ASSUME NEW t \in Tails
    PROVE t \in Seq(Word) /\ t # <<>> /\ \A i \in 1..Len(t) : ~t[i].acronym
<1>1. t \in SeqOf(Plain, MostWords) /\ t # <<>>
    BY DEF Tails
<1>2. Plain \subseteq Word
    BY DEF Word
<1>3. t \in Seq(Word) /\ \A i \in 1..Len(t) : t[i] \in Plain
    BY <1>1, <1>2, BoundedIsSeq
<1>4. \A w \in Plain : ~w.acronym
    BY DEF Plain
<1> QED BY <1>1, <1>3, <1>4

(* ... and those of the name have no two in a row.                         *)
LEMMA NameWords ==
    ASSUME NEW n \in EnumWords
    PROVE n \in Seq(Word) /\ n # <<>> /\ Apart(n)
<1>1. n \in SeqOf(Word, MostWords) /\ n # <<>> /\ Apart(n)
    BY DEF EnumWords, Word, Apart
<1> QED BY <1>1, BoundedIsSeq

(* An enum's name and more words: no two acronyms meet.                    *)
LEMMA ValueWords ==
    ASSUME NEW n \in EnumWords, NEW t \in Tails
    PROVE n \o t \in Seq(Word) /\ n \o t # <<>> /\ Apart(n \o t)
<1>1. /\ n \in Seq(Word) /\ n # <<>> /\ Apart(n) /\ t \in Seq(Word) /\ t # <<>>
      /\ \A i \in 1..Len(t) : ~t[i].acronym
    BY TailWords, NameWords
<1> DEFINE m == n \o t
<1>2. /\ m \in Seq(Word) /\ Len(m) = Len(n) + Len(t)
      /\ \A i \in 1..(Len(n) + Len(t)) : m[i] = IF i <= Len(n) THEN n[i] ELSE t[i - Len(n)]
      /\ Len(n) \in Nat /\ Len(t) \in Nat
    BY <1>1, ConcatProperties, LenProperties
<1> HIDE DEF m
<1>3. ASSUME NEW i \in 2..Len(m) PROVE ~(m[i - 1].acronym /\ m[i].acronym)
    <2>1. i \in 1..(Len(n) + Len(t)) /\ i - 1 \in 1..(Len(n) + Len(t))
        BY <1>2
    <2>2. CASE i <= Len(n)
        <3>1. i \in 2..Len(n) /\ i - 1 <= Len(n)
            BY <1>2, <2>2
        <3> QED BY <1>1, <1>2, <2>1, <2>2, <3>1 DEF Apart
    <2>3. CASE ~(i <= Len(n))
        <3>1. i - Len(n) \in 1..Len(t)
            BY <1>2, <2>1, <2>3
        <3>2. m[i] = t[i - Len(n)]
            BY <1>2, <2>1, <2>3
        <3> QED BY <1>1, <3>1, <3>2
    <2> QED BY <2>2, <2>3
<1>4. m # <<>>
    <2>1. Len(n) # 0
        BY <1>1, EmptySeq
    <2> QED BY <1>2, <2>1
<1> QED BY <1>2, <1>3, <1>4 DEF Apart, m

(* A value of words without acronyms, made a name and made a title.        *)
LEMMA TailCased ==
    ASSUME NEW t \in Seq(Word), \A i \in 1..Len(t) : ~t[i].acronym
    PROVE snakeToPascal(Value(t)) = EnumName(t) /\ toTitle(Value(t)) = Title(t)
<1>1. Titles(t) = Camels(t)
    <2>1. \A i \in 1..Len(t) : Capital(t[i]) = CamelWord(t[i])
        BY DEF CamelWord
    <2> QED BY <2>1 DEF Titles, Camels
<1>2. /\ Capitalised(Value(t), <<>>) = Joined(Titles(t), <<>>)
      /\ Capitalised(Value(t), <<Space>>) = Joined(Titles(t), <<Space>>)
    BY CasedValue, Separators
<1>3. Joined(Camels(t), <<>>) = EnumName(t)
    BY DEF EnumName, Camels
<1>4. Joined(Titles(t), <<Space>>) = Title(t)
    BY DEF Title, Titles
<1> QED BY <1>1, <1>2, <1>3, <1>4 DEF snakeToPascal, toTitle

(* What becomes of a value that carries its enum's name: its concept is    *)
(* named by both, its label by the rest.                                   *)
LEMMA ValueBecomes ==
    ASSUME NEW n \in EnumWords, NEW t \in Tails, NEW e, e.name = EnumName(n)
    PROVE /\ ValueInfo(e, Value(n \o t)).concept = EnumName(n \o t)
          /\ ValueInfo(e, Value(n \o t)).label = Title(t)
<1>1. /\ n \in Seq(Word) /\ n # <<>> /\ Apart(n) /\ t \in Seq(Word) /\ t # <<>>
      /\ \A i \in 1..Len(t) : ~t[i].acronym
    BY TailWords, NameWords
<1>2. camelToScreamingSnake(e.name) = Value(n)
    BY <1>1, SnakeBack
<1>3. Value(n) \in Spelling /\ Value(t) \in Spelling /\ EnumName(n) \in Spelling
    BY <1>1, NameType
<1>4. One(Underscore) \in Spelling
    BY OneType, UnderscoreKind
<1>5. TrimPrefix(Value(n \o t), Cat(Value(n), One(Underscore))) = Value(t)
    <2>1. Value(n \o t) = Cat(Cat(Value(n), One(Underscore)), Value(t))
        BY <1>1, NameBoth
    <2>2. Cat(Value(n), One(Underscore)) \in Spelling
        BY <1>3, <1>4, CatType
    <2> QED BY <1>3, <2>1, <2>2, Trimmed
<1>7. snakeToPascal(Value(t)) = EnumName(t) /\ toTitle(Value(t)) = Title(t)
    BY <1>1, TailCased
<1>8. camelToScreamingSnake(e.name) \o <<Underscore>> = Cat(Value(n), One(Underscore))
    BY <1>2 DEF Cat, One
<1>9. /\ ValueInfo(e, Value(n \o t)).concept = Cat(EnumName(n), EnumName(t))
      /\ ValueInfo(e, Value(n \o t)).label = Title(t)
    <2>1. /\ ValueInfo(e, Value(n \o t)).concept =
                 e.name \o snakeToPascal(TrimPrefix(Value(n \o t), Cat(Value(n), One(Underscore))))
          /\ ValueInfo(e, Value(n \o t)).label =
                 toTitle(TrimPrefix(Value(n \o t), Cat(Value(n), One(Underscore))))
        BY <1>8 DEF ValueInfo
    <2> QED BY <1>5, <1>7, <2>1 DEF Cat
<1>10. EnumName(n \o t) = Cat(EnumName(n), EnumName(t))
    BY <1>1, NameBoth
<1> QED BY <1>9, <1>10

(* ... so that the concept tells which value it is.                        *)
LEMMA ConceptIsValue ==
    ASSUME NEW n \in EnumWords, NEW t \in Tails, NEW e, e.name = EnumName(n)
    PROVE camelToScreamingSnake(ValueInfo(e, Value(n \o t)).concept) = Value(n \o t)
  BY ValueBecomes, ValueWords, SnakeBack

(* A value that does not carry the name is taken whole.                    *)
LEMMA BareBecomes ==
    ASSUME NEW n \in EnumWords, NEW t \in Bare(n), NEW e, e.name = EnumName(n)
    PROVE /\ ValueInfo(e, Value(t)).concept = Cat(EnumName(n), EnumName(t))
          /\ ValueInfo(e, Value(t)).label = Title(t)
<1>1. /\ n \in Seq(Word) /\ n # <<>> /\ Apart(n) /\ t \in Seq(Word)
      /\ \A i \in 1..Len(t) : ~t[i].acronym
    BY TailWords, NameWords DEF Bare
<1>2. camelToScreamingSnake(e.name) = Value(n)
    BY <1>1, SnakeBack
<1>3. TrimPrefix(Value(t), Value(n) \o <<Underscore>>) = Value(t)
    BY DEF TrimPrefix, Bare, Carries
<1>4. /\ ValueInfo(e, Value(t)).concept = e.name \o snakeToPascal(Value(t))
      /\ ValueInfo(e, Value(t)).label = toTitle(Value(t))
    BY <1>2, <1>3 DEF ValueInfo
<1>5. snakeToPascal(Value(t)) = EnumName(t) /\ toTitle(Value(t)) = Title(t)
    BY <1>1, TailCased
<1> QED BY <1>4, <1>5 DEF Cat

-----------------------------------------------------------------------------
(* Concepts.                                                               *)

(* What is written of an enum: statements of a kind are about its values.  *)
LEMMA Written ==
    ASSUME NEW info, NEW s \in writeEnum(info)
    PROVE /\ s[2] = "notation" => \E v \in info.values :
                s = <<v.concept, "notation", v.notation>>
          /\ s[2] = "inScheme" => \E v \in info.values :
                s = <<v.concept, "inScheme", Scheme(info.name)>>
          /\ s[2] = "prefLabel" => \E v \in info.values :
                s = <<v.concept, "prefLabel", v.label>>
<1>1. CASE s \in {<<Class(info.name), "a", <<"owl:Class">> >>,
                  <<Class(info.name), "subClassOf", <<"skos:Concept">> >>,
                  <<Scheme(info.name), "a", <<"skos:ConceptScheme">> >>,
                  <<Scheme(info.name), "label", splitCamel(info.name)>>}
    <2>1. s[2] \in {"a", "subClassOf", "label"}
        BY <1>1
    <2> QED BY <2>1
<1>2. ASSUME NEW v \in info.values,
             s \in {<<v.concept, "a", Class(info.name)>>,
                    <<v.concept, "a", <<"skos:Concept">> >>,
                    <<v.concept, "prefLabel", v.label>>,
                    <<v.concept, "notation", v.notation>>,
                    <<v.concept, "inScheme", Scheme(info.name)>>}
      PROVE /\ s[2] = "notation" => s = <<v.concept, "notation", v.notation>>
            /\ s[2] = "inScheme" => s = <<v.concept, "inScheme", Scheme(info.name)>>
            /\ s[2] = "prefLabel" => s = <<v.concept, "prefLabel", v.label>>
    BY <1>2
<1>3. info.values # {}
    BY DEF writeEnum
<1> QED BY <1>1, <1>2, <1>3 DEF writeEnum

(* In the vocabulary of one package.                                       *)
LEMMA OnePackage ==
    ASSUME NEW f, NEW s \in Vocabulary(<<f>>)
    PROVE \E e \in ToSet(f) : s \in writeEnum(buildEnumInfo(e))
<1>1. ToSet(<<f>>) = {f}
    BY DEF ToSet
<1>2. collectEnums(<<f>>) = {buildEnumInfo(e) : e \in ToSet(f)}
    BY <1>1 DEF collectEnums
<1> QED BY <1>2 DEF Vocabulary

(* Concepts are apart if they tell which value of which enum they are.     *)
LEMMA ApartIfTold ==
    ASSUME NEW f,
           \A e, d \in ToSet(f) : \A v \in Kept(e), u \in Kept(d) :
              ValueInfo(e, v).concept = ValueInfo(d, u).concept => v = u /\ e = d
    PROVE ApartIn(<<f>>)
<1> DEFINE vocabulary == Vocabulary(<<f>>)
<1>1. ASSUME NEW s \in vocabulary, s[2] \in {"notation", "inScheme"}
      PROVE \E e \in ToSet(f) : \E v \in Kept(e) :
                /\ s[1] = ValueInfo(e, v).concept
                /\ s[2] = "notation" => s = <<ValueInfo(e, v).concept, "notation", v>>
                /\ s[2] = "inScheme" => s = <<ValueInfo(e, v).concept, "inScheme", Scheme(e.name)>>
    <2>1. PICK e \in ToSet(f) : s \in writeEnum(buildEnumInfo(e))
        BY OnePackage
    <2>2. buildEnumInfo(e).name = e.name
        BY DEF buildEnumInfo
    <2>3. \A value \in buildEnumInfo(e).values : \E v \in Kept(e) :
              value = ValueInfo(e, v) /\ value.notation = v
        <3>1. \A v : ValueInfo(e, v).notation = v
            BY DEF ValueInfo
        <3>2. buildEnumInfo(e).values = {ValueInfo(e, v) : v \in Kept(e)}
            BY DEF buildEnumInfo
        <3> QED BY <3>1, <3>2
    <2>4. CASE s[2] = "notation"
        <3>1. PICK value \in buildEnumInfo(e).values : s = <<value.concept, "notation", value.notation>>
            BY <2>1, <2>4, Written
        <3>2. PICK v \in Kept(e) : value = ValueInfo(e, v) /\ value.notation = v
            BY <2>3
        <3>3. s[1] = value.concept
            BY <3>1
        <3> QED BY <2>4, <3>1, <3>2, <3>3
    <2>5. CASE s[2] = "inScheme"
        <3>1. PICK value \in buildEnumInfo(e).values : s = <<value.concept, "inScheme", Scheme(e.name)>>
            BY <2>1, <2>2, <2>5, Written
        <3>2. PICK v \in Kept(e) : value = ValueInfo(e, v) /\ value.notation = v
            BY <2>3
        <3>3. s[1] = value.concept
            BY <3>1
        <3> QED BY <2>5, <3>1, <3>2, <3>3
    <2> QED BY <1>1, <2>4, <2>5
<1> HIDE DEF vocabulary
<1>2. Functional(Of(vocabulary, "notation"))
    <2> SUFFICES ASSUME NEW s \in vocabulary, NEW t \in vocabulary,
                        s[2] = "notation", t[2] = "notation", s[1] = t[1]
                 PROVE s = t
        BY DEF Functional, Of
    <2>1. PICK e, v : e \in ToSet(f) /\ v \in Kept(e) /\
              s[1] = ValueInfo(e, v).concept /\ s = <<ValueInfo(e, v).concept, "notation", v>>
        BY <1>1
    <2>2. PICK d, u : d \in ToSet(f) /\ u \in Kept(d) /\
              t[1] = ValueInfo(d, u).concept /\ t = <<ValueInfo(d, u).concept, "notation", u>>
        BY <1>1
    <2>3. ValueInfo(e, v).concept = ValueInfo(d, u).concept
        BY <2>1, <2>2
    <2>4. v = u
        BY <2>1, <2>2, <2>3
    <2> QED BY <2>1, <2>2, <2>3, <2>4
<1>3. Functional(Of(vocabulary, "inScheme"))
    <2> SUFFICES ASSUME NEW s \in vocabulary, NEW t \in vocabulary,
                        s[2] = "inScheme", t[2] = "inScheme", s[1] = t[1]
                 PROVE s = t
        BY DEF Functional, Of
    <2>1. PICK e, v : e \in ToSet(f) /\ v \in Kept(e) /\
              s[1] = ValueInfo(e, v).concept /\ s = <<ValueInfo(e, v).concept, "inScheme", Scheme(e.name)>>
        BY <1>1
    <2>2. PICK d, u : d \in ToSet(f) /\ u \in Kept(d) /\
              t[1] = ValueInfo(d, u).concept /\ t = <<ValueInfo(d, u).concept, "inScheme", Scheme(d.name)>>
        BY <1>1
    <2>3. ValueInfo(e, v).concept = ValueInfo(d, u).concept
        BY <2>1, <2>2
    <2>4. e = d
        BY <2>1, <2>2, <2>3
    <2> QED BY <2>1, <2>2, <2>3, <2>4
<1> QED BY <1>2, <1>3 DEF ApartIn, vocabulary

(* A value made of words is not an unspecified one: it ends with a         *)
(* capital.                                                                *)
LEMMA ValueWritten ==
    ASSUME NEW m \in Seq(Word), m # <<>>
    PROVE ~IsSuffix(Unspecified, Value(m))
<1> SUFFICES ASSUME IsSuffix(Unspecified, Value(m)) PROVE FALSE
    OBVIOUS
<1> DEFINE v == Value(m)
<1>1. PICK l \in Seq(Word), w \in Word : Extends(m, l, w)
    BY Shorter
<1>2. v \in Spelling /\ Value(l) \in Spelling /\ Capitals(w) \in Spelling
    BY NameType, WordSpelt
<1>3. \E s \in Spelling : v = Cat(s, Capitals(w))
    <2>1. v = IF Len(l) = 0 THEN Capitals(w)
              ELSE Cat(Value(l), Cat(One(Underscore), Capitals(w)))
        BY <1>1, NameGrows
    <2>2. CASE Len(l) = 0
        BY <1>2, <2>1, <2>2, CatEmpty
    <2>3. CASE Len(l) # 0
        <3>1. One(Underscore) \in Spelling
            BY OneType, UnderscoreKind
        <3>2. v = Cat(Cat(Value(l), One(Underscore)), Capitals(w))
            BY <1>2, <2>1, <2>3, <3>1, CatAssoc
        <3>3. Cat(Value(l), One(Underscore)) \in Spelling
            BY <1>2, <3>1, CatType
        <3> QED BY <3>2, <3>3
    <2> QED BY <2>2, <2>3
<1>4. PICK s \in Spelling : v = Cat(s, Capitals(w))
    BY <1>3
<1>5. /\ Len(Capitals(w)) \in Nat /\ Len(Capitals(w)) > 0 /\ Len(s) \in Nat
      /\ Len(Capitals(w)) = Len(w.letters)
    BY WordSpelt, WordLetters, SpellingType
<1>6. v[Len(v)] = Capitals(w)[Len(Capitals(w))] /\ Len(v) \in Nat /\ Len(v) > 0
    <2> DEFINE t == Capitals(w)
    <2>1. Len(Cat(s, t)) = Len(s) + Len(t) /\ \A i \in 1..Len(t) : Cat(s, t)[Len(s) + i] = t[i]
        <3> HIDE DEF t
        <3> QED BY <1>2, CatType, CatAt DEF t
    <2>2. Len(t) \in 1..Len(t)
        BY <1>5
    <2> HIDE DEF t, v
    <2> QED BY <1>4, <1>5, <2>1, <2>2 DEF t
<1>7. v[Len(v)] # "Unspecified"
    <2> DEFINE k == Len(w.letters)
    <2>1. k \in 1..k
        BY <1>5
    <2>2. w.letters[k] \in DOMAIN Upper
        BY <2>1, WordLetters
    <2>3. Capitals(w)[k] = Upper[w.letters[k]]
        BY <2>1 DEF Capitals
    <2>4. Upper[w.letters[k]] \in Range(Upper)
        BY <2>2 DEF Range
    <2>5. "Unspecified" \notin Range(Upper)
        BY LettersAssumption
    <2> QED BY <1>5, <1>6, <2>3, <2>4, <2>5
<1> HIDE DEF v
<1>8. Reverse(v)[1] = v[Len(v)]
    <2>1. 1 \in 1..Len(v) /\ (Len(v) - 1) + 1 = Len(v)
        BY <1>6
    <2> QED BY <2>1 DEF Reverse
<1>9. Len(Reverse(v)) = Len(v)
    BY <1>6 DEF Reverse
<1>10. Len(Unspecified) = 2 /\ Reverse(Unspecified)[1] = "Unspecified" /\ Len(Reverse(Unspecified)) = 2
    BY DEF Unspecified, Reverse
<1>11. SubSeq(Reverse(Unspecified), 1, 2) = SubSeq(Reverse(v), 1, 2) /\ 2 <= Len(v)
    BY <1>9, <1>10 DEF IsSuffix, IsPrefix, v
<1>12. SubSeq(Reverse(Unspecified), 1, 2)[1] = Reverse(Unspecified)[1]
    BY <1>10
<1>13. SubSeq(Reverse(v), 1, 2)[1] = Reverse(v)[1]
    BY <1>6, <1>9, <1>11
<1> QED BY <1>7, <1>8, <1>10, <1>11, <1>12, <1>13

(* What follows the same name is the same if all of it is.                 *)
LEMMA SameRest ==
    ASSUME NEW a \in Spelling, NEW b \in Spelling, NEW c \in Spelling, Cat(a, b) = Cat(a, c)
    PROVE b = c
<1>1. TrimPrefix(Cat(a, b), a) = b
    BY Trimmed
<1>2. TrimPrefix(Cat(a, c), a) = c
    BY Trimmed
<1> QED BY <1>1, <1>2

(* In the package of one enum, two values have two concepts: one of them   *)
(* is unspecified and has none, or both carry the enum's name and are what *)
(* their concepts' names say, or both are what follows the enum's name.    *)
LEMMA AloneApart ==
    ASSUME NEW e \in Alone
    PROVE ApartIn(<< <<e>> >>)
<1>1. ToSet(<<e>>) = {e}
    BY DEF ToSet
<1>2. ASSUME NEW v \in Kept(e), NEW u \in Kept(e),
             ValueInfo(e, v).concept = ValueInfo(e, u).concept
      PROVE v = u
    <2>1. ASSUME NEW w, ToSet(e.values) = {w} PROVE v = u
        BY <2>1 DEF Kept
    <2>2. ASSUME NEW w PROVE ToSet(<<w>>) = {w}
        BY DEF ToSet
    <2>3. ASSUME NEW w, NEW x PROVE ToSet(<<w, x>>) = {w, x}
        BY DEF ToSet
    <2>4. ASSUME NEW n \in EnumWords, e = Enum(n, <<Value(n) \o Unspecified>>) PROVE v = u
        <3>1. e.values = <<Value(n) \o Unspecified>>
            BY <2>4 DEF Enum
        <3> QED BY <2>1, <2>2, <3>1
    <2>5. ASSUME NEW n \in EnumWords, NEW t \in Tails,
                 e = Enum(n, <<Value(n) \o Unspecified, Value(n \o t)>>)
          PROVE v = u
        <3>1. e.values = <<Value(n) \o Unspecified, Value(n \o t)>>
            BY <2>5 DEF Enum
        <3>2. IsSuffix(Unspecified, Value(n) \o Unspecified)
            <4>1. Value(n) \in Spelling
                BY NameWords, NameType
            <4>2. Unspecified \in Spelling
                BY UnderscoreKind DEF Unspecified, Spelling
            <4> QED BY <4>1, <4>2, SuffixOf DEF Cat
        <3>3. ToSet(e.values) = {Value(n) \o Unspecified, Value(n \o t)}
            BY <2>3, <3>1
        <3> QED BY <3>2, <3>3 DEF Kept
    <2>6. ASSUME NEW n \in EnumWords, NEW t \in Tails, NEW r \in Tails,
                 e = Enum(n, <<Value(n \o t), Value(n \o r)>>)
          PROVE v = u
        <3>1. e.values = <<Value(n \o t), Value(n \o r)>> /\ e.name = EnumName(n)
            BY <2>6 DEF Enum
        <3>2. v \in {Value(n \o t), Value(n \o r)} /\ u \in {Value(n \o t), Value(n \o r)}
            BY <2>3, <3>1 DEF Kept
        <3>3. \A w \in {Value(n \o t), Value(n \o r)} :
                  camelToScreamingSnake(ValueInfo(e, w).concept) = w
            BY <3>1, ConceptIsValue
        <3> QED BY <1>2, <3>2, <3>3
    <2>7. ASSUME NEW n \in EnumWords, NEW t \in Tails, e = Enum(n, <<Value(t)>>) PROVE v = u
        <3>1. e.values = <<Value(t)>>
            BY <2>7 DEF Enum
        <3> QED BY <2>1, <2>2, <3>1
    <2>9. ASSUME NEW n \in EnumWords, NEW t \in Bare(n), NEW r \in Bare(n),
                 e = Enum(n, <<Value(t), Value(r)>>)
          PROVE v = u
        <3>1. e.values = <<Value(t), Value(r)>> /\ e.name = EnumName(n)
            BY <2>9 DEF Enum
        <3>2. v \in {Value(t), Value(r)} /\ u \in {Value(t), Value(r)}
            BY <2>3, <3>1 DEF Kept
        <3>3. PICK x \in Bare(n) : v = Value(x)
            BY <3>2
        <3>4. PICK y \in Bare(n) : u = Value(y)
            BY <3>2
        <3>5. Cat(EnumName(n), EnumName(x)) = Cat(EnumName(n), EnumName(y))
            <4>1. ValueInfo(e, v).concept = Cat(EnumName(n), EnumName(x))
                BY <3>1, <3>3, BareBecomes
            <4>2. ValueInfo(e, u).concept = Cat(EnumName(n), EnumName(y))
                BY <3>1, <3>4, BareBecomes
            <4> QED BY <1>2, <4>1, <4>2
        <3>6. ASSUME NEW z \in Bare(n)
              PROVE EnumName(z) \in Spelling /\ camelToScreamingSnake(EnumName(z)) = Value(z)
            <4>1. z \in Seq(Word) /\ \A i \in 1..Len(z) : ~z[i].acronym
                BY TailWords DEF Bare
            <4>2. Apart(z)
                <5>1. Len(z) \in Nat
                    BY <4>1, LenProperties
                <5>2. \A i \in 2..Len(z) : i \in 1..Len(z)
                    BY <5>1
                <5> QED BY <4>1, <5>2 DEF Apart
            <4> QED BY <4>1, <4>2, NameType, SnakeBack
        <3>7. EnumName(n) \in Spelling
            BY NameWords, NameType
        <3>8. EnumName(x) = EnumName(y)
            BY <3>5, <3>6, <3>7, SameRest
        <3> QED BY <3>3, <3>4, <3>6, <3>8
    <2>8. \/ \E n \in EnumWords : e = Enum(n, <<Value(n) \o Unspecified>>)
          \/ \E n \in EnumWords, t \in Tails :
                e = Enum(n, <<Value(n) \o Unspecified, Value(n \o t)>>)
          \/ \E n \in EnumWords, t, r \in Tails : e = Enum(n, <<Value(n \o t), Value(n \o r)>>)
          \/ \E n \in EnumWords, t \in Tails : e = Enum(n, <<Value(t)>>)
          \/ \E n \in EnumWords : \E t, r \in Bare(n) : e = Enum(n, <<Value(t), Value(r)>>)
        <3> DEFINE A == {Enum(n, <<Value(n) \o Unspecified>>) : n \in EnumWords}
                   B == {Enum(n, <<Value(n) \o Unspecified, Value(n \o t)>>) :
                            n \in EnumWords, t \in Tails}
                   C == {Enum(n, <<Value(n \o t), Value(n \o r)>>) : n \in EnumWords, t, r \in Tails}
                   D == {Enum(n, <<Value(t)>>) : n \in EnumWords, t \in Tails}
                   E(n) == {Enum(n, <<Value(t), Value(r)>>) : t, r \in Bare(n)}
        <3>1. Alone = A \cup B \cup C \cup D \cup UNION {E(n) : n \in EnumWords}
            BY DEF Alone
        <3>2. CASE e \in A
            BY <3>2
        <3>3. CASE e \in B
            <4> DEFINE values(n, t) == <<Value(n) \o Unspecified, Value(n \o t)>>
            <4>1. e \in {Enum(n, values(n, t)) : n \in EnumWords, t \in Tails}
                BY <3>3
            <4> HIDE DEF values
            <4>2. PICK n \in EnumWords, t \in Tails : e = Enum(n, values(n, t))
                BY <4>1
            <4> QED BY <4>2 DEF values
        <3>4. CASE e \in C
            BY <3>4
        <3>5. CASE e \in D
            BY <3>5
        <3>6. ASSUME NEW n \in EnumWords, e \in E(n)
              PROVE \E t, r \in Bare(n) : e = Enum(n, <<Value(t), Value(r)>>)
            BY <3>6
        <3> HIDE DEF A, B, C, D, E
        <3> QED BY <3>1, <3>2, <3>3, <3>4, <3>5, <3>6
    <2> QED BY <2>4, <2>5, <2>6, <2>7, <2>8, <2>9
<1> QED BY <1>1, <1>2, ApartIfTold

(* The one value of an enum is what the name of its concept says.          *)
LEMMA OneValue ==
    ASSUME NEW e \in WithOneValue
    PROVE \E v \in Spelling :
              /\ e.values = <<v>> /\ Kept(e) \subseteq {v}
              /\ camelToScreamingSnake(ValueInfo(e, v).concept) = v
<1>1. PICK n \in EnumWords, t \in Tails : e = Enum(n, <<Value(n \o t)>>)
    BY DEF WithOneValue
<1>2. e.values = <<Value(n \o t)>> /\ e.name = EnumName(n)
    BY <1>1 DEF Enum
<1>3. Kept(e) \subseteq {Value(n \o t)}
    <2>1. \A w : ToSet(<<w>>) = {w}
        BY DEF ToSet
    <2> QED BY <1>2, <2>1 DEF Kept
<1>4. Value(n \o t) \in Spelling
    BY ValueWords, NameType
<1>5. camelToScreamingSnake(ValueInfo(e, Value(n \o t)).concept) = Value(n \o t)
    BY <1>2, ConceptIsValue
<1> QED BY <1>2, <1>3, <1>4, <1>5

(* In a package of two enums their values differ, and so their concepts    *)
(* do, though the name of the one may begin like the other's.              *)
LEMMA TwoApart ==
    ASSUME NEW f \in WithOneValue \X WithOneValue, Legal(f)
    PROVE ApartIn(<<f>>)
<1>1. f[1] \in WithOneValue /\ f[2] \in WithOneValue /\ Len(f) = 2 /\ ToSet(f) = {f[1], f[2]}
    BY DEF ToSet
<1>2. PICK v \in Spelling :
          /\ f[1].values = <<v>> /\ Kept(f[1]) \subseteq {v}
          /\ camelToScreamingSnake(ValueInfo(f[1], v).concept) = v
    BY <1>1, OneValue
<1>3. PICK u \in Spelling :
          /\ f[2].values = <<u>> /\ Kept(f[2]) \subseteq {u}
          /\ camelToScreamingSnake(ValueInfo(f[2], u).concept) = u
    BY <1>1, OneValue
<1>4. v # u
    <2>1. [i \in 1..Len(f) |-> f[i].values] = << <<v>>, <<u>> >>
        BY <1>1, <1>2, <1>3
    <2>2. FlattenSeq(<< <<v>>, <<u>> >>) = <<v, u>>
        <3> DEFINE one == << <<v>> >>
                   two == << <<v>>, <<u>> >>
        <3>1. <<v>> \in Seq(Spelling) /\ <<u>> \in Seq(Spelling)
              /\ one \in Seq(Seq(Spelling)) /\ two \in Seq(Seq(Spelling))
            OBVIOUS
        <3>2. Len(one) = 1 /\ Len(two) = Len(one) + 1 /\ one[1] = <<v>> /\ two[1] = <<v>>
              /\ two[Len(two)] = <<u>>
            OBVIOUS
        <3>3. <<>> \in Seq(Seq(Spelling)) /\ Len(<<>>) = 0 /\ <<>> \o <<v>> = <<v>>
            OBVIOUS
        <3>4. FlattenSeq(one) = <<v>>
            <4> HIDE DEF one
            <4>1. Len(one) = Len(<<>>) + 1 /\ (\A i \in 1..Len(<<>>) : one[i] = <<>>[i])
                  /\ one[Len(one)] = <<v>>
                BY <3>2, <3>3
            <4>2. FlattenSeq(one) = FlattenSeq(<<>>) \o <<v>>
                BY <3>1, <3>3, <4>1, FlattenOneMore
            <4> QED BY <3>3, <4>2, FlattenEmpty
        <3>5. FlattenSeq(two) = FlattenSeq(one) \o <<u>>
            <4> HIDE DEF one, two
            <4>1. \A i \in 1..Len(one) : two[i] = one[i]
                BY <3>2
            <4> QED BY <3>1, <3>2, <4>1, FlattenOneMore
        <3>6. <<v>> \o <<u>> = <<v, u>>
            <4>1. /\ <<v>> \o <<u>> \in Seq(Spelling) /\ Len(<<v>> \o <<u>>) = 2
                  /\ (<<v>> \o <<u>>)[1] = v /\ (<<v>> \o <<u>>)[2] = u
                BY <3>1, ConcatProperties
            <4>2. <<v, u>> \in Seq(Spelling) /\ Len(<<v, u>>) = 2
                  /\ <<v, u>>[1] = v /\ <<v, u>>[2] = u
                OBVIOUS
            <4> DEFINE a == <<v>> \o <<u>>
                       b == <<v, u>>
            <4>3. a \in Seq(Spelling) /\ b \in Seq(Spelling) /\ Len(a) = Len(b)
                BY <4>1, <4>2
            <4>4. \A i \in 1..Len(a) : a[i] = b[i]
                BY <4>1, <4>2
            <4> HIDE DEF a, b
            <4>5. a = b
                BY <4>3, <4>4, SeqEqual
            <4> QED BY <4>5 DEF a, b
        <3> QED BY <3>4, <3>5, <3>6
    <2>3. IsInjective(<<v, u>>)
        BY <2>1, <2>2 DEF Legal
    <2> QED BY <2>3 DEF IsInjective
<1>5. ASSUME NEW e \in ToSet(f), NEW d \in ToSet(f), NEW w \in Kept(e), NEW x \in Kept(d),
             ValueInfo(e, w).concept = ValueInfo(d, x).concept
      PROVE w = x /\ e = d
    <2>1. w = camelToScreamingSnake(ValueInfo(e, w).concept)
          /\ x = camelToScreamingSnake(ValueInfo(d, x).concept)
        BY <1>1, <1>2, <1>3
    <2>2. w = x
        BY <1>5, <2>1
    <2>3. e = d
        BY <1>1, <1>2, <1>3, <1>4, <2>2
    <2> QED BY <2>2, <2>3
<1> QED BY <1>5, ApartIfTold

(* No two values of a package share a concept and no concept is in two     *)
(* schemes, for any alphabet, words and acronyms, and names of any length. *)
THEOREM ConceptsAreApart == PipelineSpec => []ConceptsApart
<1>1. PackagesApart
    BY AloneApart, TwoApart DEF PackagesApart, Packages
<1> QED BY <1>1, PTL DEF ConceptsApart

(* The vocabulary of an enum with one value has one label, the value's.    *)
LEMMA OneLabel ==
    ASSUME NEW n \in EnumWords, NEW m \in Seq(Word), m # <<>>, NEW label,
           ValueInfo(Enum(n, <<Value(m)>>), Value(m)).label = label
    PROVE LabelsOf(Enum(n, <<Value(m)>>)) = {label}
<1> DEFINE v == Value(m)
           e == Enum(n, <<v>>)
           vocabulary == Vocabulary(<< <<e>> >>)
<1>1. e.values = <<v>>
    BY DEF Enum
<1>2. ValueInfo(e, v).label = label
    OBVIOUS
<1>3. Kept(e) = {v}
    <2>1. ~IsSuffix(Unspecified, v)
        BY ValueWritten
    <2>2. ToSet(<<v>>) = {v}
        BY DEF ToSet
    <2> QED BY <1>1, <2>1, <2>2 DEF Kept
<1> HIDE DEF v, e
<1>4. ToSet(<<e>>) = {e} /\ ToSet(<< <<e>> >>) = {<<e>>}
    BY DEF ToSet
<1>5. \A s \in Of(vocabulary, "prefLabel") : s[3] = label
    <2> SUFFICES ASSUME NEW s \in vocabulary, s[2] = "prefLabel" PROVE s[3] = label
        BY DEF Of
    <2>1. s \in writeEnum(buildEnumInfo(e))
        BY <1>4, OnePackage
    <2>2. buildEnumInfo(e).values = {ValueInfo(e, v)}
        BY <1>3 DEF buildEnumInfo
    <2>3. s = <<ValueInfo(e, v).concept, "prefLabel", ValueInfo(e, v).label>>
        BY <2>1, <2>2, Written
    <2> QED BY <1>2, <2>3
<1>6. \E s \in Of(vocabulary, "prefLabel") : s[3] = label
    <2>1. <<ValueInfo(e, v).concept, "prefLabel", ValueInfo(e, v).label>> \in vocabulary
        BY <1>3, <1>4, EnumIsWritten, ValueIsWritten
    <2>2. <<ValueInfo(e, v).concept, "prefLabel", label>> \in Of(vocabulary, "prefLabel")
        BY <1>2, <2>1 DEF Of
    <2> QED BY <2>2
<1> HIDE DEF vocabulary
<1> QED BY <1>5, <1>6 DEF LabelsOf, vocabulary, e, v

(* The label of a value has its words, that of a scheme the enum's.        *)
LEMMA NamesAreReadable == NamesReadable
<1> SUFFICES ASSUME NEW n \in EnumWords PROVE ReadableFor(n)
    BY DEF NamesReadable
<1>1. ASSUME NEW values PROVE Enum(n, values).name = EnumName(n)
    BY DEF Enum
<1>2. ASSUME NEW t \in Tails PROVE LabelsOf(Enum(n, <<Value(n \o t)>>)) = {Title(t)}
    <2>1. ValueInfo(Enum(n, <<Value(n \o t)>>), Value(n \o t)).label = Title(t)
        BY <1>1, ValueBecomes
    <2> QED BY <2>1, ValueWords, OneLabel
<1>3. ASSUME NEW t \in Bare(n) PROVE LabelsOf(Enum(n, <<Value(t)>>)) = {Title(t)}
    <2>1. ValueInfo(Enum(n, <<Value(t)>>), Value(t)).label = Title(t)
        BY <1>1, BareBecomes
    <2>2. t \in Seq(Word) /\ t # <<>>
        BY TailWords DEF Bare
    <2> QED BY <2>1, <2>2, OneLabel
<1>4. (\A i \in 2..Len(n) : ~n[i].acronym) => splitCamel(EnumName(n)) = EnumTitle(n)
    BY NameWords, SplitBack
<1> QED BY <1>2, <1>3, <1>4 DEF ReadableFor

(* Labels have the words that the names were made of, for any of them:     *)
(* those of a value without its enum's if it carries the name, all of them *)
(* if it does not, and those of an enum unless an acronym comes after its  *)
(* first word.                                                             *)
THEOREM LabelsAreReadable == PipelineSpec => []LabelsReadLikeNames
<1>1. LabelsReadLikeNames
    BY NamesAreReadable DEF LabelsReadLikeNames
<1> QED BY <1>1, PTL
=============================================================================
