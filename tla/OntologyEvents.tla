---------------------------- MODULE OntologyEvents ----------------------------
(***************************************************************************)
(* The JSON-LD documents of internal/ontology: an Event is built from a    *)
(* saved row and rendered as one object, its properties over the envelope. *)
(* An IRI is the pair of its class and the identifier of its row, a time   *)
(* is a number (0 is the zero time), the skills of a match are their       *)
(* number, and the context, the same in every document, is left out.       *)
(*                                                                         *)
(* A map gives each of its keys a set: {value}, or {} if it does not have  *)
(* that key after all.  The prefixes of keys are left out.                 *)
(***************************************************************************)
EXTENDS Naturals

CONSTANTS
    Id,   \* identifiers of rows
    Text, \* what a column of text may hold, if anything
    Most, \* how many entries a list may have
    Now   \* what the clock says when an event is built

ASSUME NowAssumption == Now \in Nat \ {0}

IRI(class, id) == <<class, id>>

ValueOf(map, key) == IF key \in DOMAIN map THEN map[key] ELSE {}

(* Where two maps have a key, the value of the upper one counts.           *)
Override(upper, lower) ==
    [key \in DOMAIN upper \cup DOMAIN lower |->
        IF ValueOf(upper, key) # {} THEN upper[key] ELSE ValueOf(lower, key)]

Envelope(event) ==
    [id |-> {event.id}, type |-> {event.type}, dateModified |-> {event.timestamp} \ {0}]

(* Mutant: the envelope goes over the properties.                          *)
EnvelopeOverProperties(event) == Override(Envelope(event), event.props)
MarshalJSON(event) == Override(event.props, Envelope(event))

-----------------------------------------------------------------------------
(* The builders.                                                           *)

UserRow ==
    [id : Id, email : Text, name : Text, role : Text,
     username : {""} \cup Text, avatar : {""} \cup Text,
     createdAt : 1..Now, updatedAt : 0..Now, lastLoginAt : {0, Now},
     verifiedAt : {0, Now}, active : BOOLEAN]

NewUserRegisteredEvent(user) ==
    [id |-> IRI("User", user.id), type |-> "User", timestamp |-> user.createdAt,
     props |->
        [email |-> {user.email}, name |-> {user.name},
         isActive |-> {user.active}, role |-> {user.role},
         alternateName |-> {user.username} \ {""}, image |-> {user.avatar} \ {""},
         dateModified |-> {user.updatedAt} \ {0, user.createdAt},
         lastReviewed |-> {user.lastLoginAt} \ {0},
         isVerified |-> {user.verifiedAt # 0} \ {FALSE}]]

(* The offers of one side: a list of texts, empty if none are.             *)
Lists == UNION {[1..n -> Text] : n \in 0..Most}
SessionRow ==
    [id : Id, initiator : Id, partner : Id, status : {""} \cup Text,
     start : 0..Now, end : 0..Now, url : {""} \cup Text, notes : {""} \cup Text,
     initiatorOffers : Lists, partnerOffers : Lists, premium : BOOLEAN, createdAt : 1..Now]

(* Mutant: a session without a start has no end either.                    *)
NewSessionUnscheduledEvent(session) ==
    [id |-> IRI("Session", session.id), type |-> "Session", timestamp |-> Now,
     props |->
        [initiatedBy |-> {IRI("User", session.initiator)},
         hasParticipant |->
            {<<IRI("User", session.initiator), IRI("User", session.partner)>>},
         isPremium |-> {session.premium},
         scheduledStart |-> {session.start} \ {0},
         scheduledEnd |-> IF session.start = 0 THEN {} ELSE {session.end}]]
NewSessionScheduledEvent(session) ==
    [id |-> IRI("Session", session.id), type |-> "Session", timestamp |-> Now,
     props |->
        [initiatedBy |-> {IRI("User", session.initiator)},
         hasParticipant |->
            {<<IRI("User", session.initiator), IRI("User", session.partner)>>},
         isPremium |-> {session.premium},
         sessionStatus |-> {session.status} \ {""},
         scheduledStart |-> {session.start} \ {0},
         scheduledEnd |-> {session.end} \ {0},
         meetingUrl |-> {session.url} \ {""},
         sessionNotes |-> {session.notes} \ {""},
         initiatorOffers |-> {session.initiatorOffers} \ {<<>>},
         partnerOffers |-> {session.partnerOffers} \ {<<>>}]]

(* A score is negative, none, a number, or infinite.                       *)
MatchRow ==
    [id : Id, requester : Id, candidate : Id, algorithm : {""} \cup Text,
     score : {"negative", "zero", "number", "infinite"},
     explanation : {""} \cup Text, skills : 0..Most]

(* A UUID always formats as text, so the identifier made up of the two     *)
(* users and the time is never used.                                       *)
NewMatchEvent(match) ==
    [id |-> IRI("Match", match.id), type |-> "Match", timestamp |-> Now,
     props |->
        [hasMatch |-> {IRI("User", match.requester)},
         matchTarget |-> {IRI("User", match.candidate)},
         matchingAlgorithm |-> {match.algorithm} \ {""},
         matchScore |-> {match.score} \ {"negative", "zero"},
         explanation |-> {match.explanation} \ {""},
         skillMatches |-> {match.skills} \ {0}]]

(* encoding/json has no form for an infinite number.                       *)
Marshals(event) == "infinite" \notin ValueOf(event.props, "matchScore")

-----------------------------------------------------------------------------
(* What the documents should say of any row.                               *)

(* The document is about the row it was built from, and its dateModified   *)
(* is the last change the row knows of.                                    *)
Describes(event, class, id, changed) ==
    LET document == MarshalJSON(event) IN
    /\ document.id = {IRI(class, id)}
    /\ document.type = {class}
    /\ document.dateModified = {changed}

Latest(s, t) == IF s < t THEN t ELSE s

UsersDescribed ==
    \A user \in {u \in UserRow : u.updatedAt = 0 \/ u.updatedAt >= u.createdAt} :
        Describes(NewUserRegisteredEvent(user), "User", user.id,
                  Latest(user.createdAt, user.updatedAt))
SessionsDescribed ==
    \A session \in SessionRow :
        Describes(NewSessionScheduledEvent(session), "Session", session.id, Now)
MatchesDescribed ==
    \A match \in MatchRow :
        Describes(NewMatchEvent(match), "Match", match.id, Now)

(* The session a reader of a document takes it for: what is not there is   *)
(* empty.                                                                  *)
ReadOr(document, key, default) ==
    IF ValueOf(document, key) = {} THEN default
    ELSE CHOOSE value \in document[key] : TRUE
SessionRead(document) ==
    LET participants == ReadOr(document, "hasParticipant", <<>>) IN
    [id |-> ReadOr(document, "id", <<>>)[2],
     initiator |-> participants[1][2], partner |-> participants[2][2],
     status |-> ReadOr(document, "sessionStatus", ""),
     start |-> ReadOr(document, "scheduledStart", 0),
     end |-> ReadOr(document, "scheduledEnd", 0),
     url |-> ReadOr(document, "meetingUrl", ""),
     notes |-> ReadOr(document, "sessionNotes", ""),
     initiatorOffers |-> ReadOr(document, "initiatorOffers", <<>>),
     partnerOffers |-> ReadOr(document, "partnerOffers", <<>>),
     premium |-> ReadOr(document, "isPremium", FALSE)]


(* What is told of a session: all of its row but createdAt, which the      *)
(* service does not hand to the builder.                                   *)
Told(session) ==
    [key \in DOMAIN session \ {"createdAt"} |-> session[key]]
SessionsToldApart ==
    \A session \in SessionRow :
        SessionRead(MarshalJSON(NewSessionScheduledEvent(session))) = Told(session)
=============================================================================
