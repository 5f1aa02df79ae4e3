---------------------------- MODULE MCEventPipeline ----------------------------
(***************************************************************************)
(* EventPipeline on a small instance, with the documents of OntologyEvents *)
(* for its events: a session, a match, and a match whose score overflowed. *)
(* Which of them json.Marshal refuses follows from what they hold.  With   *)
(* them, the vocabulary that their statuses and algorithms come from.      *)
(***************************************************************************)
EXTENDS EventPipeline, OntologyEvents, OntologyGenerator

Calls == {"session", "match", "infinite match"}

(* Words that begin like one another, so that names may run together.      *)
TwoLetters == [a |-> "A", b |-> "B"]
TwoWords == {<<"a", "b">>, <<"a", "b", "a", "b">>}
OneAcronym == {<<"a", "b">>}

ASession == CHOOSE s \in SessionRow : TRUE
AMatch(score) == CHOOSE m \in MatchRow : m.score = score

EventOf(e) ==
    CASE e = "session" -> NewSessionScheduledEvent(ASession)
      [] e = "match" -> NewMatchEvent(AMatch("number"))
      [] e = "infinite match" -> NewMatchEvent(AMatch("infinite"))

ASSUME UnmarshalableIsRefused == Unmarshalable = {e \in Calls : ~Marshals(EventOf(e))}

-----------------------------------------------------------------------------
(* Properties.                                                             *)

(* Whatever row of its kind an event stands for, the document that is sent *)
(* is about that row, at the time of its last change: the builders let the *)
(* properties override the envelope's timestamp, never its name.           *)
DocumentsDescribeRows ==
    /\ UsersDescribed
    /\ "session" \in Accepted => SessionsDescribed
    /\ "match" \in Accepted => MatchesDescribed

(* What a document leaves out of a session was empty, its offers and their *)
(* order included, but for the time the session was created at, which no   *)
(* document tells: a reader gets the rest of the row back, and two         *)
(* sessions with one document differ in that time at most.                 *)
DocumentsTellRowsApart ==
    "session" \in Accepted => SessionsToldApart

(* No two values of a package share a concept, and no concept has two      *)
(* schemes, though the generator glues the names of enum and value         *)
(* together and drops the underscores: that value names are unique in a    *)
(* package, and carry their enum's name, keeps the enums Skill and         *)
(* SkillLevel apart.                                                       *)
ConceptsApart == "session" \in Accepted => PackagesApart

(* Labels are for people: that of a value has its words, without those of  *)
(* its enum's name, if it begins with the name that the generator recovers *)
(* from the enum's capitals, and all of its words if it does not, as the   *)
(* values of OAuthProvider (OAUTH_..., where O_AUTH_... is recovered); that *)
(* of a scheme has the words of the enum's name, provided an acronym comes *)
(* first or not at all.                                                    *)
LabelsReadLikeNames == "session" \in Accepted => NamesReadable
=============================================================================
