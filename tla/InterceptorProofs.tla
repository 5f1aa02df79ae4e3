---------------------------- MODULE InterceptorProofs ----------------------------
(***************************************************************************)
(* What the interceptor chain guarantees for any number of requests and    *)
(* any limiter, proved.                                                    *)
(***************************************************************************)
EXTENDS InterceptorChain, FiniteSetTheorems, TLAPS

-----------------------------------------------------------------------------
(* The inductive invariant, in parts.                                      *)

(* Is a request whose state is q in the call of the i-th interceptor?      *)
Inside(q, i) == (q.dir = "down" /\ q.at > i) \/ (q.dir = "up" /\ q.at >= i)

(* The span is open exactly inside the second interceptor, and no panic    *)
(* comes back past the fifth until the first one raises its own.           *)
Good(q) ==
    /\ q \in RequestState
    /\ q.dir = "idle" => q.at = 0
    /\ q.dir = "down" => q.at >= 1
    /\ q.dir = "up" => q.at <= 10
    /\ q.dir = "down" /\ q.at <= 2 => q.span = "none"
    /\ Inside(q, 2) => q.span = "open"
    /\ q.dir = "up" /\ q.at < 2 => q.span = "ended"
    /\ q.dir = "done" => q.span = "ended"
    /\ q.dir = "up" /\ q.outcome = "panic" => q.at >= 5 \/ q.at = 0

(* The tokens a bucket holds and those it has given out are its burst and  *)
(* what it was credited for the time up to its last decision.              *)
Bucket ==
    /\ limiter.last <= now
    /\ \A r \in Request : req[r].reading # None => req[r].reading <= now
    /\ limiter.tokens + admitted <= Burst + Rate * (limiter.last + late)

InterceptorInv ==
    TypeOK /\ (\A r \in Request : Good(req[r])) /\ Bucket /\ ActiveExact

-----------------------------------------------------------------------------
(* Positions in the chain.                                                 *)

LEMMA ChainLength == Len(Chain) = 10 /\ DOMAIN Chain = 1..10
BY DEF Chain

LEMMA Positions ==
    ASSUME NEW i \in 1..10
    PROVE  /\ Chain[i] = "requestID" <=> i = 1
           /\ Chain[i] = "tracing" <=> i = 2
           /\ Chain[i] = "validation" <=> i = 3
           /\ Chain[i] = "rateLimit" <=> i = 4
           /\ Chain[i] = "recovery" <=> i = 5
           /\ Chain[i] = "logging" <=> i = 6
           /\ Chain[i] = "auth" <=> i = 7
           /\ Chain[i] = "gauge" <=> i = 8
           /\ Chain[i] = "histogram" <=> i = 9
           /\ Chain[i] = "counter" <=> i = 10
<1>1. \/ i = 1 \/ i = 2 \/ i = 3 \/ i = 4 \/ i = 5
      \/ i = 6 \/ i = 7 \/ i = 8 \/ i = 9 \/ i = 10
  OBVIOUS
<1>2. /\ Chain[1] = "requestID" /\ Chain[2] = "tracing" /\ Chain[3] = "validation"
      /\ Chain[4] = "rateLimit" /\ Chain[5] = "recovery" /\ Chain[6] = "logging"
      /\ Chain[7] = "auth" /\ Chain[8] = "gauge" /\ Chain[9] = "histogram"
      /\ Chain[10] = "counter"
  BY DEF Chain
<1> QED BY <1>1, <1>2

(* A request in the gauge's call is past the eighth interceptor.           *)
LEMMA WithinGauge ==
    ASSUME NEW r \in Request
    PROVE  Within(r, "gauge") <=> Inside(req[r], 8)
BY ChainLength, Positions DEF Within, Inside

LEMMA WithinGaugeNext ==
    ASSUME NEW r \in Request
    PROVE  (Within(r, "gauge") <=> Inside(req[r], 8))'
BY ChainLength, Positions DEF Within, Inside

-----------------------------------------------------------------------------
(* One step of a request.                                                  *)

(* What a step leaves: the gauge moves when the request passes it.         *)
Stays(p, q) ==
    /\ Inside(q, 8) <=> Inside(p, 8)
    /\ Inside(q, 8) => q.procedure = p.procedure
Leg(r, q) ==
    /\ q \in RequestState /\ Good(q)
    /\ q.reading \in {None, req[r].reading, now}
    /\ \/ Stays(req[r], q) /\ active' = active
       \/ /\ ~Inside(req[r], 8) /\ Inside(q, 8) /\ q.procedure = req[r].procedure
          /\ active' = Bump(active, r, 1)
       \/ /\ Inside(req[r], 8) /\ ~Inside(q, 8)
          /\ active' = Bump(active, r, -1)
Moves(r) == \E q : Becomes(r, q) /\ Leg(r, q)

(* What moving through the chain does to a request's state.                *)
LEMMA Descends ==
    ASSUME NEW p \in RequestState, p.at <= 10
    PROVE  /\ Descend(p) \in RequestState
           /\ Descend(p).at = p.at + 1 /\ Descend(p).dir = p.dir
           /\ Descend(p).span = p.span /\ Descend(p).outcome = p.outcome
           /\ Descend(p).reading = p.reading /\ Descend(p).procedure = p.procedure
           /\ Descend(p).handled = p.handled
BY ChainLength DEF Descend, RequestState

LEMMA Ascends ==
    ASSUME NEW p \in RequestState, p.at >= 1
    PROVE  /\ Ascend(p) \in RequestState
           /\ Ascend(p).at = p.at - 1 /\ Ascend(p).dir = p.dir
           /\ Ascend(p).span = p.span /\ Ascend(p).outcome = p.outcome
           /\ Ascend(p).reading = p.reading /\ Ascend(p).procedure = p.procedure
           /\ Ascend(p).handled = p.handled
BY ChainLength DEF Ascend, RequestState

LEMMA Refuses ==
    ASSUME NEW p \in RequestState, p.at >= 1
    PROVE  /\ Refuse(p) \in RequestState
           /\ Refuse(p).at = p.at - 1 /\ Refuse(p).dir = "up"
           /\ Refuse(p).span = p.span /\ Refuse(p).outcome = "refused"
           /\ Refuse(p).reading = p.reading /\ Refuse(p).procedure = p.procedure
           /\ Refuse(p).handled = p.handled
<1> DEFINE a == p.at - 1
           o == "refused"
<1>1. a \in 0..Len(Chain) + 1 /\ o \in Outcome \cup {None}
  BY ChainLength DEF RequestState, Outcome
<1>2. Refuse(p) = [p EXCEPT !.dir = "up", !.at = a, !.outcome = o]
  BY DEF Refuse
<1> HIDE DEF a, o
<1>3. /\ Refuse(p) \in RequestState
      /\ Refuse(p).at = a /\ Refuse(p).dir = "up" /\ Refuse(p).outcome = o
      /\ Refuse(p).span = p.span /\ Refuse(p).reading = p.reading
      /\ Refuse(p).procedure = p.procedure /\ Refuse(p).handled = p.handled
  BY <1>1, <1>2 DEF RequestState
<1> QED BY <1>3 DEF a, o

(* The same in terms of an interceptor on the request's way.               *)
LEMMA OnTheWay ==
    ASSUME NEW r \in Request, Good(req[r])
    PROVE  /\ req[r] \in RequestState
           /\ \A d \in {"down", "up"} :
              /\ At(r, "requestID", d) => req[r].dir = d /\ req[r].at = 1
              /\ At(r, "tracing", d) => req[r].dir = d /\ req[r].at = 2
              /\ At(r, "validation", d) => req[r].dir = d /\ req[r].at = 3
              /\ At(r, "rateLimit", d) => req[r].dir = d /\ req[r].at = 4
              /\ At(r, "recovery", d) => req[r].dir = d /\ req[r].at = 5
              /\ At(r, "logging", d) => req[r].dir = d /\ req[r].at = 6
              /\ At(r, "auth", d) => req[r].dir = d /\ req[r].at = 7
              /\ At(r, "gauge", d) => req[r].dir = d /\ req[r].at = 8
              /\ At(r, "histogram", d) => req[r].dir = d /\ req[r].at = 9
              /\ At(r, "counter", d) => req[r].dir = d /\ req[r].at = 10
BY ChainLength, Positions DEF At, Good

(* Past the chain's ends, and interceptors that only call the next.        *)
LEMMA PlainSteps ==
    ASSUME NEW r \in Request, Good(req[r]), now \in Nat,
           Arrive(r) \/ Handle(r) \/ Serve(r) \/ Pass(r)
    PROVE  Moves(r)
<1> DEFINE p == req[r]
<1>0. p \in RequestState /\ active' = active
  BY DEF Good, Arrive, Handle, Serve, Pass, Quiet, collectors
<1>1. CASE Arrive(r)
  <2>1. PICK m \in Procedure :
           Becomes(r, [Idle EXCEPT !.dir = "down", !.at = 1, !.procedure = m])
    BY <1>1 DEF Arrive
  <2> DEFINE q == [Idle EXCEPT !.dir = "down", !.at = 1, !.procedure = m]
  <2>2. q \in RequestState /\ q.dir = "down" /\ q.at = 1 /\ q.span = "none" /\ q.reading = None
    <3>1. Idle \in RequestState
      BY ChainLength DEF Idle, RequestState
    <3>2. 1 \in 0..Len(Chain) + 1
      BY ChainLength
    <3>3. q \in RequestState
      BY <3>1, <3>2 DEF RequestState
    <3> QED BY <3>3 DEF Idle
  <2> HIDE DEF q
  <2>3. p.dir = "idle"
    BY <1>1 DEF Arrive
  <2>4. Good(q) /\ Stays(p, q)
    BY <1>0, <2>2, <2>3 DEF Good, Inside, Stays
  <2> QED BY <1>0, <2>1, <2>2, <2>4 DEF Moves, Leg, q
<1>2. CASE Handle(r)
  <2>1. PICK o \in Outcome :
           Becomes(r, [Ascend(p) EXCEPT !.dir = "up", !.outcome = o, !.handled = o])
    BY <1>2 DEF Handle
  <2> DEFINE q == [Ascend(p) EXCEPT !.dir = "up", !.outcome = o, !.handled = o]
  <2>2. p.dir = "down" /\ p.at = 11
    <3>1. p.dir = "down" /\ p.at = Len(Chain) + 1
      BY <1>2 DEF Handle
    <3> QED BY <3>1, ChainLength
  <2> DEFINE a == Ascend(p)
  <2>a. a \in RequestState /\ a.at = 10 /\ a.span = p.span
        /\ a.reading = p.reading /\ a.procedure = p.procedure
    BY <1>0, <2>2, Ascends
  <2> HIDE DEF a
  <2>3. q \in RequestState /\ q.dir = "up" /\ q.at = 10 /\ q.span = p.span
        /\ q.reading = p.reading /\ q.procedure = p.procedure
    <3>1. q = [a EXCEPT !.dir = "up", !.outcome = o, !.handled = o]
      BY DEF a
    <3> HIDE DEF q
    <3>2. o \in Outcome \cup {None}
      OBVIOUS
    <3> QED BY <2>a, <3>1, <3>2 DEF RequestState
  <2> HIDE DEF q
  <2>4. Good(q) /\ Stays(p, q)
    BY <1>0, <2>2, <2>3 DEF Good, Inside, Stays
  <2> QED BY <1>0, <2>1, <2>3, <2>4 DEF Moves, Leg, q
<1>3. CASE Serve(r)
  <2> DEFINE q == [p EXCEPT !.dir = "done"]
  <2>1. p.dir = "up" /\ p.at = 0 /\ Becomes(r, q)
    BY <1>3 DEF Serve
  <2>2. q \in RequestState /\ q.dir = "done" /\ q.at = 0 /\ q.span = p.span
        /\ q.reading = p.reading
    BY <1>0, <2>1 DEF RequestState
  <2> HIDE DEF q
  <2>3. Good(q) /\ Stays(p, q)
    BY <1>0, <2>1, <2>2 DEF Good, Inside, Stays
  <2> QED BY <1>0, <2>1, <2>2, <2>3 DEF Moves, Leg
<1>4. CASE \E layer \in {"requestID", "recovery", "logging", "histogram", "counter"} :
              At(r, layer, "down") /\ Becomes(r, Descend(p))
  <2> DEFINE q == Descend(p)
  <2>1. p.dir = "down" /\ p.at \in {1, 5, 6, 9, 10} /\ Becomes(r, q)
    BY <1>4, OnTheWay
  <2>2. q \in RequestState /\ q.dir = "down" /\ q.at = p.at + 1 /\ q.span = p.span
        /\ q.reading = p.reading /\ q.procedure = p.procedure
    BY <1>0, <2>1, Descends
  <2> HIDE DEF q
  <2>3. Good(q) /\ Stays(p, q)
    BY <1>0, <2>1, <2>2 DEF Good, Inside, Stays
  <2> QED BY <1>0, <2>1, <2>2, <2>3 DEF Moves, Leg
<1>5. CASE \E layer \in {"validation", "rateLimit", "logging", "auth"} :
              At(r, layer, "up") /\ Becomes(r, Ascend(p))
  <2> DEFINE q == Ascend(p)
  <2>1. p.dir = "up" /\ p.at \in {3, 4, 6, 7} /\ Becomes(r, q)
    BY <1>5, OnTheWay
  <2>2. q \in RequestState /\ q.dir = "up" /\ q.at = p.at - 1 /\ q.span = p.span
        /\ q.reading = p.reading /\ q.procedure = p.procedure /\ q.outcome = p.outcome
    BY <1>0, <2>1, Ascends
  <2> HIDE DEF q
  <2>3. Good(q) /\ Stays(p, q)
    BY <1>0, <2>1, <2>2 DEF Good, Inside, Stays
  <2> QED BY <1>0, <2>1, <2>2, <2>3 DEF Moves, Leg
<1> QED BY <1>1, <1>2, <1>3, <1>4, <1>5 DEF Pass

(* The interceptors that may answer themselves.                            *)
LEMMA Refusals ==
    ASSUME NEW r \in Request, Good(req[r]), now \in Nat, active' = active,
           req[r].dir = "down", req[r].at \in {3, 4, 7},
           Becomes(r, Descend(req[r])) \/ Becomes(r, Refuse(req[r]))
    PROVE  Moves(r)
<1> DEFINE p == req[r]
<1>0. p \in RequestState
  BY DEF Good
<1>1. CASE Becomes(r, Descend(p))
  <2> DEFINE q == Descend(p)
  <2>1. q \in RequestState /\ q.dir = "down" /\ q.at = p.at + 1 /\ q.span = p.span
        /\ q.reading = p.reading /\ q.procedure = p.procedure
    BY <1>0, Descends
  <2> HIDE DEF q
  <2>2. Good(q) /\ Stays(p, q)
    BY <1>0, <2>1 DEF Good, Inside, Stays
  <2> QED BY <1>1, <2>1, <2>2 DEF Moves, Leg, q
<1>2. CASE Becomes(r, Refuse(p))
  <2> DEFINE q == Refuse(p)
  <2>1. q \in RequestState /\ q.dir = "up" /\ q.at = p.at - 1 /\ q.span = p.span
        /\ q.reading = p.reading /\ q.outcome = "refused"
    BY <1>0, Refuses
  <2> HIDE DEF q
  <2>2. Good(q) /\ Stays(p, q)
    BY <1>0, <2>1 DEF Good, Inside, Stays
  <2> QED BY <1>2, <2>1, <2>2 DEF Moves, Leg, q
<1> QED BY <1>1, <1>2

LEMMA RefusingSteps ==
    ASSUME NEW r \in Request, Good(req[r]), now \in Nat,
           ValidationBefore(r) \/ AuthBefore(r)
    PROVE  Moves(r)
<1>1. active' = active
  BY DEF ValidationBefore, AuthBefore, Quiet, collectors
<1>2. req[r].dir = "down" /\ req[r].at \in {3, 7}
  BY OnTheWay DEF ValidationBefore, AuthBefore
<1>3. Becomes(r, Descend(req[r])) \/ Becomes(r, Refuse(req[r]))
  BY DEF ValidationBefore, AuthBefore
<1> QED BY <1>1, <1>2, <1>3, Refusals

(* The limiter: the reading is taken, and then used up.                    *)
LEMMA LimiterSteps ==
    ASSUME NEW r \in Request, Good(req[r]), now \in Nat,
           RateLimitReads(r) \/ RateLimitDecides(r)
    PROVE  Moves(r)
<1> DEFINE p == req[r]
<1>0. p \in RequestState /\ p.dir = "down" /\ p.at = 4 /\ active' = active
  BY OnTheWay DEF RateLimitReads, RateLimitDecides, Quiet, collectors
<1>1. CASE RateLimitReads(r)
  <2> DEFINE q == [p EXCEPT !.reading = now]
  <2>1. Becomes(r, q)
    BY <1>1 DEF RateLimitReads
  <2>2. q \in RequestState /\ q.dir = p.dir /\ q.at = p.at /\ q.span = p.span
        /\ q.reading = now /\ q.procedure = p.procedure
    BY <1>0 DEF RequestState
  <2> HIDE DEF q
  <2>3. Good(q) /\ Stays(p, q)
    BY <1>0, <2>2 DEF Good, Inside, Stays
  <2> QED BY <1>0, <2>1, <2>2, <2>3 DEF Moves, Leg
<1>2. CASE RateLimitDecides(r)
  <2> DEFINE d == Decided(p)
  <2>1. d \in RequestState /\ d.dir = p.dir /\ d.at = p.at /\ d.span = p.span
        /\ d.reading = None /\ d.procedure = p.procedure
    BY <1>0 DEF Decided, RequestState
  <2>2. Becomes(r, Descend(d)) \/ Becomes(r, Refuse(d))
    BY <1>2 DEF RateLimitDecides
  <2> HIDE DEF d
  <2>3. CASE Becomes(r, Descend(d))
    <3> DEFINE q == Descend(d)
    <3>1. q \in RequestState /\ q.dir = "down" /\ q.at = 5 /\ q.span = p.span
          /\ q.reading = None /\ q.procedure = p.procedure
      BY <1>0, <2>1, Descends
    <3> HIDE DEF q
    <3>2. Good(q) /\ Stays(p, q)
      BY <1>0, <3>1 DEF Good, Inside, Stays
    <3> QED BY <1>0, <2>3, <3>1, <3>2 DEF Moves, Leg, q
  <2>4. CASE Becomes(r, Refuse(d))
    <3> DEFINE q == Refuse(d)
    <3>1. q \in RequestState /\ q.dir = "up" /\ q.at = 3 /\ q.span = p.span
          /\ q.reading = None /\ q.outcome = "refused"
      BY <1>0, <2>1, Refuses
    <3> HIDE DEF q
    <3>2. Good(q) /\ Stays(p, q)
      BY <1>0, <3>1 DEF Good, Inside, Stays
    <3> QED BY <1>0, <2>4, <3>1, <3>2 DEF Moves, Leg, q
  <2> QED BY <2>2, <2>3, <2>4
<1> QED BY <1>1, <1>2

(* The span opens and closes with the second interceptor.                  *)
LEMMA TracingSteps ==
    ASSUME NEW r \in Request, Good(req[r]), now \in Nat,
           TracingBefore(r) \/ TracingAfter(r)
    PROVE  Moves(r)
<1> DEFINE p == req[r]
<1>0. p \in RequestState /\ p.at = 2 /\ active' = active
  BY OnTheWay DEF TracingBefore, TracingAfter, Quiet, collectors
<1>1. CASE TracingBefore(r)
  <2> DEFINE d == Descend(p)
             q == [d EXCEPT !.span = "open"]
  <2>1. p.dir = "down" /\ Becomes(r, q)
    BY <1>1, OnTheWay DEF TracingBefore
  <2>2. d \in RequestState /\ d.dir = "down" /\ d.at = 3
        /\ d.reading = p.reading /\ d.procedure = p.procedure
    BY <1>0, <2>1, Descends
  <2> HIDE DEF d
  <2>3. q \in RequestState /\ q.dir = "down" /\ q.at = 3 /\ q.span = "open"
        /\ q.reading = p.reading /\ q.procedure = p.procedure
    BY <2>2 DEF RequestState
  <2> HIDE DEF q
  <2>4. Good(q) /\ Stays(p, q)
    BY <1>0, <2>1, <2>3 DEF Good, Inside, Stays
  <2> QED BY <1>0, <2>1, <2>3, <2>4 DEF Moves, Leg
<1>2. CASE TracingAfter(r)
  <2> DEFINE a == Ascend(p)
             q == [a EXCEPT !.span = "ended"]
  <2>1. p.dir = "up" /\ p.outcome # "panic"
    BY <1>0, <1>2, OnTheWay DEF TracingAfter, Good
  <2>2. Becomes(r, q)
    BY <1>2, <2>1 DEF TracingAfter, Panics
  <2>3. a \in RequestState /\ a.dir = "up" /\ a.at = 1 /\ a.outcome = p.outcome
        /\ a.reading = p.reading /\ a.procedure = p.procedure
    BY <1>0, <2>1, Ascends
  <2> HIDE DEF a
  <2>4. q \in RequestState /\ q.dir = "up" /\ q.at = 1 /\ q.span = "ended"
        /\ q.reading = p.reading /\ q.outcome = p.outcome
    BY <2>3 DEF RequestState
  <2> HIDE DEF q
  <2>5. Good(q) /\ Stays(p, q)
    BY <1>0, <2>1, <2>4 DEF Good, Inside, Stays
  <2> QED BY <1>0, <2>2, <2>4, <2>5 DEF Moves, Leg
<1> QED BY <1>1, <1>2

(* Panics: one interceptor turns them into errors, another raises its own. *)
LEMMA PanicSteps ==
    ASSUME NEW r \in Request, Good(req[r]), now \in Nat,
           RequestIDAfter(r) \/ RecoveryAfter(r)
    PROVE  Moves(r)
<1> DEFINE p == req[r]
           a == Ascend(p)
<1>0. /\ p \in RequestState /\ p.dir = "up" /\ active' = active
      /\ RequestIDAfter(r) => p.at = 1
      /\ RecoveryAfter(r) => p.at = 5
  BY OnTheWay DEF RequestIDAfter, RecoveryAfter, Quiet, collectors
<1>1. a \in RequestState /\ a.dir = "up" /\ a.at = p.at - 1 /\ a.span = p.span
      /\ a.outcome = p.outcome /\ a.reading = p.reading
  BY <1>0, Ascends
<1>2. \/ Becomes(r, a) /\ (RecoveryAfter(r) => p.outcome # "panic")
      \/ Becomes(r, [a EXCEPT !.outcome = "panic"]) /\ RequestIDAfter(r)
      \/ Becomes(r, [a EXCEPT !.outcome = "refused"]) /\ RecoveryAfter(r)
  BY DEF RequestIDAfter, RecoveryAfter, Panics
<1> HIDE DEF a
<1>3. CASE Becomes(r, a) /\ (RecoveryAfter(r) => p.outcome # "panic")
  <2>1. Good(a) /\ Stays(p, a)
    BY <1>0, <1>1, <1>3 DEF Good, Inside, Stays
  <2> QED BY <1>0, <1>1, <1>3, <2>1 DEF Moves, Leg
<1>4. ASSUME NEW o \in {"panic", "refused"}, Becomes(r, [a EXCEPT !.outcome = o]),
             o = "panic" => RequestIDAfter(r)
      PROVE  Moves(r)
  <2> DEFINE q == [a EXCEPT !.outcome = o]
  <2>1. o \in Outcome \cup {None}
    BY DEF Outcome
  <2>2. q \in RequestState /\ q.dir = "up" /\ q.at = p.at - 1 /\ q.span = p.span
        /\ q.outcome = o /\ q.reading = p.reading
    BY <1>1, <2>1 DEF RequestState
  <2> HIDE DEF q
  <2>3. Good(q) /\ Stays(p, q)
    BY <1>0, <1>4, <2>2 DEF Good, Inside, Stays
  <2> QED BY <1>0, <1>4, <2>2, <2>3 DEF Moves, Leg, q
<1> QED BY <1>2, <1>3, <1>4

(* The gauge is entered and left with the eighth interceptor.              *)
LEMMA MetricsSteps ==
    ASSUME NEW r \in Request, Good(req[r]), now \in Nat,
           GaugeBefore(r) \/ GaugeAfter(r) \/ HistogramAfter(r) \/ CounterAfter(r)
    PROVE  Moves(r)
<1> DEFINE p == req[r]
<1>0. p \in RequestState
  BY DEF Good
<1>1. CASE GaugeBefore(r)
  <2> DEFINE q == Descend(p)
  <2>1. p.dir = "down" /\ p.at = 8 /\ Becomes(r, q) /\ active' = Bump(active, r, 1)
    BY <1>1, OnTheWay DEF GaugeBefore
  <2>2. q \in RequestState /\ q.dir = "down" /\ q.at = 9 /\ q.span = p.span
        /\ q.reading = p.reading /\ q.procedure = p.procedure
    BY <1>0, <2>1, Descends
  <2> HIDE DEF q
  <2>3. Good(q) /\ ~Inside(p, 8) /\ Inside(q, 8)
    BY <1>0, <2>1, <2>2 DEF Good, Inside
  <2> QED BY <2>1, <2>2, <2>3 DEF Moves, Leg
<1>2. CASE GaugeAfter(r) \/ HistogramAfter(r) \/ CounterAfter(r)
  <2> DEFINE q == Ascend(p)
  <2>1. /\ p.dir = "up" /\ p.at \in {8, 9, 10} /\ Becomes(r, q)
        /\ active' = IF p.at = 8 THEN Bump(active, r, -1) ELSE active
    BY <1>2, OnTheWay DEF GaugeAfter, HistogramAfter, CounterAfter
  <2>2. q \in RequestState /\ q.dir = "up" /\ q.at = p.at - 1 /\ q.span = p.span
        /\ q.reading = p.reading /\ q.procedure = p.procedure /\ q.outcome = p.outcome
    BY <1>0, <2>1, Ascends
  <2> HIDE DEF q
  <2>3. Good(q)
    BY <1>0, <2>1, <2>2 DEF Good, Inside
  <2>4. IF p.at = 8 THEN Inside(p, 8) /\ ~Inside(q, 8) ELSE Stays(p, q)
    BY <1>0, <2>1, <2>2 DEF Inside, Stays
  <2> QED BY <2>1, <2>2, <2>3, <2>4 DEF Moves, Leg
<1> QED BY <1>1, <1>2

LEMMA StepMoves ==
    ASSUME NEW r \in Request, Good(req[r]), now \in Nat, Step(r)
    PROVE  Moves(r)
BY PlainSteps, RefusingSteps, LimiterSteps, TracingSteps, PanicSteps, MetricsSteps DEF Step

-----------------------------------------------------------------------------
(* The gauge.                                                              *)

(* The requests in the gauge's call, of one procedure.                     *)
Users(f, p) == {s \in Request : f[s].procedure = p /\ Inside(f[s], 8)}

LEMMA ExactlyUsers ==
    /\ ActiveExact <=> \A p \in Procedure : active[p] = Cardinality(Users(req, p))
    /\ ActiveExact' <=> \A p \in Procedure : active'[p] = Cardinality(Users(req', p))
<1>1. ASSUME NEW p \in Procedure
      PROVE  /\ {r \in Request : req[r].procedure = p /\ Within(r, "gauge")} = Users(req, p)
             /\ {r \in Request : req[r].procedure = p /\ Within(r, "gauge")}' = Users(req', p)
  BY WithinGauge, WithinGaugeNext DEF Users
<1> QED BY <1>1 DEF ActiveExact

LEMMA GaugeMoves ==
    ASSUME TypeOK, ActiveExact, NEW r \in Request, Moves(r)
    PROVE  ActiveExact' /\ active' \in [Procedure -> Int]
<1>1. PICK q : Becomes(r, q) /\ Leg(r, q)
  BY DEF Moves
<1>2. /\ req' = [req EXCEPT ![r] = q] /\ req \in [Request -> RequestState]
      /\ active \in [Procedure -> Int]
  BY <1>1 DEF Becomes, TypeOK
<1>3. \A p \in Procedure : active[p] = Cardinality(Users(req, p))
  BY ExactlyUsers
<1>4. \A p \in Procedure : Users(req, p) \subseteq Request /\ IsFiniteSet(Users(req, p))
  BY RequestAssumption, FS_Subset DEF Users
<1>5. SUFFICES /\ \A p \in Procedure : active'[p] = Cardinality(Users(req', p))
               /\ active' \in [Procedure -> Int]
  BY ExactlyUsers
<1>6. CASE Stays(req[r], q) /\ active' = active
  <2>1. \A p \in Procedure : Users(req', p) = Users(req, p)
    BY <1>2, <1>6 DEF Users, Stays
  <2> QED BY <1>2, <1>3, <1>6, <2>1
<1>7. CASE /\ ~Inside(req[r], 8) /\ Inside(q, 8) /\ q.procedure = req[r].procedure
           /\ active' = Bump(active, r, 1)
  <2> DEFINE m == req[r].procedure
  <2>1. active' \in [Procedure -> Int]
    <3> DEFINE n == active[m] + (1)
    <3>1. active' = [active EXCEPT ![m] = n]
      BY <1>7 DEF Bump
    <3>2. m \in Procedure => n \in Int
      BY <1>2
    <3> HIDE DEF n, m
    <3> QED BY <1>2, <3>1, <3>2
  <2>2. ASSUME NEW p \in Procedure, p # m
        PROVE  active'[p] = Cardinality(Users(req', p))
    <3>1. Users(req', p) = Users(req, p)
      BY <1>2, <1>7, <2>2 DEF Users
    <3> QED BY <1>2, <1>3, <1>7, <2>2, <3>1 DEF Bump
  <2>3. ASSUME m \in Procedure
        PROVE  active'[m] = Cardinality(Users(req', m))
    <3>1. Users(req', m) = Users(req, m) \cup {r} /\ r \notin Users(req, m)
      BY <1>2, <1>7 DEF Users
    <3>2. Cardinality(Users(req', m)) = Cardinality(Users(req, m)) + 1
      BY <1>4, <2>3, <3>1, FS_AddElement
    <3> QED BY <1>2, <1>3, <1>7, <2>3, <3>2 DEF Bump
  <2> QED BY <2>1, <2>2, <2>3
<1>8. CASE Inside(req[r], 8) /\ ~Inside(q, 8) /\ active' = Bump(active, r, -1)
  <2> DEFINE m == req[r].procedure
  <2>1. active' \in [Procedure -> Int]
    <3> DEFINE n == active[m] + (-1)
    <3>1. active' = [active EXCEPT ![m] = n]
      BY <1>8 DEF Bump
    <3>2. m \in Procedure => n \in Int
      BY <1>2
    <3> HIDE DEF n, m
    <3> QED BY <1>2, <3>1, <3>2
  <2>2. ASSUME NEW p \in Procedure, p # m
        PROVE  active'[p] = Cardinality(Users(req', p))
    <3>1. Users(req', p) = Users(req, p)
      BY <1>2, <1>8, <2>2 DEF Users
    <3> QED BY <1>2, <1>3, <1>8, <2>2, <3>1 DEF Bump
  <2>3. ASSUME m \in Procedure
        PROVE  active'[m] = Cardinality(Users(req', m))
    <3>1. Users(req', m) = Users(req, m) \ {r} /\ r \in Users(req, m)
      BY <1>2, <1>8 DEF Users
    <3>2. Cardinality(Users(req', m)) = Cardinality(Users(req, m)) - 1
      BY <1>4, <2>3, <3>1, FS_RemoveElement
    <3> QED BY <1>2, <1>3, <1>8, <2>3, <3>2 DEF Bump
  <2> QED BY <2>1, <2>2, <2>3
<1> QED BY <1>1, <1>6, <1>7, <1>8 DEF Leg

-----------------------------------------------------------------------------
(* The token bucket.                                                       *)

(* What time adds to the bucket, and that there is no more than that.      *)
LEMMA AvailableBounds ==
    ASSUME TypeOK, NEW t \in Nat
    PROVE  /\ Available(t) \in 0..Burst
           /\ t < limiter.last => Available(t) <= limiter.tokens
           /\ limiter.last <= t => Available(t) <= limiter.tokens + Rate * (t - limiter.last)
<1> DEFINE k == limiter.tokens
           l == limiter.last
           d == t - Least(l, t)
           g == Rate * d
<1>1. k \in 0..Burst /\ l \in Nat /\ Rate \in Nat /\ Burst \in Nat
  BY LimiterAssumption DEF TypeOK
<1>2. d \in Nat /\ (t < l => d = 0) /\ (l <= t => d = t - l)
  BY <1>1 DEF Least
<1> HIDE DEF d
<1>3. g \in Nat /\ (d = 0 => g = 0)
  BY <1>1, <1>2
<1>4. Available(t) = Least(Burst, k + g)
  BY DEF Available, d
<1>5. l <= t => g = Rate * (t - l)
  BY <1>2
<1> HIDE DEF g, k, l
<1>6. /\ Least(Burst, k + g) \in 0..Burst /\ Least(Burst, k + g) <= k + g
  BY <1>1, <1>3 DEF Least
<1>7. /\ Available(t) \in 0..Burst
      /\ t < l => Available(t) <= k
      /\ l <= t => Available(t) <= k + Rate * (t - l)
  BY <1>1, <1>2, <1>3, <1>4, <1>5, <1>6
<1> QED BY <1>7 DEF k, l

(* What a step may do with the limiter.                                    *)
LimiterKept == limiter' = limiter /\ admitted' = admitted /\ late' = late
Takes(r) ==
    LET t == req[r].reading IN
    /\ t # None /\ Allows(t)
    /\ limiter' = [tokens |-> Available(t) - 1, last |-> t]
    /\ admitted' = admitted + 1
    /\ late' = late + limiter.last - Least(limiter.last, t)

LEMMA LimiterUse ==
    ASSUME NEW r \in Request, Step(r)
    PROVE  now' = now /\ (LimiterKept \/ Takes(r))
BY DEF Step, Arrive, Handle, Serve, Pass, RequestIDAfter, TracingBefore, TracingAfter,
       ValidationBefore, RateLimitReads, RateLimitDecides, RecoveryAfter, AuthBefore,
       GaugeBefore, GaugeAfter, HistogramAfter, CounterAfter, Quiet, Unlimited,
       LimiterKept, Takes

LEMMA BucketMoves ==
    ASSUME TypeOK, Bucket, NEW r \in Request, Step(r), Moves(r)
    PROVE  /\ Bucket'
           /\ limiter' \in [tokens: 0..Burst, last: Nat]
           /\ admitted' \in Nat /\ late' \in Nat
<1>0. now \in Nat /\ now' = now /\ limiter \in [tokens: 0..Burst, last: Nat]
      /\ admitted \in Nat /\ late \in Nat
      /\ Rate \in Nat /\ Burst \in Nat /\ None \notin Nat
  BY LimiterUse, LimiterAssumption, NoneAssumption DEF TypeOK
<1>1. \A s \in Request : req'[s].reading # None => req'[s].reading <= now
  <2>1. PICK q : Becomes(r, q) /\ Leg(r, q)
    BY DEF Moves
  <2> QED BY <1>0, <2>1 DEF Becomes, Leg, Bucket, TypeOK
<1>2. CASE LimiterKept
  BY <1>0, <1>1, <1>2 DEF Bucket, LimiterKept
<1>3. CASE Takes(r)
  <2> DEFINE t == req[r].reading
             b == Available(t)
             k == limiter.tokens
             l == limiter.last
  <2>1. t \in Nat /\ t <= now
    BY <1>3 DEF Takes, Bucket, TypeOK, RequestState
  <2>2. /\ b \in 0..Burst /\ b >= 1
        /\ t < l => b <= k
        /\ l <= t => b <= k + Rate * (t - l)
    BY <1>3, <2>1, AvailableBounds DEF Takes, Allows
  <2>3. /\ limiter' = [tokens |-> b - 1, last |-> t] /\ admitted' = admitted + 1
        /\ late' = late + l - Least(l, t)
    BY <1>3 DEF Takes
  <2>4. k \in Nat /\ l \in Nat /\ k + admitted <= Burst + Rate * (l + late)
    BY <1>0 DEF Bucket
  <2> HIDE DEF t, b, k, l
  <2>5. limiter' \in [tokens: 0..Burst, last: Nat] /\ admitted' \in Nat
    BY <1>0, <2>1, <2>2, <2>3
  <2>6. CASE t < l
    <3>1. late' = late + l - t /\ t + late' = l + late /\ late' \in Nat
      BY <1>0, <2>1, <2>3, <2>4, <2>6 DEF Least
    <3>2. (b - 1) + admitted' <= Burst + Rate * (t + late')
      BY <1>0, <2>2, <2>3, <2>4, <2>6, <3>1
    <3> QED BY <1>0, <1>1, <2>1, <2>3, <2>5, <3>1, <3>2 DEF Bucket
  <2>7. CASE l <= t
    <3>1. late' = late
      BY <1>0, <2>1, <2>3, <2>4, <2>7 DEF Least
    <3>2. Rate * (t - l) + Rate * (l + late) = Rate * (t + late)
      BY <1>0, <2>1, <2>4
    <3> DEFINE x == Rate * (t - l)
               y == Rate * (l + late)
               z == Rate * (t + late)
    <3>3. x \in Int /\ y \in Int /\ z \in Int
      BY <1>0, <2>1, <2>4
    <3>4. b <= k + x /\ k + admitted <= Burst + y /\ x + y = z
      BY <2>2, <2>4, <2>7, <3>2
    <3> HIDE DEF x, y, z
    <3>5. (b - 1) + admitted' <= Burst + z
      BY <1>0, <2>2, <2>3, <2>4, <3>3, <3>4
    <3>6. (b - 1) + admitted' <= Burst + Rate * (t + late')
      BY <3>1, <3>5 DEF z
    <3> QED BY <1>0, <1>1, <2>1, <2>3, <2>5, <3>1, <3>6 DEF Bucket
  <2> QED BY <1>0, <2>1, <2>4, <2>6, <2>7
<1> QED BY <1>2, <1>3, LimiterUse

-----------------------------------------------------------------------------
(* The other collectors.                                                   *)

LEMMA BumpType ==
    ASSUME NEW f \in [Procedure -> Nat], NEW r \in Request
    PROVE  Bump(f, r, 1) \in [Procedure -> Nat]
<1> DEFINE m == req[r].procedure
           n == f[m] + 1
<1>1. Bump(f, r, 1) = [f EXCEPT ![m] = n]
  BY DEF Bump
<1>2. m \in Procedure => n \in Nat
  OBVIOUS
<1> HIDE DEF n, m
<1> QED BY <1>1, <1>2

LEMMA CollectorMoves ==
    ASSUME TypeOK, NEW r \in Request, Step(r)
    PROVE  latency' \in [Procedure -> Nat] /\ counted' \in [Procedure -> Nat]
<1>1. latency' = latency \/ latency' = Bump(latency, r, 1)
  BY DEF Step, Arrive, Handle, Serve, Pass, RequestIDAfter, TracingBefore, TracingAfter,
         ValidationBefore, RateLimitReads, RateLimitDecides, RecoveryAfter, AuthBefore,
         GaugeBefore, GaugeAfter, HistogramAfter, CounterAfter, Quiet, collectors
<1>2. counted' = counted \/ counted' = Bump(counted, r, 1)
  BY DEF Step, Arrive, Handle, Serve, Pass, RequestIDAfter, TracingBefore, TracingAfter,
         ValidationBefore, RateLimitReads, RateLimitDecides, RecoveryAfter, AuthBefore,
         GaugeBefore, GaugeAfter, HistogramAfter, CounterAfter, Quiet, collectors
<1>3. latency \in [Procedure -> Nat] /\ counted \in [Procedure -> Nat]
  BY DEF TypeOK
<1> QED BY <1>1, <1>2, <1>3, BumpType

(* A panic is known by what the handler returned, until the counter.       *)
Recorded(q) ==
    /\ q.dir \in {"idle", "down"} => q.handled = None
    /\ q.dir = "up" /\ q.at = 10 => q.handled = q.outcome

(* Past the counter uncounted, and past the counter but not yet observed.  *)
Gone(q) == q.handled = "panic" /\ ~Inside(q, 10)
Due(q) == q.dir = "up" /\ q.at = 9
Uncounted(f, p) == {s \in Request : f[s].procedure = p /\ Gone(f[s])}
Unobserved(f, p) == {s \in Request : f[s].procedure = p /\ Due(f[s])}

(* Every request past the counter is counted or panicked, and is in the    *)
(* histogram unless it is still on its way there.                          *)
Tally ==
    \A p \in Procedure :
        counted[p] + Cardinality(Uncounted(req, p))
        = latency[p] + Cardinality(Unobserved(req, p))

TallyInv == (\A r \in Request : Recorded(req[r])) /\ Tally

(* One place down, up or round, with what the handler returned kept.       *)
SameWay(n, q) ==
    /\ n.dir = q.dir /\ n.at = q.at
    /\ n.handled = q.handled /\ n.procedure = q.procedure
Travel(p, q) ==
    /\ q.handled = p.handled /\ q.procedure = p.procedure
    /\ \/ p.dir = "down" /\ q.dir = "down"
       \/ p.dir = "down" /\ q.dir = "up" /\ q.at < 9
       \/ p.dir = "up" /\ q.dir = "up" /\ q.at = p.at - 1
       \/ p.dir = "up" /\ p.at = 0 /\ q.dir = "done"

(* Every step but an arrival and the handler's travels.                     *)
LEMMA Travels ==
    ASSUME TypeOK, NEW r \in Request, Good(req[r]), Step(r), ~Arrive(r), ~Handle(r)
    PROVE  Travel(req[r], req'[r])
<1> DEFINE p == req[r]
           q == req'[r]
<1>1. p \in RequestState /\ \A x : Becomes(r, x) => q = x
  BY DEF TypeOK, Becomes
<1>2. ASSUME NEW a \in RequestState, NEW x
      PROVE  /\ SameWay([a EXCEPT !.span = x], a)
             /\ SameWay([a EXCEPT !.outcome = x], a)
             /\ SameWay([a EXCEPT !.reading = x], a)
  BY DEF SameWay, RequestState
<1>3. ASSUME NEW d \in RequestState, SameWay(d, p), p.dir = "down", p.at <= 10
      PROVE  /\ Descend(d) \in RequestState
             /\ \A n : n = Descend(d) \/ SameWay(n, Descend(d)) => Travel(p, n)
  BY <1>3, Descends DEF Travel, SameWay
<1>4. ASSUME NEW d \in RequestState, SameWay(d, p), p.dir = "down", p.at \in 3..7
      PROVE  Travel(p, Refuse(d))
  BY <1>4, Refuses DEF Travel, SameWay
<1>5. ASSUME p.dir = "up", p.at >= 1
      PROVE  /\ Ascend(p) \in RequestState
             /\ \A n : n = Ascend(p) \/ SameWay(n, Ascend(p)) => Travel(p, n)
  BY <1>1, <1>5, Ascends DEF Travel, SameWay
<1>6. SameWay(p, p)
  BY DEF SameWay
<1>7. CASE Serve(r)
  <2>1. p.dir = "up" /\ p.at = 0 /\ q = [p EXCEPT !.dir = "done"]
    BY <1>1, <1>7 DEF Serve
  <2> QED  BY <1>1, <2>1 DEF Travel, RequestState
<1>8. CASE Pass(r)
  <2>1. \/ p.dir = "down" /\ p.at \in {1, 5, 6, 9, 10} /\ q = Descend(p)
        \/ p.dir = "up" /\ p.at \in {3, 4, 6, 7} /\ q = Ascend(p)
    BY <1>1, <1>8, OnTheWay DEF Pass
  <2> QED  BY <1>1, <1>3, <1>5, <1>6, <2>1
<1>9. CASE RequestIDAfter(r) \/ RecoveryAfter(r) \/ TracingAfter(r)
  <2>1. p.dir = "up" /\ p.at \in {1, 2, 5}
    BY <1>9, OnTheWay DEF RequestIDAfter, RecoveryAfter, TracingAfter
  <2>2. \/ q = Ascend(p)
        \/ \E x : q = [Ascend(p) EXCEPT !.outcome = x]
        \/ \E x : q = [Ascend(p) EXCEPT !.span = x]
    BY <1>1, <1>9 DEF RequestIDAfter, RecoveryAfter, TracingAfter
  <2> DEFINE a == Ascend(p)
  <2>3. a \in RequestState /\ \A n : n = a \/ SameWay(n, a) => Travel(p, n)
    BY <1>5, <2>1
  <2> HIDE DEF a
  <2>4. q = a \/ SameWay(q, a)
    BY <1>2, <2>2, <2>3 DEF a
  <2> QED  BY <2>3, <2>4
<1>10. CASE TracingBefore(r)
  <2>1. p.dir = "down" /\ p.at = 2
    BY <1>10, OnTheWay DEF TracingBefore
  <2>2. q = [Descend(p) EXCEPT !.span = "open"]
    BY <1>1, <1>10 DEF TracingBefore
  <2> DEFINE d == Descend(p)
  <2>3. d \in RequestState /\ \A n : n = d \/ SameWay(n, d) => Travel(p, n)
    BY <1>1, <1>3, <1>6, <2>1
  <2> HIDE DEF d
  <2>4. SameWay(q, d)
    BY <1>2, <2>2, <2>3 DEF d
  <2> QED  BY <2>3, <2>4
<1>11. CASE ValidationBefore(r) \/ AuthBefore(r)
  <2>1. p.dir = "down" /\ p.at \in {3, 7} /\ (q = Descend(p) \/ q = Refuse(p))
    BY <1>1, <1>11, OnTheWay DEF ValidationBefore, AuthBefore
  <2> QED  BY <1>1, <1>3, <1>4, <1>6, <2>1
<1>12. CASE RateLimitReads(r)
  <2>1. p.dir = "down" /\ q = [p EXCEPT !.reading = now]
    BY <1>1, <1>12, OnTheWay DEF RateLimitReads
  <2> QED  BY <1>1, <1>2, <2>1 DEF Travel, SameWay
<1>13. CASE RateLimitDecides(r)
  <2> DEFINE d == Decided(p)
  <2>1. p.dir = "down" /\ p.at = 4 /\ (q = Descend(d) \/ q = Refuse(d))
    BY <1>1, <1>13, OnTheWay DEF RateLimitDecides
  <2>2. d \in RequestState /\ SameWay(d, p)
    BY <1>1 DEF Decided, RequestState, SameWay
  <2> HIDE DEF d
  <2> QED  BY <1>3, <1>4, <2>1, <2>2
<1>14. CASE GaugeBefore(r)
  <2>1. p.dir = "down" /\ p.at = 8 /\ q = Descend(p)
    BY <1>1, <1>14, OnTheWay DEF GaugeBefore
  <2> QED  BY <1>1, <1>3, <1>6, <2>1
<1>15. CASE GaugeAfter(r) \/ HistogramAfter(r) \/ CounterAfter(r)
  <2>1. p.dir = "up" /\ p.at \in {8, 9, 10} /\ q = Ascend(p)
    BY <1>1, <1>15, OnTheWay DEF GaugeAfter, HistogramAfter, CounterAfter
  <2> QED  BY <1>5, <2>1
<1> QED  BY <1>7, <1>8, <1>9, <1>10, <1>11, <1>12, <1>13, <1>14, <1>15 DEF Step

(* What a step does to a request's record, and who counts it where.        *)
LEMMA Records ==
    ASSUME TypeOK, NEW r \in Request, Good(req[r]), Recorded(req[r]), Step(r)
    PROVE  LET p == req[r]
               q == req'[r] IN
           /\ \A s \in Request \ {r} : req'[s] = req[s]
           /\ Recorded(q)
           /\ \/ /\ Gone(q) <=> Gone(p)
                 /\ Due(q) <=> Due(p)
                 /\ Gone(q) \/ Due(q) => q.procedure = p.procedure
                 /\ latency' = latency /\ counted' = counted
              \/ /\ ~Gone(p) /\ ~Due(p) /\ Due(q) /\ q.procedure = p.procedure
                 /\ latency' = latency
                 /\ counted' = IF Gone(q) THEN counted ELSE Bump(counted, r, 1)
              \/ /\ Due(p) /\ ~Due(q) /\ (Gone(q) <=> Gone(p))
                 /\ q.procedure = p.procedure
                 /\ latency' = Bump(latency, r, 1) /\ counted' = counted
<1> DEFINE p == req[r]
           q == req'[r]
<1>1. p \in RequestState /\ None # "panic"
  BY NoneAssumption DEF TypeOK
<1>2. \A s \in Request \ {r} : req'[s] = req[s]
  <2>1. PICK x : Becomes(r, x)
    BY StepMoves DEF Moves, TypeOK
  <2> QED  BY <2>1 DEF Becomes, TypeOK
<1>3. \A x : Becomes(r, x) => q = x
  BY DEF TypeOK, Becomes
<1>4. CASE Arrive(r)
  <2>1. PICK m \in Procedure :
           q = [Idle EXCEPT !.dir = "down", !.at = 1, !.procedure = m]
    BY <1>3, <1>4 DEF Arrive
  <2>2. q.dir = "down" /\ q.handled = None
    BY <2>1 DEF Idle
  <2>3. p.dir = "idle" /\ latency' = latency /\ counted' = counted
    BY <1>4 DEF Arrive, Quiet, collectors
  <2> QED  BY <1>1, <1>2, <2>2, <2>3 DEF Recorded, Gone, Due
<1>5. CASE Handle(r)
  <2> DEFINE a == Ascend(p)
  <2>1. PICK o \in Outcome :
           q = [a EXCEPT !.dir = "up", !.outcome = o, !.handled = o]
    BY <1>3, <1>5 DEF Handle
  <2>2. p.dir = "down" /\ p.at = 11 /\ latency' = latency /\ counted' = counted
    BY <1>5, ChainLength DEF Handle, Quiet, collectors
  <2>3. a \in RequestState /\ a.at = 10 /\ a.procedure = p.procedure
    BY <1>1, <2>2, Ascends
  <2> HIDE DEF a
  <2>4. q.dir = "up" /\ q.at = 10 /\ q.handled = q.outcome
    BY <2>1, <2>3 DEF RequestState
  <2> QED  BY <1>1, <1>2, <2>2, <2>4 DEF Recorded, Gone, Due, Inside
<1>6. CASE ~Arrive(r) /\ ~Handle(r)
  <2>1. Travel(p, q)
    BY <1>6, Travels
  <2>2. p.dir = "up" /\ p.at \in {9, 10}
        => (HistogramAfter(r) /\ p.at = 9) \/ (CounterAfter(r) /\ p.at = 10)
    <3> SUFFICES ASSUME p.dir = "up", p.at \in {9, 10}
                 PROVE  (HistogramAfter(r) /\ p.at = 9) \/ (CounterAfter(r) /\ p.at = 10)
      OBVIOUS
    <3>1. ~Serve(r) /\ ~Pass(r)
      BY OnTheWay DEF Serve, Pass
    <3>2. /\ ~RequestIDAfter(r) /\ ~TracingBefore(r) /\ ~TracingAfter(r)
          /\ ~ValidationBefore(r) /\ ~RateLimitReads(r) /\ ~RateLimitDecides(r)
          /\ ~RecoveryAfter(r) /\ ~AuthBefore(r)
      BY OnTheWay DEF RequestIDAfter, TracingBefore, TracingAfter, ValidationBefore,
                      RateLimitReads, RateLimitDecides, RecoveryAfter, AuthBefore
    <3>3. ~GaugeBefore(r) /\ ~GaugeAfter(r)
      BY OnTheWay DEF GaugeBefore, GaugeAfter
    <3>4. (HistogramAfter(r) => p.at = 9) /\ (CounterAfter(r) => p.at = 10)
      BY OnTheWay DEF HistogramAfter, CounterAfter
    <3> QED  BY <1>6, <3>1, <3>2, <3>3, <3>4 DEF Step
  <2>3. /\ HistogramAfter(r) => p.dir = "up" /\ p.at = 9
        /\ CounterAfter(r) => p.dir = "up" /\ p.at = 10
    BY OnTheWay DEF HistogramAfter, CounterAfter
  <2>4. CASE p.dir = "up" /\ p.at = 10
    <3>1. /\ q.dir = "up" /\ q.at = 9 /\ q.handled = p.handled
          /\ q.procedure = p.procedure /\ p.handled = p.outcome
      BY <2>1, <2>4 DEF Travel, Recorded
    <3>2. /\ latency' = latency
          /\ counted' = IF p.handled = "panic" THEN counted ELSE Bump(counted, r, 1)
      BY <2>2, <2>4, <3>1 DEF CounterAfter, HistogramAfter, Panics
    <3>3. (Gone(q) <=> p.handled = "panic") /\ ~Gone(p) /\ ~Due(p) /\ Due(q)
      BY <2>4, <3>1 DEF Gone, Due, Inside
    <3>4. Recorded(q)
      BY <3>1 DEF Recorded
    <3> QED  BY <1>2, <3>1, <3>2, <3>3, <3>4
  <2>5. CASE p.dir = "up" /\ p.at = 9
    <3>1. /\ q.dir = "up" /\ q.at = 8 /\ q.handled = p.handled
          /\ q.procedure = p.procedure
      BY <2>1, <2>5 DEF Travel
    <3>2. latency' = Bump(latency, r, 1) /\ counted' = counted
      BY <2>2, <2>5 DEF HistogramAfter
    <3>3. (Gone(q) <=> Gone(p)) /\ Due(p) /\ ~Due(q)
      BY <2>5, <3>1 DEF Gone, Due, Inside
    <3>4. Recorded(q)
      BY <3>1 DEF Recorded
    <3> QED  BY <1>2, <3>1, <3>2, <3>3, <3>4
  <2>6. CASE ~(p.dir = "up" /\ p.at \in {9, 10})
    <3>1. latency' = latency /\ counted' = counted
      BY <1>6, <2>3, <2>6
         DEF Step, Serve, Pass, RequestIDAfter, TracingBefore, TracingAfter,
             ValidationBefore, RateLimitReads, RateLimitDecides, RecoveryAfter, AuthBefore,
             GaugeBefore, GaugeAfter, Quiet, collectors
    <3>2. p.at \in Int /\ (p.dir = "up" => p.at <= 10)
      BY <1>1, ChainLength DEF RequestState, Good
    <3>3. (Gone(q) <=> Gone(p)) /\ ~Due(p) /\ ~Due(q) /\ q.procedure = p.procedure
      BY <1>1, <2>1, <2>6, <3>2 DEF Travel, Gone, Due, Inside, Recorded
    <3>4. Recorded(q)
      BY <2>1, <2>6, <3>2 DEF Travel, Recorded
    <3> QED  BY <1>2, <3>1, <3>3, <3>4
  <2> QED  BY <2>4, <2>5, <2>6
<1> QED  BY <1>4, <1>5, <1>6

(* A step moves both sides of the tally by the same amount.                *)
LEMMA TallyMoves ==
    ASSUME TypeOK, TallyInv, NEW r \in Request, Good(req[r]), Step(r)
    PROVE  TallyInv'
<1> DEFINE p == req[r]
           q == req'[r]
           m == p.procedure
           U(f, x) == Uncounted(f, x)
           D(f, x) == Unobserved(f, x)
<1>1. /\ \A s \in Request \ {r} : req'[s] = req[s]
      /\ Recorded(q)
      /\ \/ /\ Gone(q) <=> Gone(p)
            /\ Due(q) <=> Due(p)
            /\ Gone(q) \/ Due(q) => q.procedure = m
            /\ latency' = latency /\ counted' = counted
         \/ /\ ~Gone(p) /\ ~Due(p) /\ Due(q) /\ q.procedure = m
            /\ latency' = latency
            /\ counted' = IF Gone(q) THEN counted ELSE Bump(counted, r, 1)
         \/ /\ Due(p) /\ ~Due(q) /\ (Gone(q) <=> Gone(p))
            /\ q.procedure = m
            /\ latency' = Bump(latency, r, 1) /\ counted' = counted
  BY Records DEF TallyInv
<1>2. \A s \in Request : Recorded(req'[s])
  BY <1>1 DEF TallyInv
<1>3. ASSUME NEW x \in Procedure
      PROVE  /\ counted[x] \in Nat /\ latency[x] \in Nat
             /\ IsFiniteSet(U(req, x)) /\ Cardinality(U(req, x)) \in Nat
             /\ IsFiniteSet(D(req, x)) /\ Cardinality(D(req, x)) \in Nat
             /\ counted[x] + Cardinality(U(req, x)) = latency[x] + Cardinality(D(req, x))
  <2>1. U(req, x) \in SUBSET Request /\ D(req, x) \in SUBSET Request
    BY DEF Uncounted, Unobserved
  <2>2. IsFiniteSet(U(req, x)) /\ IsFiniteSet(D(req, x))
    BY <2>1, RequestAssumption, FS_Subset
  <2>3. Cardinality(U(req, x)) \in Nat /\ Cardinality(D(req, x)) \in Nat
    BY <2>2, FS_CardinalityType
  <2> QED  BY <2>2, <2>3 DEF TallyInv, Tally, TypeOK
<1>4. ASSUME NEW f, f \in [Procedure -> Nat], NEW x \in Procedure
      PROVE  Bump(f, r, 1)[x] = IF x = m THEN f[x] + 1 ELSE f[x]
  BY <1>4 DEF Bump
<1>5. counted \in [Procedure -> Nat] /\ latency \in [Procedure -> Nat]
  BY DEF TypeOK
<1>6. ASSUME NEW x \in Procedure
      PROVE  counted'[x] + Cardinality(U(req', x)) = latency'[x] + Cardinality(D(req', x))
  <2>1. CASE /\ Gone(q) <=> Gone(p)
             /\ Due(q) <=> Due(p)
             /\ Gone(q) \/ Due(q) => q.procedure = m
             /\ latency' = latency /\ counted' = counted
    <3>1. U(req', x) = U(req, x) /\ D(req', x) = D(req, x)
      BY <1>1, <2>1 DEF Uncounted, Unobserved
    <3> QED  BY <1>3, <2>1, <3>1
  <2>2. CASE /\ ~Gone(p) /\ ~Due(p) /\ Due(q) /\ q.procedure = m
             /\ latency' = latency
             /\ counted' = IF Gone(q) THEN counted ELSE Bump(counted, r, 1)
    <3>1. D(req', x) = IF x = m THEN D(req, x) \cup {r} ELSE D(req, x)
      BY <1>1, <2>2 DEF Unobserved
    <3>2. U(req', x) = IF x = m /\ Gone(q) THEN U(req, x) \cup {r} ELSE U(req, x)
      BY <1>1, <2>2 DEF Uncounted
    <3>3. r \notin D(req, x) /\ r \notin U(req, x)
      BY <2>2 DEF Uncounted, Unobserved
    <3>4. /\ Cardinality(D(req, x) \cup {r}) = Cardinality(D(req, x)) + 1
          /\ Cardinality(U(req, x) \cup {r}) = Cardinality(U(req, x)) + 1
      BY <1>3, <3>3, FS_AddElement
    <3>5. counted'[x] = IF x = m /\ ~Gone(q) THEN counted[x] + 1 ELSE counted[x]
      BY <1>4, <1>5, <2>2
    <3> HIDE DEF U, D
    <3> QED  BY <1>3, <2>2, <3>1, <3>2, <3>4, <3>5
  <2>3. CASE /\ Due(p) /\ ~Due(q) /\ (Gone(q) <=> Gone(p))
             /\ q.procedure = m
             /\ latency' = Bump(latency, r, 1) /\ counted' = counted
    <3>1. D(req', x) = IF x = m THEN D(req, x) \ {r} ELSE D(req, x)
      BY <1>1, <2>3 DEF Unobserved
    <3>2. U(req', x) = U(req, x)
      BY <1>1, <2>3 DEF Uncounted
    <3>3. x = m => r \in D(req, x)
      BY <2>3 DEF Unobserved
    <3>4. x = m => Cardinality(D(req, x) \ {r}) = Cardinality(D(req, x)) - 1
      BY <1>3, <3>3, FS_RemoveElement
    <3>5. latency'[x] = IF x = m THEN latency[x] + 1 ELSE latency[x]
      BY <1>4, <1>5, <2>3
    <3>6. counted'[x] = counted[x]
      BY <2>3
    <3> DEFINE c == Cardinality(D(req, x))
               c2 == Cardinality(D(req', x))
    <3>7. /\ x = m => c2 = c - 1
          /\ x # m => c2 = c
      BY <3>1, <3>4
    <3>8. /\ counted[x] \in Nat /\ latency[x] \in Nat /\ c \in Nat
          /\ Cardinality(U(req, x)) \in Nat
          /\ counted[x] + Cardinality(U(req, x)) = latency[x] + c
      BY <1>3
    <3>9. U(req', x) = U(req, x)
      BY <3>2
    <3> HIDE DEF U, c, c2
    <3>10. counted'[x] + Cardinality(U(req', x)) = latency'[x] + c2
      BY <3>5, <3>6, <3>7, <3>8, <3>9
    <3> QED  BY <3>10 DEF U, c2
  <2> QED  BY <1>1, <2>1, <2>2, <2>3
<1> QED  BY <1>2, <1>6 DEF TallyInv, Tally

(* At first nothing has passed a collector, and a step keeps the tally.    *)
LEMMA TallyInit == Init => TallyInv
<1> SUFFICES ASSUME Init PROVE TallyInv
  OBVIOUS
<1>1. \A r \in Request : req[r].dir = "idle" /\ req[r].handled = None
  BY DEF Init, Idle
<1>2. \A p \in Procedure :
         /\ counted[p] = 0 /\ latency[p] = 0
         /\ Uncounted(req, p) = {} /\ Unobserved(req, p) = {}
  BY <1>1, NoneAssumption DEF Init, Uncounted, Unobserved, Gone, Due
<1> QED  BY <1>1, <1>2, FS_EmptySet DEF TallyInv, Tally, Recorded

LEMMA TallyNext == InterceptorInv /\ TallyInv /\ [Next]_vars => TallyInv'
<1> SUFFICES ASSUME InterceptorInv, TallyInv, [Next]_vars PROVE TallyInv'
  OBVIOUS
<1>1. CASE \E r \in Request : Step(r)
  BY <1>1, TallyMoves DEF InterceptorInv
<1>2. CASE Tick \/ Quiescent \/ UNCHANGED vars
  <2>1. req' = req /\ counted' = counted /\ latency' = latency
    BY <1>2 DEF Tick, Quiescent, vars, collectors
  <2> QED  BY <2>1 DEF TallyInv, Tally, Uncounted, Unobserved
<1> QED  BY <1>1, <1>2 DEF Next

-----------------------------------------------------------------------------
(* The invariant holds.                                                    *)

LEMMA InvInit == Init => InterceptorInv
<1> SUFFICES ASSUME Init PROVE InterceptorInv
  OBVIOUS
<1>1. Idle \in RequestState
  BY ChainLength DEF Idle, RequestState
<1>2. Good(Idle) /\ ~Inside(Idle, 8)
  BY <1>1 DEF Good, Inside, Idle
<1>3. TypeOK
  BY <1>1, LimiterAssumption DEF TypeOK, Init
<1>4. \A r \in Request : req[r] = Idle
  BY DEF Init
<1>5. Bucket
  BY <1>4, LimiterAssumption DEF Bucket, Init, Idle
<1>6. \A p \in Procedure : Users(req, p) = {} /\ active[p] = 0
  BY <1>2, <1>4 DEF Users, Init
<1>7. ActiveExact
  BY <1>6, ExactlyUsers, FS_EmptySet
<1> QED BY <1>2, <1>3, <1>4, <1>5, <1>7 DEF InterceptorInv

LEMMA InvNext == InterceptorInv /\ [Next]_vars => InterceptorInv'
<1> SUFFICES ASSUME InterceptorInv, [Next]_vars PROVE InterceptorInv'
  OBVIOUS
<1> USE DEF InterceptorInv
<1>1. ASSUME NEW r \in Request, Step(r)
      PROVE  InterceptorInv'
  <2>1. Moves(r) /\ now' = now /\ now \in Nat
    BY <1>1, StepMoves, LimiterUse DEF TypeOK
  <2>2. PICK q : Becomes(r, q) /\ Leg(r, q)
    BY <2>1 DEF Moves
  <2>3. req' \in [Request -> RequestState] /\ \A s \in Request : Good(req'[s])
    BY <2>2 DEF Becomes, Leg, TypeOK
  <2>4. ActiveExact' /\ active' \in [Procedure -> Int]
    BY <2>1, GaugeMoves
  <2>5. /\ Bucket' /\ limiter' \in [tokens: 0..Burst, last: Nat]
        /\ admitted' \in Nat /\ late' \in Nat
    BY <1>1, <2>1, BucketMoves
  <2>6. latency' \in [Procedure -> Nat] /\ counted' \in [Procedure -> Nat]
    BY <1>1, CollectorMoves
  <2> QED BY <2>1, <2>3, <2>4, <2>5, <2>6 DEF TypeOK
<1>2. CASE Tick
  <2>1. now \in Nat /\ now' \in Nat /\ now' = now + 1 /\ limiter \in [tokens: 0..Burst, last: Nat]
    BY <1>2 DEF Tick, TypeOK
  <2>2. TypeOK'
    BY <1>2, <2>1 DEF Tick, TypeOK, collectors
  <2>3. Bucket'
    <3>1. \A r \in Request : req[r].reading \in Nat \cup {None}
      BY DEF TypeOK, RequestState
    <3> QED BY <1>2, <2>1, <3>1 DEF Tick, Bucket
  <2>4. ActiveExact'
    BY <1>2, ExactlyUsers DEF Tick, collectors
  <2> QED BY <1>2, <2>2, <2>3, <2>4 DEF Tick
<1>3. CASE UNCHANGED vars
  <2>1. TypeOK'
    BY <1>3 DEF TypeOK, vars, collectors
  <2>2. Bucket'
    BY <1>3 DEF Bucket, vars
  <2>3. ActiveExact'
    BY <1>3, ExactlyUsers DEF vars, collectors
  <2> QED BY <1>3, <2>1, <2>2, <2>3 DEF vars
<1> QED BY <1>1, <1>2, <1>3 DEF Next, Quiescent

LEMMA Invariant == Spec => []InterceptorInv
BY InvInit, InvNext, PTL DEF Spec

-----------------------------------------------------------------------------
(* The theorems.                                                           *)

(* The chain's state keeps its types: a request stays between the ends of  *)
(* the chain, the bucket between empty and full.                           *)
THEOREM ChainTypeCorrect == Spec => []TypeOK
<1>1. InterceptorInv => TypeOK
  BY DEF InterceptorInv
<1> QED BY <1>1, Invariant, PTL

(* Every request's span has ended when the request has, although the call  *)
(* of span.End() is not deferred and panics go by.                         *)
THEOREM SpansAlwaysEnd == Spec => []SpansEnd
<1>1. InterceptorInv => SpansEnd
  BY DEF InterceptorInv, Good, SpansEnd
<1> QED BY <1>1, Invariant, PTL

(* The gauge counts the requests in flight below it, panics and refusals   *)
(* included.                                                               *)
THEOREM GaugeExact == Spec => []ActiveExact
<1>1. InterceptorInv => ActiveExact
  BY DEF InterceptorInv
<1> QED BY <1>1, Invariant, PTL

(* The limiter's bound, for any number of requests that read the clock and *)
(* take the lock in any order.                                             *)
THEOREM LimiterBounded == Spec => []LimiterBound
<1>1. InterceptorInv => LimiterBound
  <2> SUFFICES ASSUME InterceptorInv PROVE LimiterBound
    OBVIOUS
  <2>1. /\ limiter.last \in Nat /\ now \in Nat /\ limiter.last <= now /\ late \in Nat
        /\ limiter.tokens \in Nat /\ admitted \in Nat /\ Rate \in Nat /\ Burst \in Nat
        /\ limiter.tokens + admitted <= Burst + Rate * (limiter.last + late)
    BY LimiterAssumption DEF InterceptorInv, TypeOK, Bucket
  <2> DEFINE d == now - limiter.last
  <2>2. d \in Nat /\ now + late = (limiter.last + late) + d
    BY <2>1
  <2> HIDE DEF d
  <2> DEFINE n == limiter.last + late
  <2>3. n \in Nat /\ now + late = n + d
    BY <2>1, <2>2
  <2> HIDE DEF n
  <2>4. Rate * (n + d) = Rate * n + Rate * d /\ Rate * d \in Nat /\ Rate * n \in Nat
    BY <2>1, <2>2, <2>3
  <2>5. limiter.tokens + admitted <= Burst + Rate * n
    BY <2>1 DEF n
  <2>6. admitted <= Burst + Rate * (n + d)
    BY <2>1, <2>4, <2>5
  <2> QED BY <2>3, <2>6 DEF LimiterBound
<1> QED BY <1>1, Invariant, PTL

(* Histogram, counter and gauge agree whenever they are scraped: a request *)
(* is in the histogram, counted or panicked, or in between, and then it is *)
(* still active.                                                           *)
THEOREM CollectorsAlwaysAgree == Spec => []CollectorsAgree
<1>1. InterceptorInv /\ TallyInv => CollectorsAgree
  <2> SUFFICES ASSUME InterceptorInv, TallyInv, NEW p \in Procedure
               PROVE  LET panicked == {r \in Request : /\ req[r].procedure = p
                                                        /\ req[r].handled = "panic"
                                                        /\ ~Within(r, "counter")}
                          ended == counted[p] + Cardinality(panicked) IN
                      latency[p] <= ended /\ ended <= latency[p] + active[p]
    BY DEF CollectorsAgree
  <2>1. \A r \in Request : Within(r, "counter") <=> Inside(req[r], 10)
    BY ChainLength, Positions DEF Within, Inside
  <2> DEFINE panicked == {r \in Request : /\ req[r].procedure = p
                                          /\ req[r].handled = "panic"
                                          /\ ~Within(r, "counter")}
             D == Unobserved(req, p)
             A == Users(req, p)
  <2>2. panicked = Uncounted(req, p)
    BY <2>1 DEF Uncounted, Gone
  <2>3. D \in SUBSET A
    BY DEF Unobserved, Users, Due, Inside
  <2>4. A \in SUBSET Request
    BY DEF Users
  <2>5. IsFiniteSet(A)
    BY <2>4, RequestAssumption, FS_Subset
  <2>6. IsFiniteSet(D) /\ Cardinality(D) <= Cardinality(A)
    BY <2>3, <2>5, FS_Subset
  <2>7. Cardinality(D) \in Nat /\ Cardinality(A) \in Nat
    BY <2>5, <2>6, FS_CardinalityType
  <2>8. counted[p] + Cardinality(panicked) = latency[p] + Cardinality(D)
    BY <2>2 DEF TallyInv, Tally
  <2>9. active[p] = Cardinality(A)
    BY ExactlyUsers DEF InterceptorInv
  <2>10. latency[p] \in Nat
    BY DEF InterceptorInv, TypeOK
  <2> HIDE DEF panicked, D, A
  <2>11. LET ended == counted[p] + Cardinality(panicked) IN
         latency[p] <= ended /\ ended <= latency[p] + active[p]
    BY <2>6, <2>7, <2>8, <2>9, <2>10
  <2> QED  BY <2>11 DEF panicked
<1> QED  BY <1>1, InvInit, InvNext, TallyInit, TallyNext, PTL DEF Spec
=============================================================================
