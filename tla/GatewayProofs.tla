--------------------------- MODULE GatewayProofs ---------------------------
(***************************************************************************)
(* Proofs about gateways.  First about GatewaySession, for bodies of any   *)
(* number of calls: its invariants, and that it does to its caller what    *)
(* GatewayCalls promises, short of liveness.  Then about TenantGateways,   *)
(* for any number of tenants, organisations, ports, shards and concurrent  *)
(* callers: its types, that a runtime is known, that a tenant is reached.  *)
(* The two specifications share nothing.                                   *)
(***************************************************************************)
EXTENDS GatewaySession, TenantGateways, SequenceTheorems, TLAPS

-----------------------------------------------------------------------------
(* The session of one call of withGatewayClient.                            *)

Young == {"none", "opening", "open"}

\* The handshake: it is over before the body begins, and a session that was
\* refused for its scope never had one.
HandshakeInv ==
    \A r \in Runs :
        /\ phase[r] \in {"idle", "starting"} => socket[r] = "none"
        /\ phase[r] = "connecting" => socket[r] # "none"
        /\ socket[r] \in Young => r \notin connected
        /\ phase[r] = "body" => r \in connected
        /\ sessionError[r] = "scope" => socket[r] \notin Young /\ r \notin connected

\* A call belongs to a session that was connected; what it came to is what
\* the gateway made of it, unless it failed on this side.
TrafficInv ==
    /\ \A c \in Calls : result[c] # "unmade" => c[1] \in connected
    /\ \A c \in sent : result[c] # "unmade"
    /\ \A c \in Calls : reply[c] # "none" => c \in sent
    /\ \A c \in Calls : result[c] \in {"done", "scope"} => reply[c] = result[c]

\* A second run comes after a first one that threw for a missing scope, which
\* the gateway said of the session or of a call.
RerunInv ==
    /\ \A r \in Runs : thrown[r] = "scope" =>
          sessionError[r] = "scope" \/ \E c \in CallsOf(r) : reply[c] = "scope"
    /\ phase[2] # "idle" => phase[1] = "threw" /\ thrown[1] = "scope"
    /\ \A r \in Runs : phase[r] \in {"starting", "connecting", "body"} => promise = "open"

IInv == TypeOK /\ DeadSessionHoldsNobody /\ HandshakeInv /\ TrafficInv /\ RerunInv

LEMMA InitInv == Init => IInv
  BY DEF Init, IInv, TypeOK, DeadSessionHoldsNobody, Waiting, CallsOf, HandshakeInv,
         TrafficInv, RerunInv, Runs, Errors, Young

-----------------------------------------------------------------------------
(* Failing a session.                                                       *)

\* A session fails for a missing scope only in its handshake, where it has no
\* calls yet: so what its calls are told is never that.
LEMMA FailKeeps ==
    ASSUME IInv, NEW r \in Runs, NEW error \in Errors, FailSession(r, error),
           error = "scope" => socket[r] = "open" /\ socket'[r] = "greeted",
           UNCHANGED <<connected, gatewayVars, promise>>,
           socket' = socket \/ \E now \in {"greeted", "down"} : socket' = [socket EXCEPT ![r] = now],
           socket[r] # "none"
    PROVE  IInv'
<1> USE DEF gatewayVars
<1> DEFINE reason == IF sessionError[r] = "none" THEN error ELSE sessionError[r]
<1>1. /\ sessionError' = [sessionError EXCEPT ![r] = reason]
      /\ result' = [c \in Calls |-> IF c \in pending \cap CallsOf(r) THEN reason ELSE result[c]]
      /\ pending' = pending \ CallsOf(r)
      /\ phase' = [phase EXCEPT ![r] = IF phase[r] = "connecting" THEN "threw" ELSE @]
      /\ thrown' = [thrown EXCEPT ![r] = IF phase[r] = "connecting" THEN reason ELSE @]
      /\ socketClosed' = socketClosed \cup {r}
  BY DEF FailSession
<1> HIDE DEF reason
<1>2. reason \in Errors
  BY DEF reason, IInv, TypeOK
<1>3. reason = "scope" => r \notin connected /\ socket'[r] \notin Young
  BY DEF reason, IInv, HandshakeInv, Young, TypeOK
<1>4. \A c \in pending \cap CallsOf(r) : reason = "other"
  BY <1>2, <1>3 DEF IInv, TrafficInv, TypeOK, CallsOf, Errors
<1>5. TypeOK'
  BY <1>1, <1>2 DEF IInv, TypeOK, Errors, CallsOf
<1>6. DeadSessionHoldsNobody'
  BY <1>1, <1>2 DEF IInv, TypeOK, DeadSessionHoldsNobody, Waiting, CallsOf, Errors
<1>7. HandshakeInv'
  BY <1>1, <1>3 DEF IInv, TypeOK, HandshakeInv, Young
<1>8. TrafficInv'
  BY <1>1, <1>4 DEF IInv, TypeOK, TrafficInv
<1>9. RerunInv'
  <2>1. \A q \in Runs : thrown'[q] = "scope" =>
          sessionError'[q] = "scope" \/ \E c \in CallsOf(q) : reply'[c] = "scope"
    BY <1>1, <1>2 DEF reason, IInv, TypeOK, RerunInv, CallsOf
  <2>2. phase'[2] # "idle" => phase'[1] = "threw" /\ thrown'[1] = "scope"
    BY <1>1 DEF IInv, TypeOK, RerunInv, Runs
  <2>3. \A q \in Runs : phase'[q] \in {"starting", "connecting", "body"} => promise' = "open"
    BY <1>1 DEF IInv, TypeOK, RerunInv
  <2> QED BY <2>1, <2>2, <2>3 DEF RerunInv, CallsOf
<1> QED BY <1>5, <1>6, <1>7, <1>8, <1>9 DEF IInv

-----------------------------------------------------------------------------
(* One step of each kind.                                                   *)

LEMMA OpenSessionKeeps ==
    ASSUME IInv, NEW r \in Runs, OpenSession(r)
    PROVE  IInv'
<1> USE DEF OpenSession, IInv, callVars, gatewayVars
<1>1. TypeOK'
  BY DEF TypeOK, Errors
<1>2. DeadSessionHoldsNobody'
  BY DEF DeadSessionHoldsNobody, Waiting, CallsOf
<1>3. HandshakeInv' /\ TrafficInv'
  BY DEF TypeOK, HandshakeInv, TrafficInv, Young
<1>4. RerunInv'
  BY DEF TypeOK, RerunInv, CallsOf, Runs
<1> QED BY <1>1, <1>2, <1>3, <1>4

LEMMA SocketStepKeeps ==
    ASSUME IInv, NEW r \in Runs, SocketStep(r)
    PROVE  IInv'
<1> USE DEF Errors, Young
<1>1. CASE OpenEvent(r)
  <2>1. CASE socket' = [socket EXCEPT ![r] = "open"] /\ UNCHANGED <<sessionVars, callVars>>
    BY <1>1, <2>1 DEF OpenEvent, sessionVars, callVars, gatewayVars, IInv, TypeOK,
       DeadSessionHoldsNobody, Waiting, CallsOf, HandshakeInv, TrafficInv, RerunInv
  <2>2. CASE socket' = [socket EXCEPT ![r] = "greeted"] /\ FailSession(r, "other")
    BY <1>1, <2>2, FailKeeps DEF OpenEvent
  <2> QED BY <1>1, <2>1, <2>2 DEF OpenEvent
<1>2. CASE ConnectAnswer(r)
  <2>1. CASE \E error \in Errors : FailSession(r, error) /\ UNCHANGED connected
    <3>1. PICK error \in Errors : FailSession(r, error) /\ UNCHANGED connected
      BY <2>1
    <3>2. socket' = [socket EXCEPT ![r] = "greeted"] /\ socket[r] = "open"
      BY <1>2 DEF ConnectAnswer
    <3>3. socket'[r] = "greeted"
      BY <3>2 DEF IInv, TypeOK
    <3> QED BY <1>2, <3>1, <3>2, <3>3, FailKeeps DEF ConnectAnswer
  <2>2. CASE /\ connected' = connected \cup {r}
             /\ phase' = [phase EXCEPT ![r] = IF @ = "connecting" THEN "body" ELSE @]
             /\ UNCHANGED <<thrown, socketClosed, sessionError, callVars>>
    <3> USE <1>2, <2>2 DEF ConnectAnswer, callVars, gatewayVars, IInv
    <3>1. TypeOK' /\ DeadSessionHoldsNobody'
      BY DEF TypeOK, DeadSessionHoldsNobody, Waiting, CallsOf
    <3>2. HandshakeInv'
      BY DEF TypeOK, HandshakeInv
    <3>3. TrafficInv'
      BY DEF TrafficInv
    <3>4. RerunInv'
      BY DEF TypeOK, RerunInv, CallsOf, Runs
    <3> QED BY <3>1, <3>2, <3>3, <3>4
  <2> QED BY <1>2, <2>1, <2>2 DEF ConnectAnswer
<1>3. CASE ConnectTimeout(r)
  <2>1. socket[r] # "none"
    BY <1>3 DEF ConnectTimeout, IInv, HandshakeInv
  <2> QED BY <1>3, <2>1, FailKeeps DEF ConnectTimeout
<1>4. CASE ErrorEvent(r)
  BY <1>4, FailKeeps DEF ErrorEvent, WireIsUp
<1>5. CASE CloseEvent(r)
  <2>1. CASE FailSession(r, "other")
    BY <1>5, <2>1, FailKeeps DEF CloseEvent, WireIsUp
  <2>2. CASE UNCHANGED <<phase, thrown, sessionError, callVars>> /\ socketClosed' = socketClosed \cup {r}
    BY <1>5, <2>2 DEF CloseEvent, WireIsUp, callVars, gatewayVars, IInv, TypeOK,
       DeadSessionHoldsNobody, Waiting, CallsOf, HandshakeInv, TrafficInv, RerunInv
  <2> QED BY <1>5, <2>1, <2>2 DEF CloseEvent
<1> QED BY <1>1, <1>2, <1>3, <1>4, <1>5 DEF SocketStep

LEMMA BodyStepKeeps ==
    ASSUME IInv, NEW r \in Runs, BodyEnds(r) \/ Catch(r)
    PROVE  IInv'
<1> USE DEF IInv, callVars, gatewayVars
<1>1. CASE BodyReturns(r)
  <2> USE <1>1 DEF BodyReturns
  <2>1. TypeOK' /\ DeadSessionHoldsNobody' /\ HandshakeInv' /\ TrafficInv'
    BY DEF TypeOK, DeadSessionHoldsNobody, Waiting, CallsOf, HandshakeInv, TrafficInv
  <2>2. RerunInv'
    BY DEF TypeOK, RerunInv, CallsOf, Runs
  <2> QED BY <2>1, <2>2
<1>2. CASE BodyThrows(r)
  <2>1. PICK error \in Errors :
          /\ (\E c \in CallsOf(r) : result[c] = error) \/ error = "other"
          /\ thrown' = [thrown EXCEPT ![r] = error]
    BY <1>2 DEF BodyThrows
  <2> USE <1>2, <2>1 DEF BodyThrows
  <2>2. TypeOK' /\ DeadSessionHoldsNobody' /\ HandshakeInv' /\ TrafficInv'
    BY DEF TypeOK, DeadSessionHoldsNobody, Waiting, CallsOf, HandshakeInv, TrafficInv
  <2>3. error = "scope" => \E c \in CallsOf(r) : reply[c] = "scope"
    BY DEF TrafficInv, CallsOf
  <2>4. RerunInv'
    BY <2>3 DEF TypeOK, RerunInv, CallsOf, Runs
  <2> QED BY <2>2, <2>4
<1>3. CASE Catch(r)
  <2> USE <1>3 DEF Catch
  <2>1. TypeOK' /\ DeadSessionHoldsNobody' /\ HandshakeInv' /\ TrafficInv'
    BY DEF TypeOK, DeadSessionHoldsNobody, Waiting, CallsOf, HandshakeInv, TrafficInv, Runs
  <2>2. RerunInv'
    BY DEF TypeOK, RerunInv, CallsOf, Runs
  <2> QED BY <2>1, <2>2
<1> QED BY <1>1, <1>2, <1>3 DEF BodyEnds

LEMMA CallStepKeeps ==
    ASSUME IInv, NEW c \in Calls,
           (\E r \in Runs : Call(r, c)) \/ Execute(c) \/ Answer(c) \/ Timeout(c)
    PROVE  IInv'
<1> USE DEF IInv, sessionVars, gatewayVars
<1>1. CASE \E r \in Runs : Call(r, c)
  <2>1. PICK r \in Runs : Call(r, c)
    BY <1>1
  <2> USE <2>1 DEF Call
  <2>2. r \in connected /\ sessionError[r] # "scope" /\ c[1] = r
    BY DEF HandshakeInv, CallsOf
  <2>3. TypeOK'
    BY DEF TypeOK, Errors
  <2>4. DeadSessionHoldsNobody'
    BY <2>2 DEF TypeOK, DeadSessionHoldsNobody, Waiting, CallsOf, Errors
  <2>5. HandshakeInv' /\ RerunInv'
    BY DEF HandshakeInv, RerunInv, CallsOf
  <2>6. TrafficInv'
    BY <2>2 DEF TypeOK, TrafficInv, Errors
  <2> QED BY <2>3, <2>4, <2>5, <2>6
<1>2. CASE Execute(c)
  <2> USE <1>2 DEF Execute, callVars
  <2>1. TypeOK' /\ DeadSessionHoldsNobody' /\ HandshakeInv'
    BY DEF TypeOK, DeadSessionHoldsNobody, Waiting, CallsOf, HandshakeInv, Errors
  <2>2. TrafficInv' /\ RerunInv'
    BY DEF TypeOK, TrafficInv, RerunInv, CallsOf
  <2> QED BY <2>1, <2>2
<1>3. CASE Answer(c) \/ Timeout(c)
  <2> USE <1>3 DEF Answer, Timeout
  <2>1. TypeOK'
    BY DEF TypeOK, TrafficInv, Errors
  <2>2. DeadSessionHoldsNobody' /\ HandshakeInv'
    BY DEF TypeOK, DeadSessionHoldsNobody, Waiting, CallsOf, HandshakeInv
  <2>3. TrafficInv' /\ RerunInv'
    BY DEF TypeOK, TrafficInv, RerunInv, CallsOf, Errors
  <2> QED BY <2>1, <2>2, <2>3
<1> QED BY <1>1, <1>2, <1>3

LEMMA StepKeeps == IInv /\ [Next]_vars => IInv'
<1> SUFFICES ASSUME IInv, [Next]_vars PROVE IInv'
  OBVIOUS
<1>1. CASE UNCHANGED vars
  BY <1>1 DEF vars, sessionVars, callVars, gatewayVars, IInv, TypeOK,
     DeadSessionHoldsNobody, Waiting, CallsOf, HandshakeInv, TrafficInv, RerunInv
<1>2. ASSUME NEW r \in Runs, OpenSession(r) \/ SocketStep(r) \/ BodyEnds(r) \/ Catch(r)
      PROVE  IInv'
  BY <1>2, OpenSessionKeeps, SocketStepKeeps, BodyStepKeeps
<1>3. ASSUME NEW c \in Calls, (\E r \in Runs : Call(r, c)) \/ Execute(c) \/ Answer(c) \/ Timeout(c)
      PROVE  IInv'
  BY <1>3, CallStepKeeps
<1> QED BY <1>1, <1>2, <1>3 DEF Next, Over

-----------------------------------------------------------------------------

LEMMA InvariantHolds == Spec => []IInv
<1> QED BY InitInv, StepKeeps, PTL DEF Spec

\* The types of a session, and that its map holds exactly the calls whose
\* promise is open (openSession's pending), however long the bodies are.
THEOREM TypeCorrect == Spec => []TypeOK
<1>1. IInv => TypeOK
  BY DEF IInv
<1> QED BY <1>1, InvariantHolds, PTL

\* No call waits on a session that has failed (failSession rejects them all,
\* and later calls are rejected on the spot).
THEOREM DeadSessionsHoldNobody == Spec => []DeadSessionHoldsNobody
<1>1. IInv => DeadSessionHoldsNobody
  BY DEF IInv
<1> QED BY <1>1, InvariantHolds, PTL

\* What a first run did is asked for again only after the gateway refused one
\* of its calls for a scope (the catch of withSession).
THEOREM SecondRunNeedsCause == Spec => []SecondRunHasCause
<1>1. IInv => SecondRunHasCause
  <2> SUFFICES ASSUME IInv, sent \cap CallsOf(2) # {},
                      NEW s \in 1 .. Steps, reply[<<1, s>>] = "done"
               PROVE  \E u \in 1 .. Steps : reply[<<1, u>>] = "scope"
    BY DEF SecondRunHasCause
  <2>1. 2 \in connected
    BY DEF IInv, TypeOK, TrafficInv, CallsOf
  <2>2. thrown[1] = "scope"
    BY <2>1 DEF IInv, HandshakeInv, RerunInv, Runs, Young
  <2>3. <<1, s>> \in Calls /\ <<1, s>>[1] = 1
    BY DEF Calls, Runs
  <2>4. 1 \in connected
    BY <2>3 DEF IInv, TrafficInv
  <2>5. PICK c \in CallsOf(1) : reply[c] = "scope"
    BY <2>2, <2>4 DEF IInv, HandshakeInv, RerunInv, Runs
  <2> QED BY <2>5 DEF CallsOf, Calls
<1> QED BY <1>1, InvariantHolds, PTL

-----------------------------------------------------------------------------
(* The refinement.                                                          *)

Outcomes == [c \in Calls |-> Outcome(c)]
Effects == {c \in Calls : reply[c] = "done"}

LEMMA OutcomeOf ==
    ASSUME NEW c \in Calls
    PROVE  /\ result[c] = "done" => Outcome(c) = "answered"
           /\ result[c] \in Errors => Outcome(c) = "failed"
           /\ result[c] \notin Errors \cup {"done"} => Outcome(c) = result[c]
  BY DEF Outcome, Errors

LEMMA OutcomeOfNext ==
    ASSUME NEW c \in Calls
    PROVE  /\ result'[c] = "done" => Outcome(c)' = "answered"
           /\ result'[c] \in Errors => Outcome(c)' = "failed"
           /\ result'[c] \notin Errors \cup {"done"} => Outcome(c)' = result'[c]
  BY DEF Outcome, Errors

\* A step that changes neither results nor replies changes no outcome.
LEMMA Quiet ==
    ASSUME UNCHANGED <<result, reply>>
    PROVE  Outcomes' = Outcomes /\ Effects' = Effects
  BY DEF Outcomes, Outcome, Effects

\* A session that fails, fails the calls in its map and no other.
LEMMA FailIsFail ==
    ASSUME IInv, NEW r \in Runs, NEW error \in Errors, FailSession(r, error),
           UNCHANGED <<reply, promise>>
    PROVE  Promised!Fail(pending \cap CallsOf(r))
<1> DEFINE S == pending \cap CallsOf(r)
           reason == IF sessionError[r] = "none" THEN error ELSE sessionError[r]
<1>1. reason \in Errors
  BY DEF IInv, TypeOK
<1>2. result' = [c \in Calls |-> IF c \in S THEN reason ELSE result[c]]
  BY DEF FailSession
<1> HIDE DEF reason
<1>3. \A c \in S : Outcomes[c] = "waiting"
  BY OutcomeOf DEF IInv, TypeOK, Outcomes, Errors, CallsOf
<1>4. \A c \in Calls : Outcome(c)' = IF c \in S THEN "failed" ELSE Outcomes[c]
  BY <1>1, <1>2, OutcomeOf, OutcomeOfNext DEF Outcomes, Outcome
<1>5. Outcomes' = [c \in Calls |-> IF c \in S THEN "failed" ELSE Outcomes[c]]
  BY <1>4 DEF Outcomes
<1>6. Effects' = Effects
  BY DEF Effects
<1> QED BY <1>3, <1>5, <1>6 DEF Promised!Fail, Outcomes, Effects

LEMMA SocketStepIsPromised ==
    ASSUME IInv, NEW r \in Runs, OpenSession(r) \/ SocketStep(r)
    PROVE  Promised!Next \/ UNCHANGED Promised!vars
<1>1. UNCHANGED <<reply, promise>>
  BY DEF OpenSession, SocketStep, OpenEvent, ConnectAnswer, ConnectTimeout, ErrorEvent,
         CloseEvent, gatewayVars
<1>2. CASE UNCHANGED result
  BY <1>1, <1>2, Quiet DEF Promised!vars, Outcomes, Effects
<1>3. CASE \E error \in Errors : FailSession(r, error)
  <2>1. PICK error \in Errors : FailSession(r, error)
    BY <1>3
  <2>2. Promised!Fail(pending \cap CallsOf(r))
    BY <1>1, <2>1, FailIsFail
  <2>3. pending \cap CallsOf(r) \in SUBSET Calls
    BY DEF CallsOf
  <2> QED BY <2>2, <2>3 DEF Promised!Next
<1>4. UNCHANGED result \/ \E error \in Errors : FailSession(r, error)
  BY DEF OpenSession, SocketStep, OpenEvent, ConnectAnswer, ConnectTimeout, ErrorEvent,
         CloseEvent, sessionVars, callVars, Errors
<1> QED BY <1>2, <1>3, <1>4

LEMMA BodyStepIsPromised ==
    ASSUME IInv, NEW r \in Runs, BodyEnds(r) \/ Catch(r)
    PROVE  Promised!Next \/ UNCHANGED Promised!vars
<1>1. UNCHANGED <<result, reply>>
  BY DEF BodyEnds, BodyReturns, BodyThrows, Catch, callVars, gatewayVars
<1>2. Outcomes' = Outcomes /\ Effects' = Effects
  BY <1>1, Quiet
<1>3. promise' = promise \/ (promise = "open" /\ promise' \in {"resolved", "rejected"})
  BY DEF BodyEnds, BodyReturns, BodyThrows, Catch, IInv, RerunInv
<1> QED BY <1>2, <1>3 DEF Promised!Next, Promised!Return, Promised!vars, Outcomes, Effects

LEMMA CallIsMake ==
    ASSUME IInv, NEW c \in Calls, NEW r \in Runs, Call(r, c)
    PROVE  Promised!Make(c)
<1>1. promise = "open" /\ promise' = promise /\ Effects' = Effects
  BY DEF Call, IInv, RerunInv, Effects
<1>2. PICK o \in {"waiting"} \cup Errors : result' = [result EXCEPT ![c] = o]
  BY DEF Call, IInv, TypeOK, Errors
<1>3. result[c] = "unmade"
  BY DEF Call
<1>4. Outcomes[c] = "unmade"
  BY <1>3, OutcomeOf DEF Outcomes, Errors
<1>5. result'[c] = o
  BY <1>2 DEF IInv, TypeOK
<1>6. Outcome(c)' \in {"waiting", "failed"}
  BY <1>2, <1>5, OutcomeOfNext DEF Errors
<1>7. \A d \in Calls \ {c} : Outcome(d)' = Outcome(d)
  BY <1>2 DEF Outcome, IInv, TypeOK
<1>8. Outcomes' = [Outcomes EXCEPT ![c] = Outcome(c)']
  BY <1>7 DEF Outcomes
<1> QED BY <1>1, <1>4, <1>6, <1>8 DEF Promised!Make, Outcomes, Effects

LEMMA ExecuteIsPromised ==
    ASSUME IInv, NEW c \in Calls, Execute(c)
    PROVE  Promised!Next \/ UNCHANGED Promised!vars
<1>1. /\ UNCHANGED <<result, promise>>
      /\ result[c] # "unmade"
  BY DEF Execute, callVars, IInv, TrafficInv
<1>2. Outcomes' = Outcomes
  BY <1>1 DEF Outcomes, Outcome
<1>3. PICK outcome \in {"done"} \cup Errors : reply' = [reply EXCEPT ![c] = outcome]
  BY DEF Execute
<1>4. reply[c] = "none" /\ reply'[c] = outcome
  BY <1>3 DEF Execute, IInv, TypeOK
<1>5. CASE outcome = "done"
  <2>1. Effects' = Effects \cup {c}
    BY <1>3, <1>4, <1>5 DEF Effects, IInv, TypeOK
  <2>2. Outcomes[c] # "unmade"
    BY <1>1, OutcomeOf DEF Outcomes
  <2> QED BY <1>1, <1>2, <2>1, <2>2 DEF Promised!Next, Promised!TakeEffect, Outcomes, Effects
<1>6. CASE outcome \in Errors
  <2>1. Effects' = Effects
    BY <1>3, <1>4, <1>6 DEF Effects, Errors, IInv, TypeOK
  <2> QED BY <1>1, <1>2, <2>1 DEF Promised!vars, Outcomes, Effects
<1> QED BY <1>5, <1>6

\* An answer settles its call for good or ill; so does its timer, for ill.
LEMMA SettleIsPromised ==
    ASSUME IInv, NEW c \in Calls, Answer(c) \/ Timeout(c)
    PROVE  Promised!Next
<1>1. /\ UNCHANGED <<reply, promise>>
      /\ c \in pending
  BY DEF Answer, Timeout, gatewayVars
<1>2. result[c] = "waiting" /\ Effects' = Effects
  BY <1>1 DEF IInv, TypeOK, Effects
<1>3. PICK outcome \in {"done"} \cup Errors :
          /\ result' = [result EXCEPT ![c] = outcome]
          /\ outcome = "done" => c \in Effects
  BY DEF Answer, Timeout, Errors, Effects, IInv, TypeOK
<1>4. Outcomes[c] = "waiting"
  BY <1>2, OutcomeOf DEF Outcomes, Errors
<1>5. result'[c] = outcome
  BY <1>3 DEF IInv, TypeOK
<1>6. \A d \in Calls \ {c} : Outcome(d)' = Outcome(d)
  BY <1>3 DEF Outcome, IInv, TypeOK
<1>7. CASE outcome = "done"
  <2>1. Outcomes' = [Outcomes EXCEPT ![c] = "answered"]
    BY <1>5, <1>6, <1>7, OutcomeOfNext DEF Outcomes
  <2> QED BY <1>1, <1>2, <1>3, <1>4, <1>7, <2>1 DEF Promised!Next, Promised!Resolve, Outcomes, Effects
<1>8. CASE outcome \in Errors
  <2>1. Outcomes' = [d \in Calls |-> IF d \in {c} THEN "failed" ELSE Outcomes[d]]
    BY <1>5, <1>6, <1>8, OutcomeOfNext DEF Outcomes
  <2>2. Promised!Fail({c})
    BY <1>1, <1>2, <1>4, <2>1 DEF Promised!Fail, Outcomes, Effects
  <2> QED BY <2>2 DEF Promised!Next
<1> QED BY <1>7, <1>8

LEMMA StepIsPromised == IInv /\ [Next]_vars => [Promised!Next]_(Promised!vars)
<1> SUFFICES ASSUME IInv, [Next]_vars PROVE Promised!Next \/ UNCHANGED Promised!vars
  OBVIOUS
<1>1. CASE UNCHANGED vars
  BY <1>1, Quiet DEF vars, callVars, gatewayVars, Promised!vars, Outcomes, Effects
<1>2. ASSUME NEW r \in Runs, OpenSession(r) \/ SocketStep(r) \/ BodyEnds(r) \/ Catch(r)
      PROVE  Promised!Next \/ UNCHANGED Promised!vars
  BY <1>2, SocketStepIsPromised, BodyStepIsPromised
<1>3. ASSUME NEW r \in Runs, NEW c \in Calls, Call(r, c)
      PROVE  Promised!Next
  BY <1>3, CallIsMake DEF Promised!Next
<1>4. ASSUME NEW c \in Calls, Execute(c) \/ Answer(c) \/ Timeout(c)
      PROVE  Promised!Next \/ UNCHANGED Promised!vars
  BY <1>4, ExecuteIsPromised, SettleIsPromised
<1> QED BY <1>1, <1>2, <1>3, <1>4 DEF Next, Over

\* withSession keeps what GatewayCalls promises, short of liveness: a call is
\* settled once, one that resolves was carried out, and nothing the network,
\* the gateway or a timer does after that changes what the caller learned.
THEOREM SessionImplementsCalls == Spec => Promised!Safety
<1>1. Init => Promised!Init
  <2> SUFFICES ASSUME Init PROVE Promised!Init
    OBVIOUS
  <2>1. \A c \in Calls : Outcome(c) = "unmade"
    BY OutcomeOf DEF Init, Errors
  <2> QED BY <2>1 DEF Init, Promised!Init
<1> QED BY <1>1, StepIsPromised, InvariantHolds, PTL DEF Spec, Promised!Safety

-----------------------------------------------------------------------------
(* Hosted gateways.                                                         *)

Assigned == [shard : ShardIds, status : {"active", "draining", "disabled"}]
Stations == {"idle", "assign", "list", "upsert", "provision", "use"}

\* What goes together in a request.
RequestForm(r) ==
    /\ at[r] = "idle" <=> plan[r] = <<>>
    /\ IF at[r] = "idle" THEN about[r] = {} ELSE \E o \in Organisations : about[r] = {o}
    /\ at[r] = "upsert" => found[r] \in ShardIds
    /\ at[r] = "use" => found[r] \in ShardIds \cup {Env}

AssignmentTypes ==
    /\ pool \in Pools
    /\ row \in [Organisations -> Assigned \cup {NoShard}]
    /\ home \in [Organisations -> SUBSET (ShardIds \cup {Env})]
    /\ at \in [Requests -> Stations]
    /\ plan \in [Requests -> Routes \cup {<<>>}]
    /\ about \in [Requests -> SUBSET Organisations]
    /\ sees \in [Requests -> Pools \cup {<<>>}]
    /\ found \in [Requests -> ShardIds \cup {NoShard, Env}]
    /\ \A r \in Requests : RequestForm(r)

\* Where nothing moved o, one request at a time is about it, and its agents
\* are on the shard of its assignment, which stays.
RouteInv(o) ==
    (\A m \in moves : m[1] # o) =>
        /\ \A r, q \in Requests : o \in about[r] /\ o \in about[q] => r = q
        /\ home[o] # {} => Active(o) /\ home[o] \subseteq {row[o].shard}
        /\ \A r \in Requests : o \in about[r] =>
              /\ at[r] \in {"list", "upsert"} => ~Active(o)
              /\ at[r] = "use" => Active(o) /\ found[r] = row[o].shard

RequestAct(r) ==
    \/ ReadAssignment(r) \/ PickLeastLoaded(r) \/ UpsertAssignment(r)
    \/ ResolveTarget(r) \/ Use(r) \/ Perish(r)
    \/ \E o \in Organisations, route \in Routes : Begin(r, o, route)

LEMMA RouteParts ==
    ASSUME NEW route \in Routes
    PROVE  /\ route # <<>>
           /\ Head(route) \in {"assign", "provision"}
           /\ Tail(route) \in Routes \cup {<<>>}
<1>1. CASE route = <<"assign">>
  <2>1. route # <<>> /\ Head(route) = "assign" /\ Tail(route) = <<>>
    BY <1>1
  <2> QED  BY <2>1
<1>2. CASE route = <<"provision">>
  <2>1. route # <<>> /\ Head(route) = "provision" /\ Tail(route) = <<>>
    BY <1>2
  <2> QED  BY <2>1
<1>3. CASE route = <<"assign", "provision">>
  <2>1. route # <<>> /\ Head(route) = "assign" /\ Tail(route) = <<"provision">>
    BY <1>3
  <2> QED  BY <2>1 DEF Routes
<1> QED  BY <1>1, <1>2, <1>3 DEF Routes

\* The request of r is set to these values.
Turns(r, label, what, org, seen, shard) ==
    /\ at' = [at EXCEPT ![r] = label]
    /\ plan' = [plan EXCEPT ![r] = what]
    /\ about' = [about EXCEPT ![r] = org]
    /\ sees' = [sees EXCEPT ![r] = seen]
    /\ found' = [found EXCEPT ![r] = shard]

LEMMA StageTurns ==
    ASSUME AssignmentTypes, NEW r \in Requests, NEW label, NEW what, Stage(r, label, what)
    PROVE  Turns(r, label, plan[r], about[r], sees[r], what)
BY DEF AssignmentTypes, Stage, Turns

\* A request that is at work ends, or goes on to the next thing.
LEMMA FinishTurns ==
    ASSUME AssignmentTypes, NEW r \in Requests, at[r] # "idle", Finish(r)
    PROVE  \/ Turns(r, "idle", <<>>, {}, <<>>, NoShard)
           \/ \E label \in {"assign", "provision"}, route \in Routes :
                 Turns(r, label, route, about[r], sees[r], NoShard)
<1> DEFINE rest == Tail(plan[r])
<1>1. RequestForm(r) /\ plan[r] \in Routes \cup {<<>>}
  BY DEF AssignmentTypes
<1>2. plan[r] \in Routes
  BY <1>1 DEF RequestForm
<1>3. rest \in Routes \cup {<<>>}
  BY <1>2, RouteParts
<1>4. CASE rest = <<>>
  <2>1. Turns(r, "idle", <<>>, {}, <<>>, NoShard)
    BY <1>4 DEF Finish, Turns
  <2> QED  BY <2>1
<1>5. CASE rest # <<>>
  <2>1. rest \in Routes /\ Head(rest) \in {"assign", "provision"}
    BY <1>3, <1>5, RouteParts
  <2>2. Turns(r, Head(rest), rest, about[r], sees[r], NoShard)
    BY <1>5 DEF Finish, Turns, AssignmentTypes
  <2> QED  BY <2>1, <2>2
<1> QED  BY <1>4, <1>5

\* Who is at work has one organisation.
LEMMA OrgIs ==
    ASSUME AssignmentTypes, NEW r \in Requests, at[r] # "idle"
    PROVE  Org(r) \in Organisations /\ about[r] = {Org(r)}
<1>1. RequestForm(r)
  BY DEF AssignmentTypes
<1>2. PICK o \in Organisations : about[r] = {o}
  BY <1>1 DEF RequestForm
<1> QED  BY <1>2 DEF Org

LEMMA SeenIsSequence ==
    ASSUME NEW p \in Pools \cup {<<>>}
    PROVE  p \in Seq(ShardIds) /\ Shards(p) \subseteq ShardIds
<1>1. <<>> \in Seq(ShardIds) /\ Pools \subseteq Seq(ShardIds)
  BY AssignmentAssumption
<1>2. p \in Seq(ShardIds)
  BY <1>1
<1> QED  BY <1>2 DEF Shards

\* A target is a shard of the pool or of the assignment, or the one gateway.
LEMMA TargetTypes ==
    ASSUME AssignmentTypes, NEW o \in Organisations, NEW p \in Pools \cup {<<>>}
    PROVE  /\ Target(o, p) \in ShardIds \cup {NoShard, Env}
           /\ Active(o) => Target(o, p) \in {row[o].shard, NoShard}
<1>1. row[o] \in Assigned \cup {NoShard} /\ p \in Seq(ShardIds)
  BY SeenIsSequence DEF AssignmentTypes
<1>2. Active(o) => row[o].shard \in ShardIds
  BY <1>1 DEF Active, Assigned
<1>3. p # <<>> => ShardByHash(o, p) \in ShardIds
  <2>1. /\ \A i \in 1 .. Len(p) : p[i] \in ShardIds
        /\ Len(p) \in Nat /\ (p # <<>> => Len(p) > 0)
        /\ Shards(p) \subseteq ShardIds
    BY <1>1 DEF Shards
  <2>2. Hash[o] \in Nat
    BY AssignmentAssumption
  <2>3. p # <<>> => 1 + (Hash[o] % Len(p)) \in 1 .. Len(p)
    BY <2>1, <2>2
  <2> QED  BY <2>1, <2>3 DEF ShardByHash
<1> QED  BY <1>2, <1>3 DEF Target

\* Where a step takes a request.
Route(r) ==
    \/ Turns(r, "idle", <<>>, {}, <<>>, NoShard)
    \/ at[r] # "idle" /\ \E label \in {"assign", "provision"}, route \in Routes :
          Turns(r, label, route, about[r], sees[r], NoShard)
    \/ at[r] = "assign" /\ Turns(r, "list", plan[r], about[r], sees[r], NoShard)
    \/ at[r] = "list" /\ \E s \in ShardIds :
          Turns(r, "upsert", plan[r], about[r], sees[r], s)
    \/ at[r] = "provision" /\ \E s \in ShardIds \cup {Env} :
          /\ Turns(r, "use", plan[r], about[r], sees[r], s)
          /\ Active(Org(r)) => s = row[Org(r)].shard
    \/ at[r] = "idle" /\ \E o \in Organisations, route \in Routes :
          /\ Begin(r, o, route)
          /\ Turns(r, Head(route), route, {o}, pool, found[r])

LEMMA RequestRoute ==
    ASSUME AssignmentTypes, NEW r \in Requests, RequestAct(r)
    PROVE  Route(r)
<1>1. ASSUME NEW o \in Organisations, NEW route \in Routes, Begin(r, o, route)
      PROVE  Route(r)
  <2>1. at[r] = "idle" /\ Turns(r, Head(route), route, {o}, pool, found[r])
    BY <1>1 DEF Begin, Turns, AssignmentTypes
  <2> QED  BY <1>1, <2>1 DEF Route
<1>2. ASSUME at[r] # "idle", Finish(r)
      PROVE  Route(r)
  BY <1>2, FinishTurns DEF Route
<1>3. CASE ReadAssignment(r)
  <2>1. at[r] = "assign" /\ (Finish(r) \/ Stage(r, "list", NoShard))
    BY <1>3 DEF ReadAssignment
  <2> QED  BY <1>2, <2>1, StageTurns DEF Route
<1>4. CASE PickLeastLoaded(r)
  <2>1. sees[r] \in Pools \cup {<<>>}
    BY DEF AssignmentTypes
  <2>2. Shards(sees[r]) \subseteq ShardIds
    BY <2>1, SeenIsSequence
  <2>3. at[r] = "list" /\ (Finish(r) \/ \E s \in ShardIds : Stage(r, "upsert", s))
    BY <1>4, <2>2 DEF PickLeastLoaded
  <2> QED  BY <1>2, <2>3, StageTurns DEF Route
<1>5. CASE UpsertAssignment(r)
  BY <1>2, <1>5 DEF UpsertAssignment
<1>6. CASE ResolveTarget(r)
  <2> DEFINE target == Target(Org(r), sees[r])
  <2>0. at[r] = "provision"
    BY <1>6 DEF ResolveTarget
  <2>1. Finish(r) \/ (target # NoShard /\ Stage(r, "use", target))
    BY <1>6, Zenon DEF ResolveTarget
  <2>2. sees[r] \in Pools \cup {<<>>} /\ Org(r) \in Organisations
    BY <2>0, OrgIs DEF AssignmentTypes
  <2>3. /\ target \in ShardIds \cup {NoShard, Env}
        /\ Active(Org(r)) => target \in {row[Org(r)].shard, NoShard}
    BY <2>2, TargetTypes
  <2> HIDE DEF target
  <2>4. CASE target # NoShard /\ Stage(r, "use", target)
    <3>1. Turns(r, "use", plan[r], about[r], sees[r], target)
      BY <2>4, StageTurns
    <3>2. target \in ShardIds \cup {Env} /\ (Active(Org(r)) => target = row[Org(r)].shard)
      BY <2>3, <2>4
    <3> QED  BY <2>0, <3>1, <3>2 DEF Route
  <2> QED  BY <1>2, <2>0, <2>1, <2>4
<1>7. CASE Use(r)
  BY <1>2, <1>7 DEF Use
<1>8. CASE Perish(r)
  <2>1. Turns(r, "idle", <<>>, {}, <<>>, NoShard)
    BY <1>8 DEF Perish, Turns
  <2> QED  BY <2>1 DEF Route
<1> QED  BY <1>1, <1>3, <1>4, <1>5, <1>6, <1>7, <1>8 DEF RequestAct

AssignmentAct ==
    \/ \E r \in Requests : RequestAct(r)
    \/ Deploy
    \/ \E o \in Organisations : Drain(o)

LEMMA TurnsTypes ==
    ASSUME AssignmentTypes, NEW r \in Requests, NEW label \in Stations,
           NEW what \in Routes \cup {<<>>}, NEW org \in SUBSET Organisations,
           NEW seen \in Pools \cup {<<>>}, NEW shard \in ShardIds \cup {NoShard, Env},
           Turns(r, label, what, org, seen, shard),
           label = "idle" <=> what = <<>>,
           IF label = "idle" THEN org = {} ELSE \E o \in Organisations : org = {o},
           label = "upsert" => shard \in ShardIds,
           label = "use" => shard \in ShardIds \cup {Env},
           pool' \in Pools, row' \in [Organisations -> Assigned \cup {NoShard}],
           home' \in [Organisations -> SUBSET (ShardIds \cup {Env})]
    PROVE  AssignmentTypes'
<1>1. /\ at' \in [Requests -> Stations]
      /\ plan' \in [Requests -> Routes \cup {<<>>}]
      /\ about' \in [Requests -> SUBSET Organisations]
      /\ sees' \in [Requests -> Pools \cup {<<>>}]
      /\ found' \in [Requests -> ShardIds \cup {NoShard, Env}]
  BY DEF Turns, AssignmentTypes
<1>2. ASSUME NEW q \in Requests
      PROVE  RequestForm(q)'
  <2>1. CASE q = r
    <3>1. at'[r] = label /\ plan'[r] = what /\ about'[r] = org /\ found'[r] = shard
      BY DEF Turns, AssignmentTypes
    <3> QED  BY <2>1, <3>1 DEF RequestForm
  <2>2. CASE q # r
    <3>1. RequestForm(q)
      BY DEF AssignmentTypes
    <3>2. at'[q] = at[q] /\ plan'[q] = plan[q] /\ about'[q] = about[q] /\ found'[q] = found[q]
      BY <2>2 DEF Turns, AssignmentTypes
    <3> QED  BY <3>1, <3>2 DEF RequestForm
  <2> QED  BY <2>1, <2>2
<1> QED  BY <1>1, <1>2 DEF AssignmentTypes

\* What a step does to the table, the agents and the pool.
LEMMA RequestWrites ==
    ASSUME AssignmentTypes, NEW r \in Requests, RequestAct(r)
    PROVE  /\ pool' = pool
           /\ \/ row' = row
              \/ /\ at[r] = "upsert" /\ UpsertAssignment(r)
                 /\ row' = [row EXCEPT ![Org(r)] = [shard |-> found[r], status |-> "active"]]
           /\ \/ home' = home
              \/ /\ at[r] = "use"
                 /\ home' = [home EXCEPT ![Org(r)] = @ \cup {found[r]}]
           /\ \A m \in moves : m \in moves'
BY DEF RequestAct, ReadAssignment, PickLeastLoaded, UpsertAssignment, ResolveTarget, Use,
   Perish, Begin, Moved

LEMMA AssignmentTypesStep ==
    ASSUME AssignmentTypes, AssignmentAct
    PROVE  AssignmentTypes'
<1>1. ASSUME NEW r \in Requests, RequestAct(r)
      PROVE  AssignmentTypes'
  <2>0. RequestForm(r)
    BY DEF AssignmentTypes
  <2>1. /\ pool' \in Pools
        /\ row' \in [Organisations -> Assigned \cup {NoShard}]
        /\ home' \in [Organisations -> SUBSET (ShardIds \cup {Env})]
    <3>1. pool \in Pools /\ row \in [Organisations -> Assigned \cup {NoShard}]
          /\ home \in [Organisations -> SUBSET (ShardIds \cup {Env})]
      BY DEF AssignmentTypes
    <3>2. at[r] = "upsert" => [shard |-> found[r], status |-> "active"] \in Assigned
      BY <2>0 DEF RequestForm, Assigned
    <3>3. at[r] = "use" => found[r] \in ShardIds \cup {Env}
      BY <2>0 DEF RequestForm
    <3> QED  BY <1>1, <3>1, <3>2, <3>3, RequestWrites
  <2>2. /\ about[r] \in SUBSET Organisations /\ sees[r] \in Pools \cup {<<>>}
        /\ plan[r] \in Routes \cup {<<>>} /\ found[r] \in ShardIds \cup {NoShard, Env}
        /\ pool \in Pools
    BY DEF AssignmentTypes
  <2>3. CASE Turns(r, "idle", <<>>, {}, <<>>, NoShard)
    <3>1. "idle" \in Stations
      BY DEF Stations
    <3> QED  BY <2>1, <2>3, <3>1, TurnsTypes
  <2>4. ASSUME NEW label \in {"assign", "provision"}, NEW route \in Routes,
               NEW org \in SUBSET Organisations, NEW seen \in Pools \cup {<<>>},
               NEW shard \in ShardIds \cup {NoShard, Env},
               Turns(r, label, route, org, seen, shard), \E o \in Organisations : org = {o}
        PROVE  AssignmentTypes'
    <3>1. label \in Stations /\ label \notin {"idle", "upsert", "use"} /\ route # <<>>
      BY RouteParts DEF Stations
    <3>2. route \in Routes \cup {<<>>}
      OBVIOUS
    <3> QED  BY <2>1, <2>4, <3>1, <3>2, TurnsTypes
  <2>5. ASSUME NEW label \in {"list", "upsert", "use"}, at[r] # "idle",
               NEW shard \in ShardIds \cup {NoShard, Env},
               label = "upsert" => shard \in ShardIds,
               label = "use" => shard \in ShardIds \cup {Env},
               Turns(r, label, plan[r], about[r], sees[r], shard)
        PROVE  AssignmentTypes'
    <3>1. label \in Stations /\ label # "idle" /\ plan[r] # <<>>
      BY <2>0, <2>5 DEF Stations, RequestForm
    <3>2. \E o \in Organisations : about[r] = {o}
      BY <2>0, <2>5 DEF RequestForm
    <3> QED  BY <2>1, <2>2, <2>5, <3>1, <3>2, TurnsTypes
  <2>6. ASSUME at[r] # "idle", NEW label \in {"assign", "provision"}, NEW route \in Routes,
               Turns(r, label, route, about[r], sees[r], NoShard)
        PROVE  AssignmentTypes'
    <3>1. \E o \in Organisations : about[r] = {o}
      BY <2>0, <2>6 DEF RequestForm
    <3> QED  BY <2>2, <2>4, <2>6, <3>1
  <2>7. ASSUME NEW o \in Organisations, NEW route \in Routes,
               Turns(r, Head(route), route, {o}, pool, found[r])
        PROVE  AssignmentTypes'
    <3>1. Head(route) \in {"assign", "provision"}
      BY RouteParts
    <3> QED  BY <2>2, <2>4, <2>7, <3>1
  <2>8. Route(r)
    BY <1>1, RequestRoute
  <2>9. CASE at[r] = "idle"
    BY <2>3, <2>7, <2>8, <2>9 DEF Route
  <2>10. CASE at[r] # "idle"
    BY <2>3, <2>5, <2>6, <2>8, <2>10 DEF Route
  <2> QED  BY <2>9, <2>10
<1>2. CASE Deploy
  BY <1>2 DEF Deploy, AssignmentTypes, RequestForm, requestVars
<1>3. ASSUME NEW o \in Organisations, Drain(o)
      PROVE  AssignmentTypes'
  <2>1. row[o] \in Assigned
    BY <1>3 DEF Drain, Active, AssignmentTypes
  <2>2. \A s \in {"draining", "disabled"} : [row[o] EXCEPT !.status = s] \in Assigned
    BY <2>1 DEF Assigned
  <2>3. row' \in [Organisations -> Assigned \cup {NoShard}]
    BY <1>3, <2>2 DEF Drain, AssignmentTypes
  <2> QED  BY <1>3, <2>3 DEF Drain, AssignmentTypes, RequestForm, requestVars
<1> QED  BY <1>1, <1>2, <1>3 DEF AssignmentAct

\* A request that is not about o leaves it alone.
LEMMA RouteElsewhere ==
    ASSUME AssignmentTypes, NEW r \in Requests, RequestAct(r), NEW o \in Organisations,
           RouteInv(o), o \notin about[r], o \notin about'[r]
    PROVE  RouteInv(o)'
<1>1. \A m \in moves : m \in moves'
  BY RequestWrites
<1>2. row'[o] = row[o] /\ home'[o] = home[o]
  <2>1. at[r] # "idle" => Org(r) # o
    BY OrgIs
  <2> QED  BY <2>1, RequestWrites DEF AssignmentTypes
<1>3. \A q \in Requests : /\ o \in about'[q] => o \in about[q]
                          /\ q # r => at'[q] = at[q] /\ found'[q] = found[q]
  <2>1. PICK label, what, org, seen, shard : Turns(r, label, what, org, seen, shard)
    BY RequestRoute DEF Route
  <2> QED  BY <2>1 DEF Turns, AssignmentTypes
<1> QED  BY <1>1, <1>2, <1>3 DEF RouteInv, Active

\* A request that comes in for o.
LEMMA RouteBegins ==
    ASSUME AssignmentTypes, NEW r \in Requests, NEW o \in Organisations, RouteInv(o),
           NEW route \in Routes, Begin(r, o, route)
    PROVE  RouteInv(o)'
<1> SUFFICES ASSUME \A m \in moves' : m[1] # o
             PROVE  RouteInv(o)'
  BY DEF RouteInv
<1>1. \A q \in Requests : o \notin about[q]
  <2>1. (\E q \in Requests : o \in about[q]) => <<o, "overlap">> \in moves'
    BY DEF Begin, Moved
  <2>2. <<o, "overlap">>[1] = o
    OBVIOUS
  <2> QED  BY <2>1, <2>2
<1>2. \A m \in moves : m \in moves'
  BY DEF Begin, Moved
<1>3. /\ \A q \in Requests : q # r => o \notin about'[q]
      /\ at'[r] \in {"assign", "provision"}
      /\ row' = row /\ home' = home
  BY <1>1, RouteParts DEF Begin, AssignmentTypes
<1>4. home[o] # {} => Active(o) /\ home[o] \subseteq {row[o].shard}
  BY <1>2 DEF RouteInv
<1> QED  BY <1>3, <1>4 DEF RouteInv, Active

\* The request that is about o.
LEMMA RouteOwn ==
    ASSUME AssignmentTypes, NEW r \in Requests, RequestAct(r), NEW o \in Organisations,
           RouteInv(o), o \in about[r]
    PROVE  RouteInv(o)'
<1> SUFFICES ASSUME \A m \in moves' : m[1] # o
             PROVE  RouteInv(o)'
  BY DEF RouteInv
<1>0. at[r] # "idle" /\ Org(r) = o
  <2>1. RequestForm(r)
    BY DEF AssignmentTypes
  <2> QED  BY <2>1, OrgIs DEF RequestForm
<1>1. \A m \in moves : m \in moves'
  BY RequestWrites
<1>2. /\ \A q \in Requests : o \in about[q] => q = r
      /\ home[o] # {} => Active(o) /\ home[o] \subseteq {row[o].shard}
      /\ at[r] \in {"list", "upsert"} => ~Active(o)
      /\ at[r] = "use" => Active(o) /\ found[r] = row[o].shard
  BY <1>1 DEF RouteInv
<1>3. PICK label, what, org, seen, shard : Turns(r, label, what, org, seen, shard)
  BY RequestRoute DEF Route
<1>4. /\ \A q \in Requests \ {r} : o \notin about'[q]
      /\ at'[r] = label /\ found'[r] = shard
  BY <1>2, <1>3 DEF Turns, AssignmentTypes
<1>5. ASSUME home'[o] # {} => Active(o)' /\ home'[o] \subseteq {row'[o].shard},
             at'[r] \in {"list", "upsert"} => ~Active(o)',
             at'[r] = "use" => Active(o)' /\ found'[r] = row'[o].shard
      PROVE  RouteInv(o)'
  BY <1>4, <1>5 DEF RouteInv
<1>6. ASSUME row' = row, home' = home,
             at'[r] \in {"list", "upsert"} => ~Active(o),
             at'[r] = "use" => Active(o) /\ found'[r] = row[o].shard
      PROVE  RouteInv(o)'
  <2>1. Active(o)' <=> Active(o)
    BY <1>6 DEF Active
  <2> QED  BY <1>2, <1>5, <1>6, <2>1
<1>7. ASSUME Finish(r)
      PROVE  at'[r] \notin {"list", "upsert", "use"}
  BY <1>0, <1>7, FinishTurns DEF Turns, AssignmentTypes
<1>8. ASSUME NEW s, NEW t, Stage(r, s, t)
      PROVE  at'[r] = s /\ found'[r] = t
  BY <1>8 DEF Stage, AssignmentTypes
<1>9. CASE ReadAssignment(r)
  <2>1. row' = row /\ home' = home
    BY <1>9 DEF ReadAssignment
  <2>2. Finish(r) \/ (Stage(r, "list", NoShard) /\ ~Active(o))
    BY <1>0, <1>9 DEF ReadAssignment
  <2> QED  BY <1>6, <1>7, <1>8, <2>1, <2>2
<1>10. CASE PickLeastLoaded(r)
  <2>1. row' = row /\ home' = home /\ at[r] = "list"
    BY <1>10 DEF PickLeastLoaded
  <2>2. Finish(r) \/ \E s : Stage(r, "upsert", s)
    BY <1>10 DEF PickLeastLoaded
  <2> QED  BY <1>2, <1>6, <1>7, <1>8, <2>1, <2>2
<1>11. CASE UpsertAssignment(r)
  <2>1. home' = home /\ at[r] = "upsert" /\ Finish(r)
    BY <1>11 DEF UpsertAssignment
  <2>2. home[o] = {}
    BY <1>2, <2>1
  <2> QED  BY <1>5, <1>7, <2>1, <2>2
<1>12. CASE ResolveTarget(r)
  <2>1. row' = row /\ home' = home /\ at[r] = "provision"
    BY <1>12 DEF ResolveTarget
  <2>2. \/ Finish(r)
        \/ /\ Stage(r, "use", Target(o, sees[r])) /\ Target(o, sees[r]) # NoShard
           /\ ~Active(o) => Moved(o, "unassigned")
    BY <1>0, <1>12, Zenon DEF ResolveTarget
  <2>3. ASSUME Stage(r, "use", Target(o, sees[r])), Target(o, sees[r]) # NoShard,
               ~Active(o) => Moved(o, "unassigned")
        PROVE  RouteInv(o)'
    <3>1. <<o, "unassigned">>[1] = o
      OBVIOUS
    <3>2. Active(o)
      BY <2>3, <3>1 DEF Moved
    <3>3. sees[r] \in Pools \cup {<<>>}
      BY DEF AssignmentTypes
    <3>4. Target(o, sees[r]) = row[o].shard
      BY <2>3, <3>2, <3>3, TargetTypes
    <3> QED  BY <1>6, <1>8, <2>1, <2>3, <3>2, <3>4
  <2> QED  BY <1>6, <1>7, <2>1, <2>2, <2>3
<1>13. CASE Use(r)
  <2>1. row' = row /\ at[r] = "use" /\ Finish(r)
    BY <1>13 DEF Use
  <2>2. home'[o] = home[o] \cup {found[r]}
    BY <1>0, <1>13 DEF Use, AssignmentTypes
  <2>3. Active(o)' <=> Active(o)
    BY <2>1 DEF Active
  <2> QED  BY <1>2, <1>5, <1>7, <2>1, <2>2, <2>3
<1>14. CASE Perish(r)
  <2>1. row' = row /\ home' = home /\ at'[r] = "idle"
    BY <1>14 DEF Perish, AssignmentTypes
  <2> QED  BY <1>6, <2>1
<1> QED  BY <1>0, <1>9, <1>10, <1>11, <1>12, <1>13, <1>14 DEF RequestAct, Begin

LEMMA RouteStep ==
    ASSUME AssignmentTypes, AssignmentAct, NEW o \in Organisations, RouteInv(o)
    PROVE  RouteInv(o)'
<1>1. ASSUME NEW r \in Requests, RequestAct(r)
      PROVE  RouteInv(o)'
  <2>1. CASE o \in about[r]
    BY <1>1, <2>1, RouteOwn
  <2>2. CASE o \notin about[r] /\ o \in about'[r]
    <3>1. about'[r] \subseteq about[r] \/
              \E q \in Organisations, route \in Routes :
                  Begin(r, q, route) /\ about'[r] = {q}
      <4>1. ASSUME NEW label, NEW what, NEW org, NEW seen, NEW shard,
                   Turns(r, label, what, org, seen, shard)
            PROVE  about'[r] = org
        BY <4>1 DEF Turns, AssignmentTypes
      <4> QED  BY <1>1, <4>1, RequestRoute DEF Route
    <3> QED  BY <2>2, <3>1, RouteBegins
  <2>3. CASE o \notin about[r] /\ o \notin about'[r]
    BY <1>1, <2>3, RouteElsewhere
  <2> QED  BY <2>1, <2>2, <2>3
<1>2. CASE Deploy
  BY <1>2 DEF Deploy, RouteInv, Active, requestVars
<1>3. ASSUME NEW q \in Organisations, Drain(q)
      PROVE  RouteInv(o)'
  <2>1. <<q, "drained">> \in moves' /\ <<q, "drained">>[1] = q /\ \A m \in moves : m \in moves'
    BY <1>3 DEF Drain, Moved
  <2>2. CASE q = o
    BY <2>1, <2>2 DEF RouteInv
  <2>3. CASE q # o
    <3>1. row'[o] = row[o]
      BY <1>3, <2>3 DEF Drain, AssignmentTypes
    <3>2. home' = home /\ at' = at /\ about' = about /\ found' = found
      BY <1>3 DEF Drain, requestVars
    <3> QED  BY <2>1, <3>1, <3>2 DEF RouteInv, Active
  <2> QED  BY <2>2, <2>3
<1> QED  BY <1>1, <1>2, <1>3 DEF AssignmentAct

-----------------------------------------------------------------------------
(* Managed runtimes.                                                        *)

RuntimeLabels == {"idle", "read", "resolve", "write", "select", "update", "insert", "recheck",
                  "clear", "spawn", "record", "stop", "stopped", "selectLast", "updateLast",
                  "insertLast"}
Phases == {"launching", "up", "dying"}

\* What goes together in a caller.
CallerForm(c) ==
    /\ pc[c] = "idle" <=> todo[c] = <<>>
    /\ pc[c] = "idle" <=> tenant[c] = None
    /\ pc[c] \in {"clear", "record"} => read[c] # None
    /\ pc[c] \in {"idle", "read", "resolve", "write", "recheck", "stop"} => read[c] = None
    /\ pc[c] \in {"update", "updateLast"} => rows[tenant[c]] # <<>>
    /\ read[c] # None => read[c].pid <= pids

\* The state files, the rows and the processes.
DataTypes ==
    /\ state \in [Tenants -> StateFiles \cup {None}]
    /\ \A t \in Tenants : state[t] # None => state[t].pid <= pids
    /\ rows \in [Tenants -> Seq(Ports)]
    /\ processes \subseteq [pid : Nat, tenant : Tenants, port : Ports, phase : Phases]
    /\ \A p \in processes : 1 <= p.pid /\ p.pid <= pids
    /\ pids \in Nat
    /\ displaced \subseteq Tenants

RuntimeTypes ==
    /\ DataTypes
    /\ pc \in [Callers -> RuntimeLabels]
    /\ todo \in [Callers -> Orders \cup {<<>>}]
    /\ tenant \in [Callers -> Tenants \cup {None}]
    /\ read \in [Callers -> StateFiles \cup {None}]
    /\ port \in [Callers -> Ports]
    /\ save \in [Callers -> Ports]
    /\ \A c \in Callers : CallerForm(c)

RuntimeAct(c) ==
    RuntimeWork(c) \/ \E t \in Tenants, order \in Orders : Ask(c, t, order)

LEMMA OrderParts ==
    ASSUME NEW order \in Orders
    PROVE  /\ order # <<>>
           /\ Head(order) \in {"ensure", "start", "stop"}
           /\ Entry(Head(order)) \in {"read", "stop"}
           /\ Tail(order) \in Orders \cup {<<>>}
<1>1. ASSUME NEW call \in {"ensure", "start", "stop"}, order = <<call>>
      PROVE  order # <<>> /\ Head(order) = call /\ Tail(order) = <<>>
  BY <1>1
<1>2. ASSUME NEW call \in {"ensure", "stop"}, order = <<call, "start">>
      PROVE  order # <<>> /\ Head(order) = call /\ Tail(order) = <<"start">>
  BY <1>2
<1>3. Head(order) \in {"ensure", "start", "stop"} /\ order # <<>>
      /\ Tail(order) \in {<<>>, <<"start">>}
  BY <1>1, <1>2 DEF Orders
<1> QED  BY <1>3 DEF Entry, Orders

\* Where a caller is at work on a tenant.
LEMMA AtWork ==
    ASSUME RuntimeTypes, NEW c \in Callers, pc[c] # "idle"
    PROVE  tenant[c] \in Tenants /\ todo[c] \in Orders
<1>1. CallerForm(c)
  BY DEF RuntimeTypes
<1> QED  BY <1>1 DEF CallerForm, RuntimeTypes

\* The part of caller c is set to these values.
Goes(c, label, order, who, file, number, stored) ==
    /\ pc' = [pc EXCEPT ![c] = label]
    /\ todo' = [todo EXCEPT ![c] = order]
    /\ tenant' = [tenant EXCEPT ![c] = who]
    /\ read' = [read EXCEPT ![c] = file]
    /\ port' = [port EXCEPT ![c] = number]
    /\ save' = [save EXCEPT ![c] = stored]

LEMMA GoToGoes ==
    ASSUME RuntimeTypes, NEW c \in Callers, NEW label, GoTo(c, label)
    PROVE  Goes(c, label, todo[c], tenant[c], read[c], port[c], save[c])
BY DEF RuntimeTypes, GoTo, Goes

LEMMA AbandonGoes ==
    ASSUME RuntimeTypes, NEW c \in Callers, Abandon(c)
    PROVE  Goes(c, "idle", <<>>, None, None, 0, 0)
BY DEF Abandon, Goes

\* A call that is over: the end of the order, or the next call.
CallOver(c) ==
    \/ Goes(c, "idle", <<>>, None, None, 0, 0)
    \/ \E label \in {"read", "stop"}, order \in Orders :
          Goes(c, label, order, tenant[c], None, 0, 0)

LEMMA DoneGoes ==
    ASSUME RuntimeTypes, NEW c \in Callers, pc[c] # "idle", Done(c)
    PROVE  CallOver(c)
<1> DEFINE rest == Tail(todo[c])
<1>1. rest \in Orders \cup {<<>>}
  BY AtWork, OrderParts
<1>2. CASE rest = <<>>
  BY <1>2 DEF Done, Goes, CallOver
<1>3. CASE rest # <<>>
  <2>1. rest \in Orders /\ Entry(Head(rest)) \in {"read", "stop"}
    BY <1>1, <1>3, OrderParts
  <2>2. Goes(c, Entry(Head(rest)), rest, tenant[c], None, 0, 0)
    BY <1>3 DEF Done, Goes, RuntimeTypes
  <2> QED  BY <2>1, <2>2 DEF CallOver
<1> QED  BY <1>2, <1>3

\* What was spawned stays counted, and rows stay.
Grows ==
    /\ pids <= pids'
    /\ \A t \in Tenants : rows[t] # <<>> => rows'[t] # <<>>

LEMMA PortsAre ==
    /\ 0 \in Ports
    /\ \A t \in Tenants : Preferred[t] \in Ports
    /\ \A t \in Tenants, i \in 0 .. NPorts - 1 : (Preferred[t] + i) % NPorts \in Ports
<1>1. NPorts \in Nat /\ NPorts > 0 /\ Preferred \in [Tenants -> Ports]
  BY RuntimeAssumption
<1>2. \A n \in Nat : n % NPorts \in 0 .. NPorts - 1
  BY <1>1
<1>3. \A t \in Tenants, i \in 0 .. NPorts - 1 : Preferred[t] + i \in Nat
  BY <1>1 DEF Ports
<1> QED  BY <1>1, <1>2, <1>3 DEF Ports

\* A caller writes the state file of its own tenant.
LEMMA StateWrites ==
    ASSUME RuntimeTypes, NEW c \in Callers, RuntimeAct(c)
    PROVE  \/ state' = state
           \/ /\ tenant[c] \in Tenants
              /\ \E n \in Ports, q \in Nat :
                    /\ q <= pids
                    /\ Write(c, n, q)
<1>0. /\ read[c] # None => read[c] \in StateFiles /\ read[c].pid <= pids
      /\ port[c] \in Ports /\ save[c] \in Ports /\ pids \in Nat
      /\ pc[c] \in {"clear", "record"} => read[c] # None
      /\ pc[c] # "idle" => tenant[c] \in Tenants
  <2>1. CallerForm(c)
    BY DEF RuntimeTypes
  <2> QED  BY <2>1, AtWork DEF CallerForm, RuntimeTypes, DataTypes
<1>1. CASE WriteInitialState(c)
  <2>1. pc[c] = "write" /\ Write(c, port[c], 0)
    BY <1>1 DEF WriteInitialState
  <2> QED  BY <1>0, <2>1
<1>2. CASE ClearStalePid(c)
  <2>1. pc[c] = "clear" /\ Write(c, read[c].port, 0)
    BY <1>2 DEF ClearStalePid
  <2>2. read[c].port \in Ports
    BY <1>0, <2>1 DEF StateFiles
  <2> QED  BY <1>0, <2>1, <2>2
<1>3. CASE RecordStart(c)
  <2>1. pc[c] = "record" /\ Write(c, Preferred[tenant[c]], read[c].pid)
    BY <1>3 DEF RecordStart
  <2>2. read[c].pid \in Nat /\ Preferred[tenant[c]] \in Ports
    BY <1>0, <2>1, PortsAre DEF StateFiles
  <2> QED  BY <1>0, <2>1, <2>2
<1>4. CASE RecordStop(c)
  <2>1. pc[c] = "stopped" /\ Write(c, save[c], 0)
    BY <1>4 DEF RecordStop
  <2> QED  BY <1>0, <2>1
<1>5. CASE ~WriteInitialState(c) /\ ~ClearStalePid(c) /\ ~RecordStart(c) /\ ~RecordStop(c)
  BY <1>5 DEF RuntimeAct, RuntimeWork, Ask, ReadState, ResolvePort, FindNoPort, SelectRow,
     SaveRow, RecheckState, Spawn, StopProcess, Die
<1> QED  BY <1>1, <1>2, <1>3, <1>4, <1>5

\* A row is only ever written by SaveRow.
LEMMA RowWrites ==
    ASSUME RuntimeTypes, NEW c \in Callers, RuntimeAct(c)
    PROVE  \/ rows' = rows
           \/ /\ SaveRow(c) /\ tenant[c] \in Tenants
              /\ \/ /\ pc[c] \in {"update", "updateLast"} /\ rows[tenant[c]] # <<>>
                    /\ rows' = [rows EXCEPT ![tenant[c]] = [@ EXCEPT ![1] = save[c]]]
                 \/ /\ pc[c] \in {"insert", "insertLast"}
                    /\ rows' = [rows EXCEPT ![tenant[c]] = Append(@, save[c])]
<1>1. CASE SaveRow(c)
  <2>1. CallerForm(c)
    BY DEF RuntimeTypes
  <2>2. pc[c] \in {"update", "updateLast", "insert", "insertLast"}
    BY <1>1 DEF SaveRow
  <2>3. tenant[c] \in Tenants /\ (pc[c] \in {"update", "updateLast"} => rows[tenant[c]] # <<>>)
    BY <2>1, <2>2, AtWork DEF CallerForm
  <2>4. CASE pc[c] \in {"update", "updateLast"}
    <3>1. rows' = rows \/ rows' = [rows EXCEPT ![tenant[c]] = [@ EXCEPT ![1] = save[c]]]
      BY <1>1, <2>4 DEF SaveRow
    <3> QED  BY <1>1, <2>3, <2>4, <3>1
  <2>5. CASE pc[c] \in {"insert", "insertLast"}
    <3>1. rows' = rows \/ rows' = [rows EXCEPT ![tenant[c]] = Append(@, save[c])]
      BY <1>1, <2>5 DEF SaveRow
    <3> QED  BY <1>1, <2>3, <2>5, <3>1
  <2> QED  BY <2>2, <2>4, <2>5
<1>2. CASE ~SaveRow(c)
  BY <1>2 DEF RuntimeAct, RuntimeWork, Ask, ReadState, ResolvePort, FindNoPort, SelectRow,
     WriteInitialState, ClearStalePid, RecordStart, RecordStop, RecheckState, Spawn,
     StopProcess, Die
<1> QED  BY <1>1, <1>2

\* The rows of a tenant after SaveRow, entry by entry.
LEMMA RowEntries ==
    ASSUME NEW s \in Seq(Ports), NEW n \in Ports
    PROVE  /\ Append(s, n) \in Seq(Ports) /\ Append(s, n) # <<>>
           /\ DOMAIN Append(s, n) = 1 .. Len(s) + 1
           /\ \A i \in DOMAIN s : i \in DOMAIN Append(s, n) /\ Append(s, n)[i] = s[i]
           /\ Append(s, n)[Len(s) + 1] = n
           /\ s # <<>> => /\ [s EXCEPT ![1] = n] \in Seq(Ports)
                          /\ [s EXCEPT ![1] = n] # <<>>
                          /\ DOMAIN [s EXCEPT ![1] = n] = DOMAIN s
                          /\ 1 \in DOMAIN s /\ [s EXCEPT ![1] = n][1] = n
                          /\ \A i \in DOMAIN s \ {1} : [s EXCEPT ![1] = n][i] = s[i]
<1>1. Len(s) \in Nat /\ s \in [1 .. Len(s) -> Ports] /\ DOMAIN s = 1 .. Len(s)
  OBVIOUS
<1>2. /\ Append(s, n) \in Seq(Ports) /\ Append(s, n) # <<>>
      /\ DOMAIN Append(s, n) = 1 .. Len(s) + 1
      /\ \A i \in 1 .. Len(s) : Append(s, n)[i] = s[i]
      /\ Append(s, n)[Len(s) + 1] = n
  BY <1>1
<1>3. ASSUME s # <<>>
      PROVE  /\ [s EXCEPT ![1] = n] \in Seq(Ports)
             /\ [s EXCEPT ![1] = n] # <<>>
             /\ DOMAIN [s EXCEPT ![1] = n] = DOMAIN s
             /\ 1 \in DOMAIN s /\ [s EXCEPT ![1] = n][1] = n
             /\ \A i \in DOMAIN s \ {1} : [s EXCEPT ![1] = n][i] = s[i]
  <2>1. 1 \in 1 .. Len(s)
    BY <1>1, <1>3
  <2>2. [s EXCEPT ![1] = n] \in [1 .. Len(s) -> Ports]
    BY <1>1, <2>1
  <2>3. [s EXCEPT ![1] = n] \in Seq(Ports)
    BY <1>1, <2>2, SeqDef
  <2>4. [s EXCEPT ![1] = n] # <<>>
    BY <2>1, <2>2
  <2> QED  BY <1>1, <2>1, <2>2, <2>3, <2>4
<1> QED  BY <1>1, <1>2, <1>3

\* A process that was there before, or one that is on its way out.
Descends(q) ==
    \E p \in processes : /\ p.pid = q.pid /\ p.tenant = q.tenant /\ p.port = q.port
                         /\ p.phase = "dying" => q.phase = "dying"

NewProcess(c) ==
    [pid |-> pids + 1, tenant |-> tenant[c], port |-> port[c], phase |-> "launching"]

LEMMA ProcessWrites ==
    ASSUME RuntimeTypes, NEW c \in Callers, RuntimeAct(c)
    PROVE  \/ processes' = processes /\ pids' = pids
           \/ /\ Spawn(c) /\ tenant[c] \in Tenants /\ pids' = pids + 1
              /\ processes' = processes \cup {NewProcess(c)}
           \/ /\ StopProcess(c) /\ pids' = pids
              /\ \A q \in processes' : /\ Descends(q) /\ q.phase \in Phases
                                       /\ q \in processes \/ q.phase = "dying"
<1>1. CASE Spawn(c)
  <2>1. pc[c] = "spawn"
    BY <1>1 DEF Spawn
  <2> QED  BY <1>1, <2>1, AtWork DEF Spawn, NewProcess
<1>2. CASE StopProcess(c)
  <2> DEFINE told == {p \in processes : state[tenant[c]] # None /\ p.pid = state[tenant[c]].pid}
  <2>1. /\ pids' = pids
        /\ processes' = (processes \ told) \cup
              {[p EXCEPT !.phase = "dying"] : p \in {q \in told : q.phase # "launching"}}
    BY <1>2 DEF StopProcess
  <2>2. \A p \in processes : LET d == [p EXCEPT !.phase = "dying"]
                             IN  /\ d.pid = p.pid /\ d.tenant = p.tenant /\ d.port = p.port
                                 /\ d.phase = "dying"
    BY DEF RuntimeTypes, DataTypes
  <2>3. told \subseteq processes /\ \A p \in processes : p.phase \in Phases
    BY DEF RuntimeTypes, DataTypes
  <2> HIDE DEF told
  <2>4. ASSUME NEW q \in processes'
        PROVE  Descends(q) /\ q.phase \in Phases /\ (q \in processes \/ q.phase = "dying")
    <3>1. CASE q \in processes \ told
      BY <2>3, <3>1 DEF Descends
    <3>2. CASE q \notin processes \ told
      <4>1. PICK p \in processes : q = [p EXCEPT !.phase = "dying"]
        BY <2>1, <2>3, <3>2
      <4> QED  BY <2>2, <4>1 DEF Descends, Phases
    <3> QED  BY <3>1, <3>2
  <2> QED  BY <1>2, <2>1, <2>4
<1>3. CASE ~Spawn(c) /\ ~StopProcess(c)
  BY <1>3 DEF RuntimeAct, RuntimeWork, Ask, ReadState, ResolvePort, FindNoPort, SelectRow,
     WriteInitialState, ClearStalePid, RecordStart, RecordStop, RecheckState, SaveRow, Die
<1> QED  BY <1>1, <1>2, <1>3

LEMMA HistoryWrites ==
    ASSUME RuntimeTypes, NEW c \in Callers, RuntimeAct(c)
    PROVE  /\ displaced \subseteq displaced' /\ displaced' \subseteq Tenants
           /\ \A m \in mishaps : m \in mishaps'
<1>0. displaced \subseteq Tenants
  BY DEF RuntimeTypes, DataTypes
<1>1. \A m \in mishaps : m \in mishaps'
  BY DEF RuntimeAct, RuntimeWork, Ask, ReadState, ResolvePort, FindNoPort, SelectRow, Spawn,
     StopProcess, WriteInitialState, ClearStalePid, RecordStart, RecordStop, RecheckState,
     SaveRow, Die
<1>2. displaced' = displaced \/ (pc[c] # "idle" /\ displaced' = displaced \cup {tenant[c]})
  BY DEF RuntimeAct, RuntimeWork, Ask, ReadState, ResolvePort, FindNoPort, SelectRow, Spawn,
     StopProcess, WriteInitialState, ClearStalePid, RecordStart, RecordStop, RecheckState,
     SaveRow, Die
<1> QED  BY <1>0, <1>1, <1>2, AtWork

LEMMA DataStep ==
    ASSUME RuntimeTypes, NEW c \in Callers, RuntimeAct(c)
    PROVE  DataTypes' /\ Grows
<1>0. DataTypes
  BY DEF RuntimeTypes
<1>1. pids' \in Nat /\ pids <= pids'
  BY <1>0, ProcessWrites DEF DataTypes
<1>2. /\ state' \in [Tenants -> StateFiles \cup {None}]
      /\ \A t \in Tenants : state'[t] # None => state'[t].pid <= pids'
  <2>1. CASE state' = state
    <3>1. \A t \in Tenants : state[t] # None => state[t].pid \in Nat /\ state[t].pid <= pids
      BY <1>0 DEF DataTypes, StateFiles
    <3>2. pids \in Nat
      BY <1>0 DEF DataTypes
    <3> QED  BY <1>0, <1>1, <2>1, <3>1, <3>2 DEF DataTypes
  <2>2. ASSUME NEW n \in Ports, NEW q \in Nat, q <= pids, tenant[c] \in Tenants, Write(c, n, q)
        PROVE  /\ state' \in [Tenants -> StateFiles \cup {None}]
               /\ \A t \in Tenants : state'[t] # None => state'[t].pid <= pids'
    <3>1. state' = [state EXCEPT ![tenant[c]] = [port |-> n, pid |-> q]]
      BY <2>2 DEF Write
    <3>2. [port |-> n, pid |-> q] \in StateFiles /\ [port |-> n, pid |-> q].pid = q
      BY DEF StateFiles
    <3>3. state' \in [Tenants -> StateFiles \cup {None}]
      BY <1>0, <3>1, <3>2 DEF DataTypes
    <3>4. \A t \in Tenants : state[t] # None => state[t].pid \in Nat /\ state[t].pid <= pids
      BY <1>0 DEF DataTypes, StateFiles
    <3>5. pids \in Nat
      BY <1>0 DEF DataTypes
    <3>6. ASSUME NEW t \in Tenants, state'[t] # None
          PROVE  state'[t].pid <= pids'
      <4>1. CASE t = tenant[c]
        BY <1>0, <1>1, <2>2, <3>1, <3>2, <3>5, <4>1 DEF DataTypes
      <4>2. CASE t # tenant[c]
        <5>1. state'[t] = state[t]
          BY <1>0, <3>1, <4>2 DEF DataTypes
        <5> QED  BY <1>1, <3>4, <3>5, <3>6, <5>1
      <4> QED  BY <4>1, <4>2
    <3> QED  BY <3>3, <3>6
  <2> QED  BY <2>1, <2>2, StateWrites
<1>3. rows' \in [Tenants -> Seq(Ports)] /\ \A t \in Tenants : rows[t] # <<>> => rows'[t] # <<>>
  <2>1. rows \in [Tenants -> Seq(Ports)] /\ save[c] \in Ports
    BY DEF RuntimeTypes, DataTypes
  <2>2. ASSUME tenant[c] \in Tenants, NEW s \in Seq(Ports), s # <<>>,
               rows' = [rows EXCEPT ![tenant[c]] = s]
        PROVE  rows' \in [Tenants -> Seq(Ports)] /\ \A t \in Tenants : rows[t] # <<>> => rows'[t] # <<>>
    BY <2>1, <2>2
  <2>3. tenant[c] \in Tenants => rows[tenant[c]] \in Seq(Ports)
    BY <2>1
  <2>4. CASE tenant[c] \in Tenants /\ rows[tenant[c]] # <<>>
             /\ rows' = [rows EXCEPT ![tenant[c]] = [@ EXCEPT ![1] = save[c]]]
    <3>1. /\ [rows[tenant[c]] EXCEPT ![1] = save[c]] \in Seq(Ports)
          /\ [rows[tenant[c]] EXCEPT ![1] = save[c]] # <<>>
      BY <2>1, <2>3, <2>4, RowEntries
    <3> QED  BY <2>1, <2>2, <2>4, <3>1
  <2>5. CASE tenant[c] \in Tenants /\ rows' = [rows EXCEPT ![tenant[c]] = Append(@, save[c])]
    <3>1. Append(rows[tenant[c]], save[c]) \in Seq(Ports) /\ Append(rows[tenant[c]], save[c]) # <<>>
      BY <2>1, <2>3, <2>5, RowEntries
    <3> QED  BY <2>1, <2>2, <2>5, <3>1
  <2> QED  BY <2>1, <2>4, <2>5, RowWrites
<1>4. /\ processes' \subseteq [pid : Nat, tenant : Tenants, port : Ports, phase : Phases]
      /\ \A p \in processes' : 1 <= p.pid /\ p.pid <= pids'
  <2>1. /\ processes \subseteq [pid : Nat, tenant : Tenants, port : Ports, phase : Phases]
        /\ \A p \in processes : p.pid \in Nat /\ 1 <= p.pid /\ p.pid <= pids
        /\ pids \in Nat /\ port[c] \in Ports
    BY DEF RuntimeTypes, DataTypes
  <2>2. CASE processes' = processes /\ pids' = pids
    BY <2>1, <2>2
  <2>3. CASE Spawn(c) /\ tenant[c] \in Tenants /\ pids' = pids + 1
             /\ processes' = processes \cup {NewProcess(c)}
    <3>1. /\ NewProcess(c) \in [pid : Nat, tenant : Tenants, port : Ports, phase : Phases]
          /\ NewProcess(c).pid = pids + 1
      BY <2>1, <2>3 DEF NewProcess, Phases
    <3> QED  BY <2>1, <2>3, <3>1
  <2>4. CASE StopProcess(c) /\ pids' = pids
    <3>1. \A p \in processes : [p EXCEPT !.phase = "dying"] \in
             [pid : Nat, tenant : Tenants, port : Ports, phase : Phases]
          /\ [p EXCEPT !.phase = "dying"].pid = p.pid
      BY <2>1 DEF Phases
    <3>2. \A q \in processes' : q \in processes \/
             \E p \in processes : q = [p EXCEPT !.phase = "dying"]
      BY <2>4 DEF StopProcess
    <3> QED  BY <2>1, <2>4, <3>1, <3>2
  <2> QED  BY <2>2, <2>3, <2>4, ProcessWrites
<1> QED  BY <1>1, <1>2, <1>3, <1>4, HistoryWrites DEF DataTypes, Grows

LEMMA GoesTypes ==
    ASSUME RuntimeTypes, NEW c \in Callers, DataTypes', Grows,
           NEW label \in RuntimeLabels, NEW order \in Orders \cup {<<>>},
           NEW who \in Tenants \cup {None}, NEW file \in StateFiles \cup {None},
           NEW number \in Ports, NEW stored \in Ports,
           Goes(c, label, order, who, file, number, stored),
           label = "idle" <=> order = <<>>,
           label = "idle" <=> who = None,
           label \in {"clear", "record"} => file # None,
           label \in {"idle", "read", "resolve", "write", "recheck", "stop"} => file = None,
           label \in {"update", "updateLast"} => rows'[who] # <<>>,
           file # None => file.pid <= pids'
    PROVE  RuntimeTypes'
<1>1. /\ pc' \in [Callers -> RuntimeLabels]
      /\ todo' \in [Callers -> Orders \cup {<<>>}]
      /\ tenant' \in [Callers -> Tenants \cup {None}]
      /\ read' \in [Callers -> StateFiles \cup {None}]
      /\ port' \in [Callers -> Ports]
      /\ save' \in [Callers -> Ports]
  BY DEF Goes, RuntimeTypes
<1>2. ASSUME NEW d \in Callers
      PROVE  CallerForm(d)'
  <2>1. CASE d = c
    <3>1. pc'[d] = label /\ todo'[d] = order /\ tenant'[d] = who /\ read'[d] = file
      BY <2>1 DEF Goes, RuntimeTypes
    <3> QED  BY <3>1 DEF CallerForm
  <2>2. CASE d # c
    <3>1. CallerForm(d) /\ tenant[d] \in Tenants \cup {None} /\ pc[d] \in RuntimeLabels
          /\ read[d] \in StateFiles \cup {None}
      BY DEF RuntimeTypes
    <3>2. pc'[d] = pc[d] /\ todo'[d] = todo[d] /\ tenant'[d] = tenant[d] /\ read'[d] = read[d]
      BY <2>2 DEF Goes, RuntimeTypes
    <3>3. read[d] # None => read[d].pid <= pids'
      <4>1. pids \in Nat /\ pids' \in Nat /\ pids <= pids'
        BY DEF RuntimeTypes, DataTypes, Grows
      <4>2. read[d] # None => read[d].pid \in Nat /\ read[d].pid <= pids
        BY <3>1 DEF CallerForm, StateFiles
      <4> QED  BY <4>1, <4>2
    <3>4. pc[d] \in {"update", "updateLast"} => rows'[tenant[d]] # <<>>
      BY <3>1 DEF CallerForm, Grows
    <3> QED  BY <3>1, <3>2, <3>3, <3>4 DEF CallerForm
  <2> QED  BY <2>1, <2>2
<1> QED  BY <1>1, <1>2 DEF RuntimeTypes

\* What is known of a caller.
LEMMA CallerIs ==
    ASSUME RuntimeTypes, NEW c \in Callers
    PROVE  /\ CallerForm(c)
           /\ pc[c] \in RuntimeLabels
           /\ todo[c] \in Orders \cup {<<>>}
           /\ tenant[c] \in Tenants \cup {None}
           /\ read[c] \in StateFiles \cup {None}
           /\ port[c] \in Ports
           /\ save[c] \in Ports
           /\ pc[c] # "idle" => tenant[c] \in Tenants /\ todo[c] \in Orders
           /\ None \notin Tenants /\ 0 \in Ports
BY AtWork, PortsAre, RuntimeAssumption DEF RuntimeTypes

LEMMA GoToTypes ==
    ASSUME RuntimeTypes, NEW c \in Callers, DataTypes', Grows, pc[c] # "idle",
           NEW label \in RuntimeLabels \ {"idle"}, GoTo(c, label),
           label \in {"clear", "record"} => read[c] # None,
           label \in {"read", "resolve", "write", "recheck", "stop"} => read[c] = None,
           label \in {"update", "updateLast"} => rows'[tenant[c]] # <<>>
    PROVE  RuntimeTypes'
<1>1. Goes(c, label, todo[c], tenant[c], read[c], port[c], save[c])
  BY GoToGoes
<1>2. todo[c] # <<>> /\ tenant[c] # None
  BY CallerIs DEF CallerForm
<1>3. read[c] # None => read[c].pid <= pids'
  <2>1. pids \in Nat /\ pids' \in Nat /\ pids <= pids'
    BY DEF RuntimeTypes, DataTypes, Grows
  <2>2. read[c] # None => read[c].pid \in Nat /\ read[c].pid <= pids
    BY CallerIs DEF CallerForm, StateFiles
  <2> QED  BY <2>1, <2>2
<1>4. /\ todo[c] \in Orders \cup {<<>>} /\ tenant[c] \in Tenants \cup {None}
      /\ read[c] \in StateFiles \cup {None} /\ port[c] \in Ports /\ save[c] \in Ports
  BY CallerIs
<1>5. label \in RuntimeLabels /\ label # "idle"
  OBVIOUS
<1>6. /\ label \in {"clear", "record"} => read[c] # None
      /\ label \in {"idle", "read", "resolve", "write", "recheck", "stop"} => read[c] = None
      /\ label \in {"update", "updateLast"} => rows'[tenant[c]] # <<>>
  BY <1>5
<1>7. label = "idle" <=> todo[c] = <<>>
  BY <1>2, <1>5
<1>8. label = "idle" <=> tenant[c] = None
  BY <1>2, <1>5
<1> QED  BY ONLY RuntimeTypes, DataTypes', Grows, <1>1, <1>3, <1>4, <1>5, <1>6, <1>7, <1>8, GoesTypes

LEMMA OverTypes ==
    ASSUME RuntimeTypes, NEW c \in Callers, DataTypes', Grows, pc[c] # "idle", CallOver(c)
    PROVE  RuntimeTypes'
<1>0. /\ tenant[c] \in Tenants /\ None \notin Tenants /\ 0 \in Ports
      /\ <<>> \notin Orders
  BY CallerIs, OrderParts
<1>1. CASE Goes(c, "idle", <<>>, None, None, 0, 0)
  <2>1. "idle" \in RuntimeLabels
    BY DEF RuntimeLabels
  <2> QED  BY <1>0, <1>1, <2>1, GoesTypes
<1>2. ASSUME NEW label \in {"read", "stop"}, NEW order \in Orders,
             Goes(c, label, order, tenant[c], None, 0, 0)
      PROVE  RuntimeTypes'
  <2>1. label \in RuntimeLabels /\ label \notin {"idle", "clear", "record", "update", "updateLast"}
    BY DEF RuntimeLabels
  <2>2. order \in Orders \cup {<<>>} /\ order # <<>> /\ tenant[c] \in Tenants \cup {None}
        /\ tenant[c] # None
    BY <1>0
  <2> QED  BY <1>0, <1>2, <2>1, <2>2, GoesTypes
<1> QED  BY <1>1, <1>2 DEF CallOver

LEMMA RuntimeTypesStep ==
    ASSUME RuntimeTypes, NEW c \in Callers, RuntimeAct(c)
    PROVE  RuntimeTypes'
<1>0. DataTypes' /\ Grows
  BY DataStep
<1>1. /\ CallerForm(c) /\ todo[c] \in Orders \cup {<<>>}
      /\ tenant[c] \in Tenants \cup {None} /\ read[c] \in StateFiles \cup {None}
      /\ port[c] \in Ports /\ save[c] \in Ports /\ 0 \in Ports /\ None \notin Tenants
      /\ pc[c] # "idle" => tenant[c] \in Tenants /\ todo[c] \in Orders
  BY CallerIs
<1>2. pids \in Nat /\ pids' \in Nat /\ pids <= pids'
  BY <1>0 DEF RuntimeTypes, DataTypes, Grows
<1>3. /\ pc[c] \in {"clear", "record"} => read[c] # None
      /\ pc[c] \in {"idle", "read", "resolve", "write", "recheck", "stop"} => read[c] = None
      /\ pc[c] = "idle" <=> todo[c] = <<>>
      /\ pc[c] = "idle" <=> tenant[c] = None
  BY <1>1 DEF CallerForm
<1>4. /\ read[c] # None => read[c].pid \in Nat /\ read[c].pid <= pids /\ read[c].port \in Ports
      /\ pc[c] # "idle" /\ state[tenant[c]] # None =>
            /\ state[tenant[c]] \in StateFiles
            /\ state[tenant[c]].pid \in Nat /\ state[tenant[c]].pid <= pids
            /\ state[tenant[c]].port \in Ports
  BY <1>1 DEF CallerForm, RuntimeTypes, DataTypes, StateFiles
<1>5. ASSUME NEW label \in RuntimeLabels, pc[c] # "idle", label # "idle",
             NEW file \in StateFiles \cup {None}, NEW number \in Ports, NEW stored \in Ports,
             Goes(c, label, todo[c], tenant[c], file, number, stored),
             label \in {"clear", "record"} => file # None,
             label \in {"read", "resolve", "write", "recheck", "stop"} => file = None,
             label \notin {"update", "updateLast"}, file # None => file.pid <= pids'
      PROVE  RuntimeTypes'
  BY <1>0, <1>1, <1>3, <1>5, GoesTypes
<1>6. CASE ReadState(c)
  <2> DEFINE current == state[tenant[c]]
  <2>1. pc[c] = "read"
    BY <1>6 DEF ReadState
  <2>2. CASE current = None
    <3>1. Goes(c, "resolve", todo[c], tenant[c], read[c], 0, 0)
      BY <1>6, <2>2 DEF ReadState, Goes, RuntimeTypes
    <3>2. "resolve" \in RuntimeLabels
      BY DEF RuntimeLabels
    <3> QED  BY <1>1, <1>3, <1>5, <2>1, <3>1, <3>2
  <2>3. CASE current # None
    <3>1. Goes(c, "select", todo[c], tenant[c], read[c], current.port, current.port)
      BY <1>6, <2>3 DEF ReadState, Goes, RuntimeTypes
    <3>2. "select" \in RuntimeLabels
      BY DEF RuntimeLabels
    <3> QED  BY <1>1, <1>3, <1>4, <1>5, <2>1, <2>3, <3>1, <3>2
  <2> QED  BY <2>2, <2>3
<1>7. CASE ResolvePort(c)
  <2>1. pc[c] = "resolve"
    BY <1>7 DEF ResolvePort
  <2>2. PICK i \in 0 .. NPorts - 1 :
           /\ port' = [port EXCEPT ![c] = (Preferred[tenant[c]] + i) % NPorts]
           /\ save' = [save EXCEPT ![c] = (Preferred[tenant[c]] + i) % NPorts]
    BY <1>7 DEF ResolvePort
  <2>3. (Preferred[tenant[c]] + i) % NPorts \in Ports
    BY <1>1, <2>1, PortsAre
  <2>4. Goes(c, "write", todo[c], tenant[c], read[c],
             (Preferred[tenant[c]] + i) % NPorts, (Preferred[tenant[c]] + i) % NPorts)
    BY <1>7, <2>2 DEF ResolvePort, Goes, RuntimeTypes
  <2>5. "write" \in RuntimeLabels
    BY DEF RuntimeLabels
  <2> QED  BY <1>1, <1>3, <1>5, <2>1, <2>3, <2>4, <2>5
<1>8. CASE FindNoPort(c)
  <2>1. pc[c] = "resolve" /\ Goes(c, "idle", <<>>, None, None, 0, 0)
    BY <1>8, AbandonGoes DEF FindNoPort
  <2> QED  BY <1>0, <2>1, OverTypes DEF CallOver
<1>9. CASE Die(c)
  <2>1. pc[c] # "idle" /\ Goes(c, "idle", <<>>, None, None, 0, 0)
    BY <1>9, AbandonGoes DEF Die
  <2> QED  BY <1>0, <2>1, OverTypes DEF CallOver
<1>10. CASE WriteInitialState(c)
  <2>1. pc[c] = "write" /\ GoTo(c, "select") /\ "select" \in RuntimeLabels \ {"idle"}
    BY <1>10 DEF WriteInitialState, RuntimeLabels
  <2> QED  BY <1>0, <2>1, GoToTypes
<1>11. CASE SelectRow(c)
  <2>1. pc[c] # "idle" /\ rows' = rows
    BY <1>11 DEF SelectRow
  <2>2. \E label \in {"update", "updateLast", "insert", "insertLast"} :
           /\ GoTo(c, label)
           /\ label \in {"update", "updateLast"} => Len(rows[tenant[c]]) = 1
    BY <1>11 DEF SelectRow
  <2>3. Len(rows[tenant[c]]) = 1 => rows'[tenant[c]] # <<>>
    <3>1. Len(<<>>) = 0
      OBVIOUS
    <3> QED  BY <2>1, <3>1
  <2>4. \A label \in {"update", "updateLast", "insert", "insertLast"} :
           label \in RuntimeLabels \ {"idle"}
    BY DEF RuntimeLabels
  <2> QED  BY <1>0, <2>1, <2>2, <2>3, <2>4, GoToTypes
<1>12. CASE SaveRow(c)
  <2>1. pc[c] # "idle" /\ AfterSave(c)
    BY <1>12 DEF SaveRow
  <2>2. \/ Done(c)
        \/ read[c] = None /\ GoTo(c, "recheck")
        \/ GoTo(c, "spawn")
    BY <2>1 DEF AfterSave
  <2>3. {"recheck", "spawn"} \subseteq RuntimeLabels \ {"idle"}
    BY DEF RuntimeLabels
  <2> QED  BY <1>0, <2>1, <2>2, <2>3, DoneGoes, OverTypes, GoToTypes
<1>13. CASE RecheckState(c)
  <2> DEFINE current == state[tenant[c]]
  <2>1. pc[c] = "recheck"
    BY <1>13 DEF RecheckState
  <2>2. \/ GoTo(c, "spawn")
        \/ Done(c)
        \/ current # None /\ Goes(c, "clear", todo[c], tenant[c], current, port[c], current.port)
    BY <1>13 DEF RecheckState, Goes, RuntimeTypes
  <2>3. {"clear", "spawn"} \subseteq RuntimeLabels
    BY DEF RuntimeLabels
  <2>4. CASE current # None /\ Goes(c, "clear", todo[c], tenant[c], current, port[c], current.port)
    <3>1. current \in StateFiles \cup {None} /\ current.pid <= pids' /\ current.port \in Ports
      BY <1>2, <1>4, <2>1, <2>4
    <3> QED  BY <1>1, <1>3, <1>5, <2>1, <2>3, <2>4, <3>1
  <2> QED  BY <1>0, <2>1, <2>2, <2>3, <2>4, DoneGoes, OverTypes, GoToTypes
<1>14. CASE ClearStalePid(c)
  <2>1. pc[c] = "clear" /\ GoTo(c, "select") /\ "select" \in RuntimeLabels \ {"idle"}
    BY <1>14 DEF ClearStalePid, RuntimeLabels
  <2> QED  BY <1>0, <2>1, GoToTypes
<1>15. CASE Spawn(c)
  <2> DEFINE file == [port |-> port[c], pid |-> pids + 1]
  <2>1. pc[c] = "spawn" /\ pids' = pids + 1
    BY <1>15 DEF Spawn
  <2>2. Goes(c, "record", todo[c], tenant[c], file, port[c], save[c])
    BY <1>15 DEF Spawn, Goes, RuntimeTypes
  <2>3. file \in StateFiles /\ file # None /\ file.pid <= pids'
    BY <1>1, <1>2, <2>1, NoneAssumption DEF StateFiles
  <2>4. "record" \in RuntimeLabels
    BY DEF RuntimeLabels
  <2> QED  BY <1>1, <1>3, <1>5, <2>1, <2>2, <2>3, <2>4
<1>16. CASE RecordStart(c)
  <2>1. pc[c] = "record"
    BY <1>16 DEF RecordStart
  <2>2. Goes(c, "selectLast", todo[c], tenant[c], read[c], port[c], Preferred[tenant[c]])
    BY <1>16 DEF RecordStart, Goes, RuntimeTypes
  <2>3. Preferred[tenant[c]] \in Ports /\ "selectLast" \in RuntimeLabels
    BY <1>1, <2>1, PortsAre DEF RuntimeLabels
  <2>4. read[c] # None => read[c].pid <= pids'
    BY <1>2, <1>4
  <2> QED  BY <1>1, <1>3, <1>5, <2>1, <2>2, <2>3, <2>4
<1>17. CASE StopProcess(c)
  <2> DEFINE stored == IF state[tenant[c]] = None THEN Preferred[tenant[c]] ELSE state[tenant[c]].port
  <2>1. pc[c] = "stop"
    BY <1>17 DEF StopProcess
  <2>2. Goes(c, "stopped", todo[c], tenant[c], read[c], port[c], stored)
    BY <1>17 DEF StopProcess, Goes, RuntimeTypes
  <2>3. stored \in Ports /\ "stopped" \in RuntimeLabels
    BY <1>1, <1>4, <2>1, PortsAre DEF RuntimeLabels
  <2> QED  BY <1>1, <1>3, <1>5, <2>1, <2>2, <2>3
<1>18. CASE RecordStop(c)
  <2>1. pc[c] = "stopped" /\ GoTo(c, "selectLast") /\ "selectLast" \in RuntimeLabels \ {"idle"}
    BY <1>18 DEF RecordStop, RuntimeLabels
  <2> QED  BY <1>0, <2>1, GoToTypes
<1>19. ASSUME NEW t \in Tenants, NEW order \in Orders, Ask(c, t, order)
       PROVE  RuntimeTypes'
  <2> DEFINE label == Entry(Head(order))
  <2>1. pc[c] = "idle" /\ Goes(c, label, order, t, read[c], port[c], save[c])
    BY <1>19 DEF Ask, Goes, RuntimeTypes
  <2>2. label \in {"read", "stop"} /\ order # <<>>
    BY OrderParts
  <2>3. {"read", "stop"} \subseteq RuntimeLabels
    BY DEF RuntimeLabels
  <2>4. t # None /\ read[c] = None /\ order \in Orders \cup {<<>>} /\ t \in Tenants \cup {None}
        /\ read[c] \in StateFiles \cup {None}
    BY <1>1, <1>3, <2>1
  <2> HIDE DEF label
  <2>5. /\ label \in RuntimeLabels
        /\ label \notin {"idle", "clear", "record", "update", "updateLast"}
    BY <2>2, <2>3
  <2> QED  BY <1>0, <1>1, <2>1, <2>2, <2>4, <2>5, GoesTypes
<1> QED  BY <1>6, <1>7, <1>8, <1>9, <1>10, <1>11, <1>12, <1>13, <1>14, <1>15, <1>16, <1>17,
            <1>18, <1>19 DEF RuntimeAct, RuntimeWork

\* A process that starts to listen, or ends.
ProcessAct == \E p \in processes : Launch(p) \/ Exit(p)

LEMMA ProcessStep ==
    ASSUME RuntimeTypes, ProcessAct
    PROVE  /\ RuntimeTypes'
           /\ \A q \in processes' : Descends(q) /\ q.phase \in Phases
           /\ UNCHANGED <<state, rows, pids, callerVars, mishaps, displaced>>
<1>1. PICK p \in processes : Launch(p) \/ Exit(p)
  BY DEF ProcessAct
<1>2. UNCHANGED <<state, rows, pids, callerVars, mishaps, displaced>>
  BY <1>1 DEF Launch, Exit
<1>3. /\ [p EXCEPT !.phase = "up"] \in [pid : Nat, tenant : Tenants, port : Ports, phase : Phases]
      /\ [p EXCEPT !.phase = "up"].pid = p.pid /\ [p EXCEPT !.phase = "up"].tenant = p.tenant
      /\ [p EXCEPT !.phase = "up"].port = p.port
  BY DEF RuntimeTypes, DataTypes, Phases
<1>4. processes' \subseteq processes \/
         (p.phase = "launching" /\ processes' \subseteq processes \cup {[p EXCEPT !.phase = "up"]})
  BY <1>1 DEF Launch, Exit
<1>5. ASSUME NEW q \in processes'
      PROVE  /\ Descends(q) /\ q \in [pid : Nat, tenant : Tenants, port : Ports, phase : Phases]
             /\ 1 <= q.pid /\ q.pid <= pids
  <2>1. CASE q \in processes
    BY <2>1 DEF Descends, RuntimeTypes, DataTypes
  <2>2. CASE p.phase = "launching" /\ q = [p EXCEPT !.phase = "up"]
    BY <1>3, <2>2 DEF Descends, RuntimeTypes, DataTypes
  <2> QED  BY <1>4, <2>1, <2>2
<1>6. DataTypes'
  BY <1>2, <1>5 DEF RuntimeTypes, DataTypes
<1>7. \A c \in Callers : CallerForm(c)'
  BY <1>2 DEF RuntimeTypes, CallerForm, callerVars
<1>8. RuntimeTypes'
  BY <1>2, <1>6, <1>7 DEF RuntimeTypes, callerVars
<1> QED  BY <1>2, <1>5, <1>8

Somewhere(c) ==
    \E label, order, file, number, stored : \E who \in {tenant[c], None} :
        Goes(c, label, order, who, file, number, stored)

\* A caller that works for a tenant goes on working for it, or is done.
LEMMA WorkGoes ==
    ASSUME RuntimeTypes, NEW c \in Callers, RuntimeWork(c)
    PROVE  Somewhere(c)
<1>1. ASSUME NEW label, GoTo(c, label)
      PROVE  Somewhere(c)
  BY <1>1, GoToGoes DEF Somewhere
<1>2. ASSUME CallOver(c)
      PROVE  Somewhere(c)
  BY <1>2 DEF CallOver, Somewhere
<1>3. ASSUME Abandon(c)
      PROVE  Somewhere(c)
  BY <1>3, AbandonGoes DEF Somewhere
<1>4. CASE ReadState(c)
  <2>1. \E label, n, s : Goes(c, label, todo[c], tenant[c], read[c], n, s)
    BY <1>4 DEF ReadState, Goes, RuntimeTypes
  <2> QED  BY <2>1 DEF Somewhere
<1>5. CASE ResolvePort(c)
  <2>1. \E n, s : Goes(c, "write", todo[c], tenant[c], read[c], n, s)
    BY <1>5 DEF ResolvePort, Goes, RuntimeTypes
  <2> QED  BY <2>1 DEF Somewhere
<1>6. CASE SaveRow(c)
  <2>1. pc[c] # "idle" /\ (Done(c) \/ \E label : GoTo(c, label))
    BY <1>6 DEF SaveRow, AfterSave
  <2> QED  BY <1>1, <1>2, <2>1, DoneGoes
<1>7. CASE RecheckState(c)
  <2>1. \/ \E label : GoTo(c, label)
        \/ pc[c] # "idle" /\ Done(c)
        \/ \E f, s : Goes(c, "clear", todo[c], tenant[c], f, port[c], s)
    BY <1>7 DEF RecheckState, Goes, RuntimeTypes
  <2>2. ASSUME NEW f, NEW s, Goes(c, "clear", todo[c], tenant[c], f, port[c], s)
        PROVE  Somewhere(c)
    BY <2>2 DEF Somewhere
  <2> QED  BY <1>1, <1>2, <2>1, <2>2, DoneGoes
<1>8. CASE Spawn(c)
  <2>1. \E f : Goes(c, "record", todo[c], tenant[c], f, port[c], save[c])
    BY <1>8 DEF Spawn, Goes, RuntimeTypes
  <2> QED  BY <2>1 DEF Somewhere
<1>9. CASE RecordStart(c) \/ StopProcess(c)
  <2>1. \E label, s : Goes(c, label, todo[c], tenant[c], read[c], port[c], s)
    BY <1>9 DEF RecordStart, StopProcess, Goes, RuntimeTypes
  <2> QED  BY <2>1 DEF Somewhere
<1>10. CASE SelectRow(c) \/ WriteInitialState(c) \/ ClearStalePid(c) \/ RecordStop(c)
  <2>1. \E label : GoTo(c, label)
    BY <1>10 DEF SelectRow, WriteInitialState, ClearStalePid, RecordStop
  <2> QED  BY <1>1, <2>1
<1>11. CASE FindNoPort(c) \/ Die(c)
  BY <1>3, <1>11 DEF FindNoPort, Die
<1> QED  BY <1>4, <1>5, <1>6, <1>7, <1>8, <1>9, <1>10, <1>11 DEF RuntimeWork

\* A step of caller c is nobody else's.
LEMMA OnlyOwn ==
    ASSUME RuntimeTypes, NEW c \in Callers, RuntimeAct(c), NEW d \in Callers \ {c}
    PROVE  /\ pc'[d] = pc[d] /\ todo'[d] = todo[d] /\ tenant'[d] = tenant[d]
           /\ read'[d] = read[d] /\ port'[d] = port[d] /\ save'[d] = save[d]
<1>1. CASE RuntimeWork(c)
  BY <1>1, WorkGoes DEF Somewhere, Goes, RuntimeTypes
<1>2. ASSUME NEW t \in Tenants, NEW order \in Orders, Ask(c, t, order)
      PROVE  /\ pc'[d] = pc[d] /\ todo'[d] = todo[d] /\ tenant'[d] = tenant[d]
             /\ read'[d] = read[d] /\ port'[d] = port[d] /\ save'[d] = save[d]
  BY <1>2 DEF Ask, RuntimeTypes
<1> QED  BY <1>1, <1>2 DEF RuntimeAct

LEMMA WorkTenant ==
    ASSUME RuntimeTypes, NEW c \in Callers, RuntimeWork(c)
    PROVE  tenant'[c] \in {tenant[c], None}
BY WorkGoes DEF Somewhere, Goes, RuntimeTypes

-----------------------------------------------------------------------------
(* What is known of the processes.                                          *)

Living(t) == {p \in processes : p.tenant = t /\ p.phase # "dying"}

\* The processes of a tenant that are not on their way out, as its state file
\* and a caller that is at this place with this file read allow for.
Fits(label, file, living, known) ==
    /\ label \in {"clear", "spawn", "stopped"} => living = {}
    /\ label \in {"select", "update", "insert"} /\ file # None => living = {}
    /\ label \in {"resolve", "write"} => known = None
    /\ label = "record" => \A p \in living : p.pid = file.pid
    /\ label # "record" => \A p \in living : known # None /\ known.pid = p.pid

NoMishap(t) == \A m \in mishaps : m[1] # t

\* Where calls for t did not overlap and no caller died, there is at most one
\* caller, and what lives fits it.
KnownInv(t) ==
    NoMishap(t) =>
        /\ \A c, d \in Callers : tenant[c] = t /\ tenant[d] = t => c = d
        /\ \A c \in Callers : tenant[c] = t => Fits(pc[c], read[c], Living(t), state[t])
        /\ (\A c \in Callers : tenant[c] # t) => Fits("idle", None, Living(t), state[t])

LEMMA FitsKeeps ==
    ASSUME NEW label, NEW file, NEW living, NEW known, NEW others,
           Fits(label, file, living, known),
           \A q \in others : \E p \in living : p.pid = q.pid
    PROVE  Fits(label, file, others, known)
BY DEF Fits

\* The only caller of t goes on, or is done.
LEMMA GoesKnown ==
    ASSUME RuntimeTypes, NEW c \in Callers, NEW t \in Tenants,
           \A d \in Callers : tenant[d] = t => d = c,
           NEW label, NEW order, NEW who \in {t, None}, NEW file, NEW number, NEW stored,
           Goes(c, label, order, who, file, number, stored),
           who = t => Fits(label, file, Living(t)', state'[t]),
           who = None => Fits("idle", None, Living(t)', state'[t])
    PROVE  KnownInv(t)'
<1>1. \A d \in Callers \ {c} : tenant'[d] # t
  BY DEF Goes, RuntimeTypes
<1>2. tenant'[c] = who /\ pc'[c] = label /\ read'[c] = file
  BY DEF Goes, RuntimeTypes
<1>3. None # t
  BY RuntimeAssumption
<1> QED  BY <1>1, <1>2, <1>3 DEF KnownInv

\* Who is not t's caller, before or after, leaves it as it was.
LEMMA KnownElsewhere ==
    ASSUME RuntimeTypes, NEW c \in Callers, RuntimeAct(c), NEW t \in Tenants, KnownInv(t),
           tenant[c] # t, tenant'[c] # t
    PROVE  KnownInv(t)'
<1>1. state'[t] = state[t]
  BY StateWrites DEF Write, RuntimeTypes, DataTypes
<1>2. \A q \in Living(t)' : \E p \in Living(t) : p.pid = q.pid
  <2>1. CASE processes' = processes
    BY <2>1 DEF Living
  <2>2. CASE processes' = processes \cup {NewProcess(c)}
    <3>1. NewProcess(c).tenant # t
      BY DEF NewProcess
    <3> QED  BY <2>2, <3>1 DEF Living
  <2>3. CASE \A q \in processes' : Descends(q)
    BY <2>3 DEF Living, Descends
  <2> QED  BY <2>1, <2>2, <2>3, ProcessWrites
<1>3. \A d \in Callers \ {c} : tenant'[d] = tenant[d] /\ pc'[d] = pc[d] /\ read'[d] = read[d]
  BY OnlyOwn
<1>4. NoMishap(t)' => NoMishap(t)
  BY HistoryWrites DEF NoMishap
<1>5. \A label, file : Fits(label, file, Living(t), state[t]) =>
                           Fits(label, file, Living(t)', state'[t])
  BY <1>1, <1>2, FitsKeeps
<1>6. ASSUME NEW d \in Callers, tenant'[d] = t, NoMishap(t)'
      PROVE  Fits(pc'[d], read'[d], Living(t)', state'[t])
  <2>1. d # c /\ tenant[d] = t
    BY <1>3, <1>6
  <2>2. Fits(pc[d], read[d], Living(t), state[t])
    BY <1>4, <1>6, <2>1 DEF KnownInv
  <2> QED  BY <1>3, <1>5, <2>1, <2>2
<1>7. NoMishap(t)' => \A d, e \in Callers : tenant'[d] = t /\ tenant'[e] = t => d = e
  BY <1>3, <1>4 DEF KnownInv
<1>8. ASSUME NoMishap(t)', \A d \in Callers : tenant'[d] # t
      PROVE  Fits("idle", None, Living(t)', state'[t])
  <2>1. \A d \in Callers : tenant[d] # t
    BY <1>3, <1>8
  <2> QED  BY <1>4, <1>5, <1>8, <2>1 DEF KnownInv
<1> QED  BY <1>6, <1>7, <1>8 DEF KnownInv

\* A call for t that begins.
LEMMA KnownBegins ==
    ASSUME RuntimeTypes, NEW c \in Callers, NEW t \in Tenants, KnownInv(t),
           NEW order \in Orders, Ask(c, t, order)
    PROVE  KnownInv(t)'
<1> SUFFICES ASSUME NoMishap(t)'
             PROVE  KnownInv(t)'
  BY DEF KnownInv
<1>1. \A d \in Callers : tenant[d] # t
  <2>1. AtWorkOn(t) # {} => <<t, "overlap">> \in mishaps'
    BY DEF Ask
  <2>2. <<t, "overlap">>[1] = t
    OBVIOUS
  <2> QED  BY <2>1, <2>2 DEF NoMishap, AtWorkOn
<1>2. NoMishap(t)
  BY DEF NoMishap, Ask
<1>3. Fits("idle", None, Living(t), state[t])
  BY <1>1, <1>2 DEF KnownInv
<1>4. read[c] = None
  BY CallerIs DEF CallerForm, Ask
<1>5. Goes(c, Entry(Head(order)), order, t, None, port[c], save[c])
  BY <1>4 DEF Ask, Goes, RuntimeTypes
<1>6. Entry(Head(order)) \in {"read", "stop"}
  BY OrderParts
<1>7. Living(t)' = Living(t) /\ state' = state
  BY DEF Ask, Living
<1>8. Fits(Entry(Head(order)), None, Living(t)', state'[t])
  BY <1>3, <1>6, <1>7 DEF Fits
<1>9. t # None
  BY RuntimeAssumption
<1> QED  BY <1>1, <1>5, <1>8, <1>9, GoesKnown

\* The caller of t takes a step.
LEMMA KnownOwn ==
    ASSUME RuntimeTypes, NEW c \in Callers, RuntimeWork(c), NEW t \in Tenants, KnownInv(t),
           tenant[c] = t
    PROVE  KnownInv(t)'
<1> DEFINE current == state[t]
<1> SUFFICES ASSUME NoMishap(t)'
             PROVE  KnownInv(t)'
  BY DEF KnownInv
<1>0. NoMishap(t)
  BY HistoryWrites DEF NoMishap, RuntimeAct
<1>1. \A d \in Callers : tenant[d] = t => d = c
  BY <1>0 DEF KnownInv
<1>2. Fits(pc[c], read[c], Living(t), current)
  BY <1>0 DEF KnownInv
<1>3. t # None
  BY RuntimeAssumption
<1>4. /\ CallerForm(c)
      /\ \A p \in Living(t) : p.pid \in Nat /\ 1 <= p.pid
  BY CallerIs DEF RuntimeTypes, DataTypes, Living
<1>5. ASSUME processes' = processes
      PROVE  Living(t)' = Living(t)
  BY <1>5 DEF Living
<1>6. ASSUME NEW n, NEW q, Write(c, n, q)
      PROVE  /\ state'[t] = [port |-> n, pid |-> q] /\ state'[t].pid = q
             /\ n \in Ports /\ q \in Nat => state'[t] # None
  <2>1. state'[t] = [port |-> n, pid |-> q]
    BY <1>6 DEF Write, RuntimeTypes, DataTypes
  <2> QED  BY <2>1, NoneAssumption DEF StateFiles
<1>7. ASSUME NEW label, GoTo(c, label), Fits(label, read[c], Living(t)', state'[t])
      PROVE  KnownInv(t)'
  <2>1. Goes(c, label, todo[c], t, read[c], port[c], save[c])
    BY <1>7, GoToGoes
  <2> QED  BY <1>1, <1>3, <1>7, <2>1, GoesKnown
<1>8. ASSUME CallOver(c), Fits("idle", None, Living(t)', state'[t])
      PROVE  KnownInv(t)'
  <2>1. CASE Goes(c, "idle", <<>>, None, None, 0, 0)
    BY <1>1, <1>3, <1>8, <2>1, GoesKnown
  <2>2. ASSUME NEW label \in {"read", "stop"}, NEW order \in Orders,
               Goes(c, label, order, t, None, 0, 0)
        PROVE  KnownInv(t)'
    <3>1. Fits(label, None, Living(t)', state'[t])
      BY <1>8 DEF Fits
    <3> QED  BY <1>1, <1>3, <2>2, <3>1, GoesKnown
  <2> QED  BY <1>8, <2>1, <2>2 DEF CallOver
<1>9. CASE ReadState(c)
  <2>1. pc[c] = "read" /\ processes' = processes /\ state' = state /\ read[c] = None
    BY <1>4, <1>9 DEF ReadState, CallerForm
  <2>2. \E label \in {"resolve", "select"} : \E n, s :
           /\ Goes(c, label, todo[c], t, None, n, s)
           /\ label = "resolve" => current = None
    BY <1>9, <2>1 DEF ReadState, Goes, RuntimeTypes
  <2>3. \A label \in {"resolve", "select"} :
           (label = "resolve" => current = None) => Fits(label, None, Living(t)', state'[t])
    BY <1>2, <1>5, <2>1 DEF Fits
  <2> QED  BY <1>1, <1>3, <2>2, <2>3, GoesKnown
<1>10. CASE ResolvePort(c)
  <2>1. pc[c] = "resolve" /\ processes' = processes /\ state' = state
    BY <1>10 DEF ResolvePort
  <2>2. \E n, s : Goes(c, "write", todo[c], t, read[c], n, s)
    BY <1>10 DEF ResolvePort, Goes, RuntimeTypes
  <2>3. Fits("write", read[c], Living(t)', state'[t])
    BY <1>2, <1>5, <2>1 DEF Fits
  <2> QED  BY <1>1, <1>3, <2>2, <2>3, GoesKnown
<1>11. CASE FindNoPort(c)
  <2>1. /\ pc[c] = "resolve" /\ processes' = processes /\ state' = state
        /\ Goes(c, "idle", <<>>, None, None, 0, 0)
    BY <1>11, AbandonGoes DEF FindNoPort
  <2>2. Fits("idle", None, Living(t)', state'[t])
    BY <1>2, <1>5, <2>1 DEF Fits
  <2> QED  BY <1>8, <2>1, <2>2 DEF CallOver
<1>12. CASE WriteInitialState(c)
  <2>1. /\ pc[c] = "write" /\ processes' = processes /\ Write(c, port[c], 0)
        /\ GoTo(c, "select") /\ read[c] = None
    BY <1>4, <1>12 DEF WriteInitialState, CallerForm
  <2>2. Living(t)' = {}
    BY <1>2, <1>5, <2>1 DEF Fits
  <2> QED  BY <1>7, <2>1, <2>2 DEF Fits
<1>13. CASE SelectRow(c)
  <2>1. /\ pc[c] \in {"select", "selectLast"} /\ processes' = processes /\ state' = state
        /\ \E label \in {"update", "insert", "updateLast", "insertLast"} :
              /\ GoTo(c, label)
              /\ label \in {"update", "insert"} => pc[c] = "select"
    BY <1>13 DEF SelectRow
  <2>2. \A label \in {"update", "insert", "updateLast", "insertLast"} :
           (label \in {"update", "insert"} => pc[c] = "select") =>
               Fits(label, read[c], Living(t)', state'[t])
    BY <1>2, <1>5, <2>1 DEF Fits
  <2> QED  BY <1>7, <2>1, <2>2
<1>14. CASE SaveRow(c)
  <2>1. /\ pc[c] \in {"update", "insert", "updateLast", "insertLast"}
        /\ processes' = processes /\ state' = state /\ AfterSave(c)
    BY <1>14 DEF SaveRow
  <2>2. \/ Done(c)
        \/ read[c] = None /\ GoTo(c, "recheck")
        \/ read[c] # None /\ pc[c] \in {"update", "insert"} /\ GoTo(c, "spawn")
    BY <2>1 DEF AfterSave
  <2>3. /\ Fits("idle", None, Living(t)', state'[t])
        /\ read[c] = None => Fits("recheck", read[c], Living(t)', state'[t])
        /\ read[c] # None /\ pc[c] \in {"update", "insert"} =>
              Fits("spawn", read[c], Living(t)', state'[t])
    BY <1>2, <1>5, <2>1 DEF Fits
  <2> QED  BY <1>7, <1>8, <2>1, <2>2, <2>3, DoneGoes
<1>15. CASE RecheckState(c)
  <2>1. pc[c] = "recheck" /\ processes' = processes /\ state' = state
    BY <1>15 DEF RecheckState
  <2>2. \A p \in Living(t) : current # None /\ current.pid = p.pid
    BY <1>2, <2>1 DEF Fits
  <2>3. \/ (current = None \/ current.pid = 0) /\ GoTo(c, "spawn")
        \/ Done(c)
        \/ ~Alive(current.pid) /\ Goes(c, "clear", todo[c], t, current, port[c], current.port)
    BY <1>15 DEF RecheckState, Goes, RuntimeTypes
  <2>4. CASE (current = None \/ current.pid = 0) /\ GoTo(c, "spawn")
    <3>1. Living(t)' = {}
      BY <1>4, <1>5, <2>1, <2>2, <2>4
    <3> QED  BY <1>7, <2>4, <3>1 DEF Fits
  <2>5. CASE Done(c)
    <3>1. Fits("idle", None, Living(t)', state'[t])
      BY <1>5, <2>1, <2>2 DEF Fits
    <3> QED  BY <1>8, <2>1, <2>5, <3>1, DoneGoes
  <2>6. CASE ~Alive(current.pid) /\ Goes(c, "clear", todo[c], t, current, port[c], current.port)
    <3>1. Living(t)' = {}
      BY <1>5, <2>1, <2>2, <2>6 DEF Living, Alive
    <3>2. Fits("clear", current, Living(t)', state'[t])
      BY <3>1 DEF Fits
    <3> QED  BY <1>1, <1>3, <2>6, <3>2, GoesKnown
  <2> QED  BY <2>3, <2>4, <2>5, <2>6
<1>16. CASE ClearStalePid(c)
  <2>1. pc[c] = "clear" /\ processes' = processes /\ GoTo(c, "select")
    BY <1>16 DEF ClearStalePid
  <2>2. Living(t)' = {}
    BY <1>2, <1>5, <2>1 DEF Fits
  <2> QED  BY <1>7, <2>1, <2>2 DEF Fits
<1>17. CASE Spawn(c)
  <2> DEFINE file == [port |-> port[c], pid |-> pids + 1]
  <2>1. /\ pc[c] = "spawn" /\ state' = state
        /\ processes' = processes \cup {NewProcess(c)}
        /\ Goes(c, "record", todo[c], t, file, port[c], save[c])
    BY <1>17 DEF Spawn, Goes, RuntimeTypes, NewProcess
  <2>2. Living(t) = {}
    BY <1>2, <2>1 DEF Fits
  <2>3. \A p \in Living(t)' : p.pid = file.pid
    <3>1. NewProcess(c).pid = file.pid
      BY DEF NewProcess
    <3> QED  BY <2>1, <2>2, <3>1 DEF Living
  <2>4. Fits("record", file, Living(t)', state'[t])
    BY <2>3 DEF Fits
  <2> QED  BY <1>1, <1>3, <2>1, <2>4, GoesKnown
<1>18. CASE RecordStart(c)
  <2>1. /\ pc[c] = "record" /\ processes' = processes
        /\ Write(c, Preferred[t], read[c].pid)
        /\ Goes(c, "selectLast", todo[c], t, read[c], port[c], Preferred[t])
    BY <1>18 DEF RecordStart, Goes, RuntimeTypes
  <2>2. Preferred[t] \in Ports /\ read[c].pid \in Nat
    <3>1. read[c] \in StateFiles
      BY <1>4, <2>1, CallerIs DEF CallerForm
    <3> QED  BY <3>1, PortsAre DEF StateFiles
  <2>3. state'[t] # None /\ state'[t].pid = read[c].pid
    BY <1>6, <2>1, <2>2
  <2>4. \A p \in Living(t)' : p.pid = read[c].pid
    BY <1>2, <1>5, <2>1 DEF Fits
  <2>5. Fits("selectLast", read[c], Living(t)', state'[t])
    BY <2>3, <2>4 DEF Fits
  <2> QED  BY <1>1, <1>3, <2>1, <2>5, GoesKnown
<1>19. CASE StopProcess(c)
  <2> DEFINE told == {p \in processes : current # None /\ p.pid = current.pid}
  <2>1. /\ pc[c] = "stop" /\ state' = state
        /\ processes' = (processes \ told) \cup
              {[p EXCEPT !.phase = "dying"] : p \in {q \in told : q.phase # "launching"}}
        /\ \E s : Goes(c, "stopped", todo[c], t, read[c], port[c], s)
    BY <1>19 DEF StopProcess, Goes, RuntimeTypes
  <2>2. \A p \in Living(t) : p \in told
    BY <1>2, <2>1 DEF Fits, Living
  <2>3. \A q \in processes' : q \in processes \ told \/ q.phase = "dying"
    <3>1. \A p \in processes : [p EXCEPT !.phase = "dying"].phase = "dying"
      BY DEF RuntimeTypes, DataTypes
    <3>2. told \subseteq processes
      OBVIOUS
    <3> HIDE DEF told
    <3> QED  BY <2>1, <3>1, <3>2
  <2>4. Living(t)' = {}
    BY <2>2, <2>3 DEF Living
  <2>5. Fits("stopped", read[c], Living(t)', state'[t])
    BY <2>4 DEF Fits
  <2> QED  BY <1>1, <1>3, <2>1, <2>5, GoesKnown
<1>20. CASE RecordStop(c)
  <2>1. pc[c] = "stopped" /\ processes' = processes /\ GoTo(c, "selectLast")
    BY <1>20 DEF RecordStop
  <2>2. Living(t)' = {}
    BY <1>2, <1>5, <2>1 DEF Fits
  <2> QED  BY <1>7, <2>1, <2>2 DEF Fits
<1>21. CASE Die(c)
  <2>1. <<t, "died">> \in mishaps' /\ <<t, "died">>[1] = t
    BY <1>21 DEF Die
  <2> QED  BY <2>1 DEF NoMishap
<1> QED  BY <1>9, <1>10, <1>11, <1>12, <1>13, <1>14, <1>15, <1>16, <1>17, <1>18, <1>19,
            <1>20, <1>21 DEF RuntimeWork

LEMMA KnownStep ==
    ASSUME RuntimeTypes, NEW c \in Callers, RuntimeAct(c), NEW t \in Tenants, KnownInv(t)
    PROVE  KnownInv(t)'
<1>1. CASE RuntimeWork(c) /\ tenant[c] = t
  BY <1>1, KnownOwn
<1>2. CASE RuntimeWork(c) /\ tenant[c] # t
  <2>1. tenant'[c] # t
    BY <1>2, WorkTenant, RuntimeAssumption
  <2> QED  BY <1>2, <2>1, KnownElsewhere DEF RuntimeAct
<1>3. ASSUME NEW u \in Tenants, NEW order \in Orders, Ask(c, u, order)
      PROVE  KnownInv(t)'
  <2>1. CASE u = t
    BY <1>3, <2>1, KnownBegins
  <2>2. CASE u # t
    <3>1. tenant[c] # t
      BY <1>3, CallerIs DEF Ask, CallerForm
    <3>2. tenant'[c] # t
      BY <1>3, <2>2 DEF Ask, RuntimeTypes
    <3> QED  BY <1>3, <3>1, <3>2, KnownElsewhere DEF RuntimeAct
  <2> QED  BY <2>1, <2>2
<1> QED  BY <1>1, <1>2, <1>3 DEF RuntimeAct

LEMMA KnownProcessStep ==
    ASSUME RuntimeTypes, ProcessAct, NEW t \in Tenants, KnownInv(t)
    PROVE  KnownInv(t)'
<1>1. UNCHANGED <<state, rows, pids, callerVars, mishaps, displaced>>
  BY ProcessStep
<1>2. \A q \in Living(t)' : \E p \in Living(t) : p.pid = q.pid
  BY ProcessStep DEF Descends, Living
<1>3. \A label, file : Fits(label, file, Living(t), state[t]) =>
                           Fits(label, file, Living(t)', state[t])
  BY <1>2, FitsKeeps
<1>4. state' = state /\ pc' = pc /\ read' = read /\ tenant' = tenant /\ mishaps' = mishaps
  BY <1>1 DEF callerVars
<1> QED  BY <1>3, <1>4 DEF KnownInv, NoMishap

-----------------------------------------------------------------------------
(* Whose a port is.                                                         *)

\* A caller at this place, with this file read, will use port n.
Using(label, file, number, stored, n) ==
    \/ /\ label \in {"write", "select", "update", "insert", "recheck", "spawn", "record", "clear"}
       /\ n = number
    \/ /\ label \in {"write", "select", "update", "insert", "clear", "stopped", "selectLast",
                     "updateLast", "insertLast"}
       /\ n = stored
    \/ label = "clear" /\ n = file.port

Uses(c, n) == Using(pc[c], read[c], port[c], save[c], n)

\* Tenant t has port n, or its state file or a caller of it says so.
Has(t, n) ==
    \/ \E i \in DOMAIN rows[t] : rows[t][i] = n
    \/ state[t] # None /\ state[t].port = n
    \/ \E c \in Callers : tenant[c] = t /\ Uses(c, n)
    \/ \E p \in processes : p.tenant = t /\ p.port = n

\* Others can see what port it has.
Visible(t) == rows[t] # <<>> \/ \E c \in Callers : tenant[c] = t /\ Claiming(c)

\* A tenant that was not displaced has one port, which others can see.
PortInv(t) ==
    t \notin displaced =>
        /\ \A m, n \in Ports : Has(t, m) /\ Has(t, n) => m = n
        /\ \A n \in Ports : Has(t, n) => Visible(t)

\* Nobody has it besides.
ApartInv(t, u) ==
    t # u /\ t \notin displaced /\ u \notin displaced =>
        \A n \in Ports : ~(Has(t, n) /\ Has(u, n))

\* What a caller that takes a step will use, it or its state file had.
LEMMA OwnUses ==
    ASSUME RuntimeTypes, NEW c \in Callers, RuntimeAct(c), ~ResolvePort(c),
           NEW t \in Tenants, t \notin displaced', tenant'[c] = t, NEW n \in Ports, Uses(c, n)'
    PROVE  tenant[c] = t /\ (Uses(c, n) \/ (state[t] # None /\ state[t].port = n))
<1>1. ASSUME NEW label, NEW order, NEW who, NEW file, NEW number, NEW stored,
             Goes(c, label, order, who, file, number, stored)
      PROVE  Using(label, file, number, stored, n) /\ t = who
  <2>1. /\ pc'[c] = label /\ read'[c] = file /\ port'[c] = number /\ save'[c] = stored
        /\ tenant'[c] = who
    BY <1>1 DEF Goes, RuntimeTypes
  <2> QED  BY <2>1 DEF Uses
<1>2. t # None
  BY RuntimeAssumption
<1>3. ~CallOver(c)
  BY <1>1, <1>2 DEF CallOver, Using
<1>4. ASSUME NEW label, GoTo(c, label)
      PROVE  tenant[c] = t /\ Using(label, read[c], port[c], save[c], n)
  BY <1>1, <1>4, GoToGoes
<1>5. CASE ReadState(c)
  <2> DEFINE current == state[tenant[c]]
  <2>1. CASE current = None
    <3>1. Goes(c, "resolve", todo[c], tenant[c], read[c], 0, 0)
      BY <1>5, <2>1 DEF ReadState, Goes, RuntimeTypes
    <3> QED  BY <1>1, <3>1 DEF Using
  <2>2. CASE current # None
    <3>1. Goes(c, "select", todo[c], tenant[c], read[c], current.port, current.port)
      BY <1>5, <2>2 DEF ReadState, Goes, RuntimeTypes
    <3>2. tenant[c] = t /\ Using("select", read[c], current.port, current.port, n)
      BY <1>1, <3>1
    <3> QED  BY <2>2, <3>2 DEF Using
  <2> QED  BY <2>1, <2>2
<1>6. CASE FindNoPort(c) \/ Die(c)
  <2>1. Goes(c, "idle", <<>>, None, None, 0, 0)
    BY <1>6, AbandonGoes DEF FindNoPort, Die
  <2> QED  BY <1>3, <2>1 DEF CallOver
<1>7. CASE WriteInitialState(c) \/ ClearStalePid(c)
  <2>1. pc[c] \in {"write", "clear"} /\ GoTo(c, "select")
    BY <1>7 DEF WriteInitialState, ClearStalePid
  <2>2. tenant[c] = t /\ Using("select", read[c], port[c], save[c], n)
    BY <1>4, <2>1
  <2> QED  BY <2>1, <2>2 DEF Uses, Using
<1>8. CASE SelectRow(c)
  <2>1. PICK label \in {"update", "insert", "updateLast", "insertLast"} :
           /\ GoTo(c, label)
           /\ label \in {"update", "insert"} => pc[c] = "select"
           /\ label \in {"updateLast", "insertLast"} => pc[c] = "selectLast"
    BY <1>8 DEF SelectRow
  <2>2. tenant[c] = t /\ Using(label, read[c], port[c], save[c], n)
    BY <1>4, <2>1
  <2> QED  BY <2>1, <2>2 DEF Uses, Using
<1>9. CASE SaveRow(c)
  <2>1. pc[c] \in {"update", "insert", "updateLast", "insertLast"} /\ AfterSave(c)
    BY <1>9 DEF SaveRow
  <2>2. Done(c) \/ (pc[c] \in {"update", "insert"} /\ \E label \in {"recheck", "spawn"} : GoTo(c, label))
    BY <2>1 DEF AfterSave
  <2>3. PICK label \in {"recheck", "spawn"} : pc[c] \in {"update", "insert"} /\ GoTo(c, label)
    BY <1>3, <2>1, <2>2, DoneGoes
  <2>4. tenant[c] = t /\ Using(label, read[c], port[c], save[c], n)
    BY <1>4, <2>3
  <2> QED  BY <2>3, <2>4 DEF Uses, Using
<1>10. CASE RecheckState(c)
  <2> DEFINE current == state[tenant[c]]
  <2>1. pc[c] = "recheck"
    BY <1>10 DEF RecheckState
  <2>2. \/ GoTo(c, "spawn")
        \/ Done(c)
        \/ current # None /\ Goes(c, "clear", todo[c], tenant[c], current, port[c], current.port)
    BY <1>10 DEF RecheckState, Goes, RuntimeTypes
  <2>3. CASE GoTo(c, "spawn")
    <3>1. tenant[c] = t /\ Using("spawn", read[c], port[c], save[c], n)
      BY <1>4, <2>3
    <3> QED  BY <2>1, <3>1 DEF Uses, Using
  <2>4. CASE current # None /\ Goes(c, "clear", todo[c], tenant[c], current, port[c], current.port)
    <3>1. tenant[c] = t /\ Using("clear", current, port[c], current.port, n)
      BY <1>1, <2>4
    <3> QED  BY <2>1, <2>4, <3>1 DEF Uses, Using
  <2> QED  BY <1>3, <2>1, <2>2, <2>3, <2>4, DoneGoes
<1>11. CASE Spawn(c)
  <2>1. /\ pc[c] = "spawn"
        /\ \E file : Goes(c, "record", todo[c], tenant[c], file, port[c], save[c])
    BY <1>11 DEF Spawn, Goes, RuntimeTypes
  <2>2. tenant[c] = t /\ \E file : Using("record", file, port[c], save[c], n)
    BY <1>1, <2>1
  <2> QED  BY <2>1, <2>2 DEF Uses, Using
<1>12. CASE RecordStart(c)
  <2>1. /\ pc[c] = "record"
        /\ Goes(c, "selectLast", todo[c], tenant[c], read[c], port[c], Preferred[tenant[c]])
    BY <1>12 DEF RecordStart, Goes, RuntimeTypes
  <2>2. tenant[c] = t /\ Using("selectLast", read[c], port[c], Preferred[tenant[c]], n)
    BY <1>1, <2>1
  <2>3. n = Preferred[t]
    BY <2>2 DEF Using
  <2>4. port[c] = Preferred[t]
    BY <1>12, <2>2 DEF RecordStart
  <2> QED  BY <2>1, <2>2, <2>3, <2>4 DEF Uses, Using
<1>13. CASE StopProcess(c)
  <2> DEFINE stored == IF state[tenant[c]] = None THEN Preferred[tenant[c]] ELSE state[tenant[c]].port
  <2>1. Goes(c, "stopped", todo[c], tenant[c], read[c], port[c], stored)
    BY <1>13 DEF StopProcess, Goes, RuntimeTypes
  <2>2. tenant[c] = t /\ Using("stopped", read[c], port[c], stored, n)
    BY <1>1, <2>1
  <2>3. state[t] # None
    BY <1>13, <2>2 DEF StopProcess
  <2> QED  BY <2>2, <2>3 DEF Using
<1>14. CASE RecordStop(c)
  <2>1. pc[c] = "stopped" /\ GoTo(c, "selectLast")
    BY <1>14 DEF RecordStop
  <2>2. tenant[c] = t /\ Using("selectLast", read[c], port[c], save[c], n)
    BY <1>4, <2>1
  <2> QED  BY <2>1, <2>2 DEF Uses, Using
<1>15. ASSUME NEW u \in Tenants, NEW order \in Orders, Ask(c, u, order)
       PROVE  FALSE
  <2>1. Goes(c, Entry(Head(order)), order, u, read[c], port[c], save[c])
    BY <1>15 DEF Ask, Goes, RuntimeTypes
  <2>2. Using(Entry(Head(order)), read[c], port[c], save[c], n)
    BY <1>1, <2>1
  <2>3. Entry(Head(order)) \in {"read", "stop"}
    BY OrderParts
  <2> QED  BY <2>2, <2>3 DEF Using
<1> QED  BY <1>5, <1>6, <1>7, <1>8, <1>9, <1>10, <1>11, <1>12, <1>13, <1>14, <1>15
         DEF RuntimeAct, RuntimeWork

\* No step gives a tenant a port it had not, but the one that looks for one.
LEMMA HasShrinks ==
    ASSUME RuntimeTypes, NEW c \in Callers, RuntimeAct(c), NEW t \in Tenants,
           ~ResolvePort(c) \/ tenant[c] # t, t \notin displaced', NEW n \in Ports, Has(t, n)'
    PROVE  Has(t, n)
<1>1. CASE \E i \in DOMAIN rows'[t] : rows'[t][i] = n
  <2>0. /\ rows \in [Tenants -> Seq(Ports)] /\ rows[t] \in Seq(Ports) /\ save[c] \in Ports
    BY CallerIs DEF RuntimeTypes, DataTypes
  <2>1. CASE rows'[t] = rows[t]
    BY <1>1, <2>1 DEF Has
  <2>2. CASE rows'[t] # rows[t]
    <3>1. /\ SaveRow(c) /\ tenant[c] = t
          /\ \/ rows[t] # <<>> /\ rows'[t] = [rows[t] EXCEPT ![1] = save[c]]
             \/ rows'[t] = Append(rows[t], save[c])
      <4>1. ASSUME NEW u \in Tenants, NEW s, rows' = [rows EXCEPT ![u] = s]
            PROVE  u = t /\ rows'[t] = s
        BY <2>0, <2>2, <4>1
      <4>2. CASE tenant[c] \in Tenants /\ rows[tenant[c]] # <<>>
                 /\ rows' = [rows EXCEPT ![tenant[c]] = [@ EXCEPT ![1] = save[c]]]
        <5>1. tenant[c] = t /\ rows'[t] = [rows[tenant[c]] EXCEPT ![1] = save[c]]
          BY <2>0, <4>1, <4>2
        <5> QED  BY <2>2, <4>2, <5>1, RowWrites
      <4>3. CASE tenant[c] \in Tenants /\ rows' = [rows EXCEPT ![tenant[c]] = Append(@, save[c])]
        <5>1. tenant[c] = t /\ rows'[t] = Append(rows[tenant[c]], save[c])
          BY <2>0, <4>1, <4>3
        <5> QED  BY <2>2, <5>1, RowWrites
      <4> QED  BY <2>2, <4>2, <4>3, RowWrites
    <3>2. ASSUME NEW i \in DOMAIN rows'[t]
          PROVE  rows'[t][i] = save[c] \/ (i \in DOMAIN rows[t] /\ rows'[t][i] = rows[t][i])
      <4>1. CASE rows[t] # <<>> /\ rows'[t] = [rows[t] EXCEPT ![1] = save[c]]
        <5>1. /\ DOMAIN rows'[t] = DOMAIN rows[t] /\ rows'[t][1] = save[c]
              /\ \A j \in DOMAIN rows[t] \ {1} : rows'[t][j] = rows[t][j]
          BY <2>0, <4>1, RowEntries
        <5> QED  BY <5>1
      <4>2. CASE rows'[t] = Append(rows[t], save[c])
        <5>1. /\ DOMAIN rows'[t] = 1 .. Len(rows[t]) + 1
              /\ \A j \in DOMAIN rows[t] : rows'[t][j] = rows[t][j]
              /\ rows'[t][Len(rows[t]) + 1] = save[c]
              /\ DOMAIN rows[t] = 1 .. Len(rows[t]) /\ Len(rows[t]) \in Nat
          BY <2>0, <4>2, RowEntries
        <5> QED  BY <5>1
      <4> QED  BY <3>1, <4>1, <4>2
    <3>3. Uses(c, save[c])
      BY <3>1 DEF SaveRow, Uses, Using
    <3> QED  BY <1>1, <3>1, <3>2, <3>3 DEF Has
  <2> QED  BY <2>1, <2>2
<1>2. CASE state'[t] # None /\ state'[t].port = n
  <2>1. CASE state'[t] = state[t]
    BY <1>2, <2>1 DEF Has
  <2>2. ASSUME state'[t] # state[t], NEW m, NEW q, Write(c, m, q)
        PROVE  tenant[c] = t /\ m = n
    <3>1. t = tenant[c] /\ state'[t] = [port |-> m, pid |-> q]
      BY <2>2 DEF Write, RuntimeTypes, DataTypes
    <3> QED  BY <1>2, <3>1
  <2>3. CASE state'[t] # state[t]
    <3>1. CASE WriteInitialState(c)
      <4>1. pc[c] = "write" /\ Write(c, port[c], 0)
        BY <3>1 DEF WriteInitialState
      <4> QED  BY <2>2, <2>3, <4>1 DEF Has, Uses, Using
    <3>2. CASE ClearStalePid(c)
      <4>1. pc[c] = "clear" /\ Write(c, read[c].port, 0)
        BY <3>2 DEF ClearStalePid
      <4> QED  BY <2>2, <2>3, <4>1 DEF Has, Uses, Using
    <3>3. CASE RecordStart(c)
      <4>1. /\ pc[c] = "record" /\ Write(c, Preferred[tenant[c]], read[c].pid)
            /\ port[c] # Preferred[tenant[c]] => tenant[c] \in displaced'
        BY <3>3 DEF RecordStart
      <4>2. tenant[c] = t /\ Preferred[tenant[c]] = n
        BY <2>2, <2>3, <4>1
      <4> QED  BY <4>1, <4>2 DEF Has, Uses, Using
    <3>4. CASE RecordStop(c)
      <4>1. pc[c] = "stopped" /\ Write(c, save[c], 0)
        BY <3>4 DEF RecordStop
      <4> QED  BY <2>2, <2>3, <4>1 DEF Has, Uses, Using
    <3>5. CASE state' = state
      BY <2>3, <3>5
    <3>6. CASE ~WriteInitialState(c) /\ ~ClearStalePid(c) /\ ~RecordStart(c) /\ ~RecordStop(c)
      <4>1. state' = state
        BY <3>6 DEF RuntimeAct, RuntimeWork, Ask, ReadState, ResolvePort, FindNoPort, SelectRow,
           SaveRow, RecheckState, Spawn, StopProcess, Die
      <4> QED  BY <2>3, <4>1
    <3> QED  BY <3>1, <3>2, <3>3, <3>4, <3>6
  <2> QED  BY <2>1, <2>3
<1>3. CASE \E d \in Callers : tenant'[d] = t /\ Uses(d, n)'
  <2>1. PICK d \in Callers : tenant'[d] = t /\ Uses(d, n)'
    BY <1>3
  <2>2. CASE d # c
    <3>1. tenant[d] = t /\ Uses(d, n)
      BY <2>1, <2>2, OnlyOwn DEF Uses
    <3> QED  BY <3>1 DEF Has
  <2>3. CASE d = c
    <3>1. ~ResolvePort(c)
      <4>1. ResolvePort(c) => tenant'[c] = tenant[c]
        BY DEF ResolvePort
      <4> QED  BY <2>1, <2>3, <4>1
    <3> QED  BY <2>1, <2>3, <3>1, OwnUses DEF Has
  <2> QED  BY <2>2, <2>3
<1>4. CASE \E q \in processes' : q.tenant = t /\ q.port = n
  <2>1. PICK q \in processes' : q.tenant = t /\ q.port = n
    BY <1>4
  <2>2. CASE q \in processes \/ Descends(q)
    BY <2>1, <2>2 DEF Descends, Has
  <2>3. CASE Spawn(c) /\ q = NewProcess(c)
    <3>1. pc[c] = "spawn" /\ tenant[c] = t /\ port[c] = n
      BY <2>1, <2>3 DEF Spawn, NewProcess
    <3> QED  BY <3>1 DEF Has, Uses, Using
  <2> QED  BY <2>1, <2>2, <2>3, ProcessWrites
<1> QED  BY <1>1, <1>2, <1>3, <1>4 DEF Has

\* What others could see they can see still, in a row or while it is claimed.
LEMMA VisibleStays ==
    ASSUME RuntimeTypes, NEW c \in Callers, RuntimeAct(c), NEW t \in Tenants,
           t \notin displaced', Visible(t)
    PROVE  Visible(t)'
<1>1. CASE rows[t] # <<>>
  BY <1>1, DataStep DEF Visible, Grows
<1>2. ASSUME NEW d \in Callers, tenant[d] = t, Claiming(d), rows[t] = <<>>
      PROVE  Visible(t)'
  <2>1. CASE d # c
    <3>1. tenant'[d] = t /\ pc'[d] = pc[d]
      BY <1>2, <2>1, OnlyOwn
    <3> QED  BY <1>2, <3>1 DEF Visible, Claiming
  <2>2. CASE d = c
    <3>1. pc[c] \in {"write", "select", "update", "insert"} /\ tenant[c] = t
      BY <1>2, <2>2 DEF Claiming
    <3>2. WriteInitialState(c) \/ SelectRow(c) \/ SaveRow(c) \/ Die(c)
      BY <3>1 DEF RuntimeAct, RuntimeWork, Ask, ReadState, ResolvePort, FindNoPort, RecheckState,
         ClearStalePid, Spawn, RecordStart, StopProcess, RecordStop
    <3>3. CASE WriteInitialState(c) \/ SelectRow(c)
      <4>1. pc[c] # "selectLast"
        BY <3>1
      <4>2. \E label \in {"select", "update", "insert"} : GoTo(c, label)
        BY <3>3, <4>1 DEF WriteInitialState, SelectRow
      <4>3. tenant'[c] = t /\ pc'[c] \in {"select", "update", "insert"}
        BY <3>1, <4>2 DEF GoTo, RuntimeTypes
      <4> QED  BY <4>3 DEF Visible, Claiming
    <3>4. CASE SaveRow(c)
      <4>1. rows' # rows \/ t \in displaced'
        <5>1. CallerForm(c)
          BY CallerIs
        <5>2. pc[c] = "insert"
          BY <1>2, <3>1, <3>4, <5>1 DEF CallerForm, SaveRow
        <5>3. rows' = [rows EXCEPT ![t] = Append(@, save[c])] \/ t \in displaced'
          BY <1>2, <3>1, <3>4, <5>2 DEF SaveRow
        <5>4. rows \in [Tenants -> Seq(Ports)] /\ rows[t] \in Seq(Ports) /\ save[c] \in Ports
          BY CallerIs DEF RuntimeTypes, DataTypes
        <5>5. Append(rows[t], save[c]) # <<>>
          BY <5>4, RowEntries
        <5> QED  BY <1>2, <5>3, <5>4, <5>5
      <4>2. rows'[t] # rows[t] \/ t \in displaced'
        BY <3>1, <4>1, RowWrites DEF RuntimeTypes, DataTypes
      <4> QED  BY <1>2, <4>2 DEF Visible
    <3>5. CASE Die(c)
      BY <1>2, <2>2, <3>5 DEF Die
    <3> QED  BY <3>2, <3>3, <3>4, <3>5
  <2> QED  BY <2>1, <2>2
<1> QED  BY <1>1, <1>2 DEF Visible

\* A caller finds a port: all there is of its tenant has that port already,
\* and nobody else has it.
LEMMA ResolvedPort ==
    ASSUME RuntimeTypes, NEW c \in Callers, ResolvePort(c), NEW t \in Tenants, tenant[c] = t,
           t \notin displaced', \A u \in Tenants : PortInv(u)
    PROVE  /\ Visible(t)'
           /\ \E free \in Ports :
                 /\ \A n \in Ports : Has(t, n)' => n = free
                 /\ \A u \in Tenants \ {t} : u \notin displaced => ~Has(u, free)
<1>1. pc[c] = "resolve" /\ pc' = [pc EXCEPT ![c] = "write"]
      /\ UNCHANGED <<todo, tenant, read, state, rows, processes>>
  BY DEF ResolvePort
<1>2. t # None
  BY RuntimeAssumption
<1>3. \E i \in 0 .. NPorts - 1 :
         /\ (Preferred[t] + i) % NPorts \notin Allocated(t)
         /\ ~Racing(c, (Preferred[t] + i) % NPorts) /\ ~Divided(c, (Preferred[t] + i) % NPorts)
         /\ port' = [port EXCEPT ![c] = (Preferred[t] + i) % NPorts]
         /\ save' = [save EXCEPT ![c] = (Preferred[t] + i) % NPorts]
         /\ displaced' = displaced
  BY DEF ResolvePort
<1>4. PICK free \in Ports :
         /\ free \notin Allocated(t) /\ ~Racing(c, free) /\ ~Divided(c, free)
         /\ port' = [port EXCEPT ![c] = free] /\ save' = [save EXCEPT ![c] = free]
         /\ displaced' = displaced
  BY <1>2, <1>3, PortsAre
<1>5. \A s \in Tenants : rows[s] \in Seq(Ports) /\ (rows[s] # <<>> => 1 \in DOMAIN rows[s] /\ rows[s][1] \in Ports)
  <2>1. ASSUME NEW s \in Seq(Ports), s # <<>>
        PROVE  1 \in DOMAIN s /\ s[1] \in Ports
    BY <2>1
  <2> QED  BY <2>1 DEF RuntimeTypes, DataTypes
<1>6. \A d \in Callers : Claiming(d) => Uses(d, port[d]) /\ port[d] \in Ports /\ d # c
  BY <1>1, CallerIs DEF Claiming, Uses, Using
<1>7. ASSUME NEW n \in Ports, Has(t, n)
      PROVE  n = free
  <2>1. PortInv(t) /\ Visible(t) /\ \A m \in Ports : Has(t, m) => m = n
    BY <1>2, <1>4, <1>7 DEF PortInv
  <2>2. CASE rows[t] # <<>>
    <3>1. 1 \in DOMAIN rows[t] /\ rows[t][1] \in Ports
      BY <1>2, <1>5, <2>2
    <3>2. Has(t, rows[t][1])
      BY <3>1 DEF Has
    <3>3. rows[t][1] = free
      BY <1>4, <3>1 DEF Divided
    <3> QED  BY <2>1, <3>1, <3>2, <3>3
  <2>3. ASSUME NEW d \in Callers, tenant[d] = t, Claiming(d)
        PROVE  n = free
    <3>1. Has(t, port[d]) /\ port[d] \in Ports /\ d # c
      BY <1>6, <2>3 DEF Has
    <3>2. port[d] = free
      BY <1>4, <2>3, <3>1 DEF Divided
    <3> QED  BY <2>1, <3>1, <3>2
  <2> QED  BY <2>1, <2>2, <2>3 DEF Visible
<1>8. ASSUME NEW n \in Ports, Has(t, n)'
      PROVE  n = free
  <2>1. CASE Has(t, n)
    BY <1>7, <2>1
  <2>2. CASE ~Has(t, n)
    <3>1. PICK d \in Callers : tenant'[d] = t /\ Uses(d, n)' /\ ~(tenant[d] = t /\ Uses(d, n))
      BY <1>1, <1>8, <2>2 DEF Has
    <3>2. d = c
      BY <1>1, <1>4, <3>1 DEF Uses, RuntimeTypes
    <3>3. pc'[c] = "write" /\ port'[c] = free /\ save'[c] = free
      BY <1>1, <1>4 DEF RuntimeTypes
    <3> QED  BY <3>1, <3>2, <3>3 DEF Uses, Using
  <2> QED  BY <2>1, <2>2
<1>9. Visible(t)'
  <2>1. tenant'[c] = t /\ pc'[c] = "write"
    BY <1>1 DEF RuntimeTypes
  <2> QED  BY <2>1 DEF Visible, Claiming
<1>10. ASSUME NEW u \in Tenants \ {t}, u \notin displaced, Has(u, free)
       PROVE  FALSE
  <2>1. PortInv(u) /\ Visible(u) /\ \A m \in Ports : Has(u, m) => m = free
    BY <1>10 DEF PortInv
  <2>2. CASE rows[u] # <<>>
    <3>1. 1 \in DOMAIN rows[u] /\ rows[u][1] \in Ports
      BY <1>5, <2>2
    <3>2. rows[u][1] = free
      BY <2>1, <3>1 DEF Has
    <3>3. free \in {rows[u][i] : i \in DOMAIN rows[u]}
      BY <3>1, <3>2
    <3> QED  BY <1>4, <3>3 DEF Allocated
  <2>3. ASSUME NEW d \in Callers, tenant[d] = u, Claiming(d)
        PROVE  FALSE
    <3>1. Has(u, port[d]) /\ port[d] \in Ports /\ d # c
      BY <1>6, <2>3 DEF Has
    <3>2. port[d] = free
      BY <2>1, <3>1
    <3>3. u # None
      BY RuntimeAssumption
    <3> QED  BY <1>4, <1>10, <2>3, <3>1, <3>2, <3>3 DEF Racing
  <2> QED  BY <2>1, <2>2, <2>3 DEF Visible
<1> QED  BY <1>8, <1>9, <1>10

LEMMA PortStep ==
    ASSUME RuntimeTypes, NEW c \in Callers, RuntimeAct(c), \A t \in Tenants : PortInv(t),
           \A t, u \in Tenants : ApartInv(t, u)
    PROVE  /\ \A t \in Tenants : PortInv(t)'
           /\ \A t, u \in Tenants : ApartInv(t, u)'
<1>1. displaced \subseteq displaced'
  BY HistoryWrites
<1>2. ASSUME NEW t \in Tenants, t \notin displaced', ~ResolvePort(c) \/ tenant[c] # t
      PROVE  /\ \A n \in Ports : Has(t, n)' => Has(t, n)
             /\ PortInv(t)'
  <2>1. \A n \in Ports : Has(t, n)' => Has(t, n)
    BY <1>2, HasShrinks
  <2>2. Visible(t) => Visible(t)'
    BY <1>2, VisibleStays
  <2>3. PortInv(t) /\ t \notin displaced
    BY <1>1, <1>2
  <2> QED  BY <2>1, <2>2, <2>3 DEF PortInv
<1>3. ASSUME NEW t \in Tenants, t \notin displaced', ResolvePort(c), tenant[c] = t
      PROVE  PortInv(t)'
  BY <1>3, ResolvedPort DEF PortInv
<1>4. ASSUME NEW t \in Tenants
      PROVE  PortInv(t)'
  <2>1. CASE t \in displaced'
    BY <2>1 DEF PortInv
  <2> QED  BY <1>2, <1>3, <2>1
<1>5. ASSUME NEW t \in Tenants, NEW u \in Tenants, t # u, t \notin displaced', u \notin displaced',
             NEW n \in Ports, Has(t, n)', Has(u, n)', ~ResolvePort(c) \/ tenant[c] # u
      PROVE  FALSE
  <2>1. Has(u, n)
    BY <1>2, <1>5
  <2>2. CASE ResolvePort(c) /\ tenant[c] = t
    <3>1. PICK free \in Ports :
             /\ \A m \in Ports : Has(t, m)' => m = free
             /\ \A s \in Tenants \ {t} : s \notin displaced => ~Has(s, free)
      BY <1>5, <2>2, ResolvedPort
    <3>2. n = free
      BY <1>5, <3>1
    <3> QED  BY <1>1, <1>5, <2>1, <2>2, <3>1, <3>2
  <2>3. CASE ~ResolvePort(c) \/ tenant[c] # t
    <3>1. Has(t, n)
      BY <1>2, <1>5, <2>3
    <3> QED  BY <1>1, <1>5, <2>1, <3>1 DEF ApartInv
  <2> QED  BY <2>2, <2>3
<1>6. ASSUME NEW t \in Tenants, NEW u \in Tenants
      PROVE  ApartInv(t, u)'
  <2> SUFFICES ASSUME t # u, t \notin displaced', u \notin displaced', NEW n \in Ports,
                      Has(t, n)', Has(u, n)'
               PROVE  FALSE
    BY DEF ApartInv
  <2>1. tenant[c] # t \/ tenant[c] # u
    OBVIOUS
  <2> QED  BY <1>5, <2>1
<1> QED  BY <1>4, <1>6

LEMMA PortProcessStep ==
    ASSUME RuntimeTypes, ProcessAct, \A t \in Tenants : PortInv(t),
           \A t, u \in Tenants : ApartInv(t, u)
    PROVE  /\ \A t \in Tenants : PortInv(t)'
           /\ \A t, u \in Tenants : ApartInv(t, u)'
<1>1. /\ \A q \in processes' : Descends(q)
      /\ state' = state /\ rows' = rows /\ displaced' = displaced
      /\ pc' = pc /\ tenant' = tenant /\ read' = read /\ port' = port /\ save' = save
  BY ProcessStep DEF callerVars
<1>2. ASSUME NEW t \in Tenants, NEW n \in Ports, Has(t, n)'
      PROVE  Has(t, n)
  <2>1. CASE \E q \in processes' : q.tenant = t /\ q.port = n
    BY <1>1, <2>1 DEF Has, Descends
  <2>2. CASE ~\E q \in processes' : q.tenant = t /\ q.port = n
    BY <1>1, <1>2, <2>2 DEF Has, Uses
  <2> QED  BY <2>1, <2>2
<1>3. \A t \in Tenants : Visible(t) => Visible(t)'
  BY <1>1 DEF Visible, Claiming
<1>4. ASSUME NEW t \in Tenants
      PROVE  PortInv(t)'
  BY <1>1, <1>2, <1>3, <1>4 DEF PortInv
<1>5. ASSUME NEW t \in Tenants, NEW u \in Tenants
      PROVE  ApartInv(t, u)'
  BY <1>1, <1>2, <1>5 DEF ApartInv
<1> QED  BY <1>4, <1>5

-----------------------------------------------------------------------------
(* Both together.                                                           *)

ManagedInv ==
    /\ RuntimeTypes
    /\ \A t \in Tenants : KnownInv(t)
    /\ \A t \in Tenants : PortInv(t)
    /\ \A t, u \in Tenants : ApartInv(t, u)

HostedInv ==
    /\ AssignmentTypes
    /\ \A o \in Organisations : RouteInv(o)

TenantInv == ManagedInv /\ HostedInv /\ managed \in BOOLEAN

LEMMA TenantInitInv == TenantInit => TenantInv
<1> SUFFICES ASSUME TenantInit
             PROVE  TenantInv
  OBVIOUS
<1>1. RuntimeTypes
  <2>1. <<>> \in Seq(Ports) /\ 0 \in Ports /\ "idle" \in RuntimeLabels
    BY PortsAre DEF RuntimeLabels
  <2>2. DataTypes
    BY <2>1 DEF TenantInit, RuntimeInit, DataTypes
  <2> QED  BY <2>1, <2>2 DEF TenantInit, RuntimeInit, RuntimeTypes, CallerForm
<1>2. \A t \in Tenants : KnownInv(t)
  BY RuntimeAssumption DEF TenantInit, RuntimeInit, KnownInv, Living, Fits
<1>3. \A t \in Tenants, n \in Ports : ~Has(t, n)
  BY RuntimeAssumption DEF TenantInit, RuntimeInit, Has
<1>4. AssignmentTypes
  <2>1. "idle" \in Stations
    BY DEF Stations
  <2> QED  BY <2>1 DEF TenantInit, AssignmentInit, AssignmentTypes, RequestForm
<1>5. \A o \in Organisations : RouteInv(o)
  BY DEF TenantInit, AssignmentInit, RouteInv
<1> QED  BY <1>1, <1>2, <1>3, <1>4, <1>5
         DEF TenantInit, TenantInv, ManagedInv, HostedInv, PortInv, ApartInv

LEMMA TenantStepInv == TenantInv /\ [TenantNext]_tenantVars => TenantInv'
<1> SUFFICES ASSUME TenantInv, [TenantNext]_tenantVars
             PROVE  TenantInv'
  OBVIOUS
<1>1. ManagedInv /\ HostedInv /\ managed \in BOOLEAN
  BY DEF TenantInv
<1>2. ASSUME UNCHANGED runtimeVars
      PROVE  ManagedInv'
  <2>1. RuntimeTypes'
    BY <1>1, <1>2 DEF ManagedInv, runtimeVars, callerVars, RuntimeTypes, DataTypes, CallerForm
  <2>2. \A t \in Tenants : KnownInv(t)'
    BY <1>1, <1>2 DEF ManagedInv, runtimeVars, callerVars, KnownInv, NoMishap, Living
  <2>3. /\ \A t \in Tenants, n \in Ports : Has(t, n)' <=> Has(t, n)
        /\ \A t \in Tenants : Visible(t)' <=> Visible(t)
    BY <1>2 DEF runtimeVars, callerVars, Has, Uses, Visible, Claiming
  <2>4. displaced' = displaced
    BY <1>2 DEF runtimeVars
  <2>5. /\ \A t \in Tenants : PortInv(t)
        /\ \A t, u \in Tenants : ApartInv(t, u)
    BY <1>1 DEF ManagedInv
  <2>6. \A t \in Tenants : PortInv(t)'
    BY <2>3, <2>4, <2>5 DEF PortInv
  <2>7. \A t, u \in Tenants : ApartInv(t, u)'
    BY <2>3, <2>4, <2>5 DEF ApartInv
  <2> QED  BY <2>1, <2>2, <2>6, <2>7 DEF ManagedInv
<1>3. ASSUME UNCHANGED assignmentVars
      PROVE  HostedInv'
  BY <1>1, <1>3 DEF HostedInv, assignmentVars, requestVars, AssignmentTypes, RequestForm,
     RouteInv, Active
<1>4. CASE managed /\ RuntimeNext /\ UNCHANGED <<assignmentVars, managed>>
  <2>1. (\E c \in Callers : RuntimeAct(c)) \/ ProcessAct
    BY <1>4 DEF RuntimeNext, RuntimeAct, ProcessAct
  <2>2. ASSUME NEW c \in Callers, RuntimeAct(c)
        PROVE  ManagedInv'
    BY <1>1, <2>2, RuntimeTypesStep, KnownStep, PortStep DEF ManagedInv
  <2>3. ASSUME ProcessAct
        PROVE  ManagedInv'
    BY <1>1, <2>3, ProcessStep, KnownProcessStep, PortProcessStep DEF ManagedInv
  <2>4. ManagedInv'
    BY <2>1, <2>2, <2>3
  <2>5. UNCHANGED assignmentVars /\ managed' = managed
    BY <1>4
  <2> QED  BY <1>1, <1>3, <2>4, <2>5 DEF TenantInv
<1>5. CASE ~managed /\ AssignmentNext /\ UNCHANGED <<runtimeVars, managed>>
  <2>1. AssignmentAct
    BY <1>5 DEF AssignmentNext, AssignmentAct, RequestAct
  <2>2. HostedInv'
    BY <1>1, <2>1, AssignmentTypesStep, RouteStep DEF HostedInv
  <2>3. UNCHANGED runtimeVars /\ managed' = managed
    BY <1>5
  <2> QED  BY <1>1, <1>2, <2>2, <2>3 DEF TenantInv
<1>6. CASE UNCHANGED tenantVars
  <2>1. UNCHANGED runtimeVars /\ UNCHANGED assignmentVars /\ managed' = managed
    BY <1>6 DEF tenantVars
  <2> QED  BY <1>1, <1>2, <1>3, <2>1 DEF TenantInv
<1> QED  BY <1>4, <1>5, <1>6 DEF TenantNext, TenantRest

LEMMA TenantInvHolds == TenantSpec => []TenantInv
BY TenantInitInv, TenantStepInv, PTL DEF TenantSpec

\* Every state has the types of TenantGateways: ports are in the range, no
\* state file names a process that was never spawned, a caller or a request
\* is at work on something or on nothing.
THEOREM TenantTypeCorrect == TenantSpec => []TenantTypeOK
<1>1. ASSUME TenantInv
      PROVE  TenantTypeOK
  <2>1. RuntimeTypes /\ DataTypes /\ AssignmentTypes /\ managed \in BOOLEAN
    BY <1>1 DEF TenantInv, ManagedInv, HostedInv, RuntimeTypes
  <2>2. \A t \in Tenants : state[t] = None \/ state[t] \in [port : Ports, pid : 0 .. pids]
    BY <2>1 DEF DataTypes, StateFiles
  <2>3. processes \subseteq [pid : 1 .. pids, tenant : Tenants, port : Ports,
                             phase : {"launching", "up", "dying"}]
    BY <2>1 DEF DataTypes, Phases
  <2>4. \A c \in Callers : /\ (pc[c] = "idle") = (todo[c] = <<>>)
                           /\ (pc[c] = "idle") = (tenant[c] = None)
                           /\ port[c] \in Ports /\ save[c] \in Ports
    BY <2>1, CallerIs DEF CallerForm
  <2>5. \A r \in Requests : /\ (at[r] = "idle") = (plan[r] = <<>>)
                            /\ (at[r] = "idle") = (about[r] = {})
                            /\ sees[r] \in Pools \cup {<<>>}
                            /\ found[r] \in ShardIds \cup {NoShard, Env}
    BY <2>1 DEF AssignmentTypes, RequestForm
  <2>6. \A o \in Organisations : row[o] = NoShard \/
           row[o] \in [shard : ShardIds, status : {"active", "draining", "disabled"}]
    BY <2>1 DEF AssignmentTypes, Assigned
  <2> QED  BY <2>1, <2>2, <2>3, <2>4, <2>5, <2>6 DEF TenantTypeOK, DataTypes, AssignmentTypes
<1> QED  BY <1>1, TenantInvHolds, PTL

\* The README's one runtime per tenant: when nobody is at work on a tenant,
\* the process it has that is not on its way out is the one its state file
\* names, whatever requests ensured, started, stopped and restarted runtimes
\* before, of any number of tenants and with any failures of the database,
\* where calls for the tenant did not overlap and none died half-way.
THEOREM RuntimesAreKnown == TenantSpec => []RuntimeIsKnown
<1>1. ASSUME TenantInv
      PROVE  RuntimeIsKnown
  <2> SUFFICES ASSUME NEW t \in Tenants, NEW p \in processes, p.tenant = t, p.phase # "dying",
                      AtWorkOn(t) = {}, NoMishap(t)
               PROVE  state[t].pid = p.pid
    BY DEF RuntimeIsKnown, NoMishap
  <2>1. \A c \in Callers : tenant[c] # t
    BY DEF AtWorkOn
  <2>2. Fits("idle", None, Living(t), state[t])
    BY <1>1, <2>1 DEF TenantInv, ManagedInv, KnownInv
  <2>3. p \in Living(t)
    BY DEF Living
  <2> QED  BY <2>2, <2>3 DEF Fits
<1> QED  BY <1>1, TenantInvHolds, PTL

\* A tenant's requests go where its own agents are.  On the application's own
\* host what listens on the port of its newest row is its own process; on
\* hosted gateways it is the gateway its agents were put on, however the pool
\* is deployed anew: with the exceptions that TenantIsReached names.
THEOREM TenantsAreReached == TenantSpec => []TenantIsReached
<1>1. ASSUME TenantInv
      PROVE  TenantIsReached
  <2>1. ManagedInv /\ HostedInv
    BY <1>1 DEF TenantInv
  <2>2. ASSUME NEW t \in Tenants, NEW p \in processes, p.port = PortOf(t), p.phase = "up",
               p.tenant # t, t \notin displaced, p.tenant \notin displaced
        PROVE  FALSE
    <3>1. p.tenant \in Tenants /\ p.port \in Ports /\ rows[t] \in Seq(Ports)
      BY <2>1 DEF ManagedInv, RuntimeTypes, DataTypes
    <3>2. rows[t] # <<>> /\ p.port = rows[t][Len(rows[t])]
      BY <2>2, <3>1, NoneAssumption DEF PortOf
    <3>3. Len(rows[t]) \in DOMAIN rows[t]
      BY <3>1, <3>2
    <3>4. Has(t, p.port) /\ Has(p.tenant, p.port)
      BY <3>2, <3>3 DEF Has
    <3>5. ApartInv(t, p.tenant)
      BY <2>1, <3>1 DEF ManagedInv
    <3> QED  BY <2>2, <3>1, <3>4, <3>5 DEF ApartInv
  <2>3. AgentsAreReached
    <3> SUFFICES ASSUME NEW o \in Organisations, Target(o, pool) # NoShard,
                        \A m \in moves : m[1] # o
                 PROVE  home[o] \subseteq {Target(o, pool)}
      BY DEF AgentsAreReached
    <3>1. home[o] # {} => Active(o) /\ home[o] \subseteq {row[o].shard}
      BY <2>1 DEF HostedInv, RouteInv
    <3>2. pool \in Pools \cup {<<>>} /\ AssignmentTypes
      BY <2>1 DEF HostedInv, AssignmentTypes
    <3>3. Active(o) => Target(o, pool) = row[o].shard
      BY <3>2, TargetTypes
    <3> QED  BY <3>1, <3>3
  <2> QED  BY <2>2, <2>3 DEF TenantIsReached
<1> QED  BY <1>1, TenantInvHolds, PTL

=============================================================================
