--------------------------- MODULE GatewaySession ---------------------------
(***************************************************************************)
(* One withSession of the runtime client (src/lib/openclaw/client.ts): a   *)
(* WebSocket to the gateway, the connect handshake, RPCs that share the    *)
(* socket and are matched to their answers by id, a timer for each, and    *)
(* the second run of the whole body, with legacy scopes, when the first    *)
(* one ends with "missing scope: operator:...".                            *)
(*                                                                         *)
(* Handlers of socket events, timers and the continuations of the body are *)
(* callbacks on one thread: each is one action here, and they interleave.  *)
(* The gateway may carry out a request that reached it at any later time,  *)
(* whatever has become of the socket.  Left out: what the calls say, and   *)
(* the latency events that are recorded for each.                          *)
(***************************************************************************)
EXTENDS Naturals

CONSTANT Steps      \* bound: how many RPCs one run of the body makes

ASSUME StepsAssumption == Steps \in Nat

Runs == {1, 2}                  \* with OPERATOR_SCOPES, LEGACY_OPERATOR_SCOPES
Calls == Runs \X (1 .. Steps)

\* Errors, by the one thing withSession looks at: is it a missing scope?
Errors == {"scope", "other"}

VARIABLES
    phase,         \* phase[r]: where openSession is in run r
    thrown,        \* thrown[r]: the error it ended with, or "none"
    socket,        \* socket[r]: what has happened on the wire
    socketClosed,  \* runs whose closeSocket was called or close event came
    connected,     \* runs whose connect was accepted
    sessionError,  \* sessionError[r]: the first error of the session, or "none"
    pending,       \* calls in the map of their session, each with its timer
    result,        \* result[c]: state of the promise of call c
    sent,          \* requests that reached the gateway
    reply,         \* reply[c]: what the gateway made of c
    promise        \* what withSession returned

sessionVars == <<phase, thrown, socketClosed, sessionError>>
callVars == <<pending, result>>
gatewayVars == <<sent, reply>>
vars == <<sessionVars, socket, connected, callVars, gatewayVars, promise>>

Init ==
    /\ phase = [r \in Runs |-> IF r = 1 THEN "starting" ELSE "idle"]
    /\ thrown = [r \in Runs |-> "none"]
    /\ socket = [r \in Runs |-> "none"]
    /\ socketClosed = {}
    /\ connected = {}
    /\ sessionError = [r \in Runs |-> "none"]
    /\ pending = {}
    /\ result = [c \in Calls |-> "unmade"]
    /\ sent = {}
    /\ reply = [c \in Calls |-> "none"]
    /\ promise = "open"

-----------------------------------------------------------------------------

CallsOf(r) == {c \in Calls : c[1] = r}
Waiting(r) == {c \in CallsOf(r) : result[c] = "waiting"}
WireIsUp(r) == socket[r] \in {"open", "greeted"}

\* Mutant: the map is cleared and the promises in it are forgotten.
FailSessionSilently(r, error) ==
    LET reason == IF sessionError[r] = "none" THEN error ELSE sessionError[r]
        connecting == phase[r] = "connecting"
    IN  /\ sessionError' = [sessionError EXCEPT ![r] = reason]
        /\ UNCHANGED result
        /\ pending' = pending \ CallsOf(r)
        /\ phase' = [phase EXCEPT ![r] = IF connecting THEN "threw" ELSE @]
        /\ thrown' = [thrown EXCEPT ![r] = IF connecting THEN reason ELSE @]
        /\ socketClosed' = socketClosed \cup {r}

\* The first error stays; it settles every call in the map and, when the
\* handshake is still under way, the session itself.
FailSession(r, error) ==
    LET reason == IF sessionError[r] = "none" THEN error ELSE sessionError[r]
        connecting == phase[r] = "connecting"
    IN  /\ sessionError' = [sessionError EXCEPT ![r] = reason]
        /\ result' = [c \in Calls |->
                        IF c \in pending \cap CallsOf(r) THEN reason ELSE result[c]]
        /\ pending' = pending \ CallsOf(r)
        /\ phase' = [phase EXCEPT ![r] = IF connecting THEN "threw" ELSE @]
        /\ thrown' = [thrown EXCEPT ![r] = IF connecting THEN reason ELSE @]
        /\ socketClosed' = socketClosed \cup {r}

\* openSession creates the socket, or throws when no URL is configured.
OpenSession(r) ==
    /\ phase[r] = "starting"
    /\ \/ /\ phase' = [phase EXCEPT ![r] = "connecting"]
          /\ socket' = [socket EXCEPT ![r] = "opening"]
          /\ UNCHANGED thrown
       \/ /\ phase' = [phase EXCEPT ![r] = "threw"]
          /\ thrown' = [thrown EXCEPT ![r] = "other"]
          /\ UNCHANGED socket
    /\ UNCHANGED <<socketClosed, sessionError, connected, callVars, gatewayVars, promise>>

\* The open event: the connect frame goes out, or its send throws.
OpenEvent(r) ==
    /\ socket[r] = "opening"
    /\ r \notin socketClosed
    /\ \/ /\ socket' = [socket EXCEPT ![r] = "open"]
          /\ UNCHANGED <<sessionVars, callVars>>
       \/ /\ socket' = [socket EXCEPT ![r] = "greeted"]
          /\ FailSession(r, "other")
    /\ UNCHANGED <<connected, gatewayVars, promise>>

\* The answer to connect.  It may come after the connect timer.
ConnectAnswer(r) ==
    /\ socket[r] = "open"
    /\ socket' = [socket EXCEPT ![r] = "greeted"]
    /\ \/ /\ connected' = connected \cup {r}
          /\ phase' = [phase EXCEPT ![r] = IF @ = "connecting" THEN "body" ELSE @]
          /\ UNCHANGED <<thrown, socketClosed, sessionError, callVars>>
       \/ /\ \E error \in Errors : FailSession(r, error)
          /\ UNCHANGED connected
    /\ UNCHANGED <<gatewayVars, promise>>

ConnectTimeout(r) ==
    /\ phase[r] = "connecting"
    /\ FailSession(r, "other")
    /\ UNCHANGED <<socket, connected, gatewayVars, promise>>

\* An error event, or a frame that is not JSON.
ErrorEvent(r) ==
    /\ socket[r] = "opening" \/ WireIsUp(r)
    /\ FailSession(r, "other")
    /\ UNCHANGED <<socket, connected, gatewayVars, promise>>

\* The close event.  An idle session that the gateway closes is left without
\* an error: its next call goes nowhere and waits for its timer.
CloseEvent(r) ==
    /\ socket[r] = "opening" \/ WireIsUp(r)
    /\ socket' = [socket EXCEPT ![r] = "down"]
    /\ IF sessionError[r] = "none" /\ (r \notin connected \/ pending \cap CallsOf(r) # {})
       THEN FailSession(r, "other")
       ELSE /\ socketClosed' = socketClosed \cup {r}
            /\ UNCHANGED <<phase, thrown, sessionError, callVars>>
    /\ UNCHANGED <<connected, gatewayVars, promise>>

-----------------------------------------------------------------------------

\* Mutant: a call does not look whether its session is broken.
CallBlindly(r, c) ==
    /\ phase[r] = "body"
    /\ c \in CallsOf(r)
    /\ result[c] = "unmade"
    /\ \A d \in CallsOf(r) : d[2] < c[2] => result[d] # "unmade"
    /\ \/ /\ result' = [result EXCEPT ![c] = "other"]
          /\ UNCHANGED <<pending, sent>>
       \/ /\ result' = [result EXCEPT ![c] = "waiting"]
          /\ pending' = pending \cup {c}
          /\ sent' = IF WireIsUp(r) THEN sent \cup {c} ELSE sent
    /\ UNCHANGED <<sessionVars, socket, connected, reply, promise>>

\* The body makes its next RPC.  On a broken session it is rejected at once,
\* and so it is when send throws; a send on a closed socket goes nowhere.
Call(r, c) ==
    /\ phase[r] = "body"
    /\ c \in CallsOf(r)
    /\ result[c] = "unmade"
    /\ \A d \in CallsOf(r) : d[2] < c[2] => result[d] # "unmade"
    /\ \/ /\ sessionError[r] # "none"
          /\ result' = [result EXCEPT ![c] = sessionError[r]]
          /\ UNCHANGED <<pending, sent>>
       \/ /\ sessionError[r] = "none"
          /\ result' = [result EXCEPT ![c] = "other"]
          /\ UNCHANGED <<pending, sent>>
       \/ /\ sessionError[r] = "none"
          /\ result' = [result EXCEPT ![c] = "waiting"]
          /\ pending' = pending \cup {c}
          /\ sent' = IF WireIsUp(r) THEN sent \cup {c} ELSE sent
    /\ UNCHANGED <<sessionVars, socket, connected, reply, promise>>

\* The gateway handles a request: carries it out, refuses it for want of a
\* scope, or refuses it for another reason.
Execute(c) ==
    /\ c \in sent
    /\ reply[c] = "none"
    /\ \E outcome \in {"done"} \cup Errors : reply' = [reply EXCEPT ![c] = outcome]
    /\ UNCHANGED <<sessionVars, socket, connected, callVars, sent, promise>>

\* An answer arrives.  One whose call left the map is ignored.
Answer(c) ==
    /\ reply[c] # "none"
    /\ WireIsUp(c[1])
    /\ c \in pending
    /\ pending' = pending \ {c}
    /\ result' = [result EXCEPT ![c] = reply[c]]
    /\ UNCHANGED <<sessionVars, socket, connected, gatewayVars, promise>>

\* Mutant: the timer takes the call out of the map and that is all.
TimeoutSilently(c) ==
    /\ c \in pending
    /\ pending' = pending \ {c}
    /\ UNCHANGED <<result, sessionVars, socket, connected, gatewayVars, promise>>

\* The timer of a call; the session goes on without it.
Timeout(c) ==
    /\ c \in pending
    /\ pending' = pending \ {c}
    /\ result' = [result EXCEPT ![c] = "other"]
    /\ UNCHANGED <<sessionVars, socket, connected, gatewayVars, promise>>

\* The body returns once every call it made is settled; the socket is closed.
BodyReturns(r) ==
    /\ phase[r] = "body"
    /\ Waiting(r) = {}
    /\ phase' = [phase EXCEPT ![r] = "returned"]
    /\ socketClosed' = socketClosed \cup {r}
    /\ promise' = "resolved"
    /\ UNCHANGED <<thrown, sessionError, socket, connected, callVars, gatewayVars>>

\* The body throws: the rejection of one of its calls, while others may still
\* be under way, or an error of its own.
BodyThrows(r) ==
    /\ phase[r] = "body"
    /\ \E error \in Errors :
          /\ \/ \E c \in CallsOf(r) : result[c] = error
             \/ error = "other" /\ Waiting(r) = {}
          /\ thrown' = [thrown EXCEPT ![r] = error]
    /\ phase' = [phase EXCEPT ![r] = "threw"]
    /\ socketClosed' = socketClosed \cup {r}
    /\ UNCHANGED <<sessionError, socket, connected, callVars, gatewayVars, promise>>

\* Mutant: any error makes the session run again.
CatchAnything(r) ==
    /\ phase[r] = "threw"
    /\ promise = "open"
    /\ IF r = 1
       THEN /\ phase[2] = "idle"
            /\ phase' = [phase EXCEPT ![2] = "starting"]
            /\ UNCHANGED promise
       ELSE /\ promise' = "rejected"
            /\ UNCHANGED phase
    /\ UNCHANGED <<thrown, socketClosed, sessionError, socket, connected, callVars, gatewayVars>>

\* The catch of withSession: a missing scope in the first run starts the
\* second, from the beginning; anything else rejects.
Catch(r) ==
    /\ phase[r] = "threw"
    /\ promise = "open"
    /\ IF r = 1 /\ thrown[1] = "scope"
       THEN /\ phase[2] = "idle"
            /\ phase' = [phase EXCEPT ![2] = "starting"]
            /\ UNCHANGED promise
       ELSE /\ promise' = "rejected"
            /\ UNCHANGED phase
    /\ UNCHANGED <<thrown, socketClosed, sessionError, socket, connected, callVars, gatewayVars>>

SocketStep(r) ==
    OpenEvent(r) \/ ConnectAnswer(r) \/ ConnectTimeout(r) \/ ErrorEvent(r) \/ CloseEvent(r)

BodyEnds(r) == BodyReturns(r) \/ BodyThrows(r)

\* Everything over: the promise is settled, and so is every call.
Over == promise # "open" /\ pending = {} /\ UNCHANGED vars

Next ==
    \/ \E r \in Runs : OpenSession(r) \/ SocketStep(r) \/ BodyEnds(r) \/ Catch(r)
    \/ \E r \in Runs : \E c \in Calls : Call(r, c)
    \/ \E c \in Calls : Execute(c) \/ Answer(c) \/ Timeout(c)
    \/ Over

Spec == Init /\ [][Next]_vars

\* Timers fire and callbacks that are due run.  Nothing is asked of the
\* network or of the gateway.
Fairness ==
    /\ \A c \in Calls : WF_vars(Timeout(c))
    /\ \A r \in Runs : /\ WF_vars(OpenSession(r))
                       /\ WF_vars(ConnectTimeout(r))
                       /\ WF_vars(BodyEnds(r))
                       /\ WF_vars(Catch(r))

FairSpec == Spec /\ Fairness

-----------------------------------------------------------------------------

\* Types, and what openSession's variables have to do with each other: the
\* calls in the map are those whose promise is open, and a timer can find
\* every one of them.
TypeOK ==
    /\ phase \in [Runs -> {"idle", "starting", "connecting", "body", "returned", "threw"}]
    /\ thrown \in [Runs -> Errors \cup {"none"}]
    /\ socket \in [Runs -> {"none", "opening", "open", "greeted", "down"}]
    /\ socketClosed \subseteq Runs
    /\ connected \subseteq Runs
    /\ sessionError \in [Runs -> Errors \cup {"none"}]
    /\ pending = {c \in Calls : result[c] = "waiting"}
    /\ result \in [Calls -> {"unmade", "waiting", "done"} \cup Errors]
    /\ sent \subseteq Calls
    /\ reply \in [Calls -> {"none", "done"} \cup Errors]
    /\ promise \in {"open", "resolved", "rejected"}

\* The comment on withSession: "Callers should write the session body so it
\* can run twice safely".  How often that matters: what the first run did is
\* done again only when the gateway itself refused a call of that run for its
\* scope, after it had carried out another.  No timeout, broken socket or
\* refusal of the handshake makes the body take effect twice.
SecondRunHasCause ==
    (\E s \in 1 .. Steps : sent \cap CallsOf(2) # {} /\ reply[<<1, s>>] = "done")
        => \E s \in 1 .. Steps : reply[<<1, s>>] = "scope"

\* A session that has failed keeps nobody waiting: those in the map were
\* rejected with it, later ones on the spot, and none waits for its timer.
DeadSessionHoldsNobody ==
    \A r \in Runs : sessionError[r] # "none" => Waiting(r) = {}

\* What the caller is promised: every call settles, exactly once, one that
\* resolves was carried out, and withSession returns.
Outcome(c) ==
    CASE result[c] = "done" -> "answered"
      [] result[c] \in Errors -> "failed"
      [] OTHER -> result[c]

Promised == INSTANCE GatewayCalls WITH
    Calls <- Calls,
    outcome <- [c \in Calls |-> Outcome(c)],
    effects <- {c \in Calls : reply[c] = "done"},
    promise <- promise

CallsSpec == Promised!Spec

=============================================================================
