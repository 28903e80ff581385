---------------------------- MODULE GatewayCalls ----------------------------
(***************************************************************************)
(* What the runtime client (src/lib/openclaw/client.ts) promises to a      *)
(* caller of withSession: each RPC it makes is settled exactly once and    *)
(* within bounded time.  One that resolves was carried out by the gateway. *)
(* One that rejects may have been carried out all the same, or may be      *)
(* carried out later: the caller learns nothing from a rejection.          *)
(***************************************************************************)

CONSTANT Calls      \* the RPCs a session can make

VARIABLES
    outcome,    \* outcome[c]: what the caller has learned of call c
    effects,    \* calls that the gateway carried out
    promise     \* what withSession returned

vars == <<outcome, effects, promise>>

Init ==
    /\ outcome = [c \in Calls |-> "unmade"]
    /\ effects = {}
    /\ promise = "open"

\* A call is made; one on a session that is broken fails on the spot.
Make(c) ==
    /\ promise = "open"
    /\ outcome[c] = "unmade"
    /\ \E o \in {"waiting", "failed"} : outcome' = [outcome EXCEPT ![c] = o]
    /\ UNCHANGED <<effects, promise>>

\* The gateway does not care whether the caller still waits.
TakeEffect(c) ==
    /\ outcome[c] # "unmade"
    /\ effects' = effects \cup {c}
    /\ UNCHANGED <<outcome, promise>>

Resolve(c) ==
    /\ outcome[c] = "waiting"
    /\ c \in effects
    /\ outcome' = [outcome EXCEPT ![c] = "answered"]
    /\ UNCHANGED <<effects, promise>>

\* Calls fail one by one, or all together when their session breaks.
Fail(S) ==
    /\ \A c \in S : outcome[c] = "waiting"
    /\ outcome' = [c \in Calls |-> IF c \in S THEN "failed" ELSE outcome[c]]
    /\ UNCHANGED <<effects, promise>>

\* withSession returns once; calls nobody awaited may still be under way.
Return ==
    /\ promise = "open"
    /\ promise' \in {"resolved", "rejected"}
    /\ UNCHANGED <<outcome, effects>>

Next ==
    \/ \E c \in Calls : Make(c) \/ TakeEffect(c) \/ Resolve(c)
    \/ \E S \in SUBSET Calls : Fail(S)
    \/ Return

Live ==
    /\ \A c \in Calls : outcome[c] = "waiting" ~> outcome[c] # "waiting"
    /\ <>(promise # "open")

Safety == Init /\ [][Next]_vars
Spec == Safety /\ Live

=============================================================================
