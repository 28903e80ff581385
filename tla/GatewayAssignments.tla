------------------------- MODULE GatewayAssignments -------------------------
(***************************************************************************)
(* Hosted gateways: which shard of a pool serves an organisation           *)
(* (src/lib/openclaw/gateway-assignments.ts, gateway-shards.ts).  A row of *)
(* openclaw_gateway_assignments names the shard; without one the shard is  *)
(* found by a hash, and without shards there is one gateway for all.  The  *)
(* pool itself is an environment variable that every deployment can        *)
(* change; a request that is under way keeps the one it began with.  An    *)
(* organisation's agents live on the gateway they were put on.             *)
(*                                                                         *)
(* Signing up, paying, connecting a channel and bootstrapping ensure an    *)
(* assignment, each on its own and each dropping its failure; every use    *)
(* of a gateway resolves the target afresh.  Left out: rows that name a    *)
(* URL of their own, which no code writes, tokens, and a database without  *)
(* the table.                                                              *)
(***************************************************************************)
EXTENDS Naturals, Sequences, FiniteSets

CONSTANTS
    Organisations,
    ShardIds,       \* ids a pool may contain, as numbers in their order
    Pools,          \* the pools that are deployed: sequences of shard ids
    Hash,           \* Hash[o]: the first word of the hash of o
    Pinned,         \* Pinned[o]: the shard that lists o, or NoShard
    Requests,       \* concurrent executions of routes
    NoShard,        \* no shard; no row
    Env,            \* the gateway of OPENCLAW_GATEWAY_URL
    MaxSteps,       \* bound: requests that are made, and changes of the pool
    MaxFailures     \* bound: failed statements and deaths

ASSUME AssignmentAssumption ==
    /\ ShardIds \subseteq Nat
    /\ NoShard \notin ShardIds
    /\ Env \notin ShardIds
    /\ Pools \subseteq Seq(ShardIds)
    /\ Hash \in [Organisations -> Nat]
    /\ Pinned \in [Organisations -> ShardIds \cup {NoShard}]
    /\ {MaxSteps, MaxFailures} \subseteq Nat

\* What the routes do: ensure an assignment, use a gateway, or both.
Routes == { <<"assign">>, <<"provision">>, <<"assign", "provision">> }

VARIABLES
    pool,       \* OPENCLAW_GATEWAY_SHARDS of the latest deployment
    row,        \* row[o]: shard and status of o's row, or NoShard
    home,       \* home[o]: the gateways o's agents were put on
    at,         \* at[r]: where request r is
    plan,       \* plan[r]: what it has left to do
    about,      \* about[r]: the organisation it is for, as a set
    sees,       \* sees[r]: the pool of the instance that runs it
    found,      \* found[r]: the shard it chose, or the target it resolved
    steps,      \* history: how many requests and deployments there were
    failures,   \* history: how many failures happened
    moves       \* history: pairs of an organisation and what moved it

requestVars == <<at, plan, about, sees, found>>
assignmentVars == <<pool, row, home, requestVars, steps, failures, moves>>

AssignmentInit ==
    /\ pool \in Pools
    /\ row = [o \in Organisations |-> NoShard]
    /\ home = [o \in Organisations |-> {}]
    /\ at = [r \in Requests |-> "idle"]
    /\ plan = [r \in Requests |-> <<>>]
    /\ about = [r \in Requests |-> {}]
    /\ sees = [r \in Requests |-> <<>>]
    /\ found = [r \in Requests |-> NoShard]
    /\ steps = 0
    /\ failures = 0
    /\ moves = {}

-----------------------------------------------------------------------------

Failure == failures < MaxFailures /\ failures' = failures + 1
Org(r) == CHOOSE o \in about[r] : TRUE
Shards(p) == {p[i] : i \in DOMAIN p}
Active(o) == row[o] # NoShard /\ row[o].status = "active"
Moved(o, why) == moves' = moves \cup {<<o, why>>}

\* resolveOrgGatewayShard: pinned, or else by the hash.
ShardByHash(o, p) ==
    IF Pinned[o] \in Shards(p) THEN Pinned[o] ELSE p[1 + (Hash[o] % Len(p))]

\* resolveTenantGatewayTarget of a hosted organisation.  An assignment that
\* the pool does not know is an error: no other gateway will do.
Target(o, p) ==
    IF Active(o) THEN (IF row[o].shard \in Shards(p) THEN row[o].shard ELSE NoShard)
    ELSE IF p # <<>> THEN ShardByHash(o, p)
    ELSE Env

Stage(r, label, what) ==
    /\ at' = [at EXCEPT ![r] = label]
    /\ found' = [found EXCEPT ![r] = what]
    /\ UNCHANGED <<plan, about, sees>>

\* What the request was at is over: the next thing, or the end.
Finish(r) ==
    LET rest == Tail(plan[r])
    IN  /\ plan' = [plan EXCEPT ![r] = rest]
        /\ at' = [at EXCEPT ![r] = IF rest = <<>> THEN "idle" ELSE Head(rest)]
        /\ about' = [about EXCEPT ![r] = IF rest = <<>> THEN {} ELSE @]
        /\ sees' = [sees EXCEPT ![r] = IF rest = <<>> THEN <<>> ELSE @]
        /\ found' = [found EXCEPT ![r] = NoShard]

\* A request comes in, perhaps while another one is at work for o.
Begin(r, o, route) ==
    /\ at[r] = "idle"
    /\ steps < MaxSteps
    /\ steps' = steps + 1
    /\ plan' = [plan EXCEPT ![r] = route]
    /\ at' = [at EXCEPT ![r] = Head(route)]
    /\ about' = [about EXCEPT ![r] = {o}]
    /\ sees' = [sees EXCEPT ![r] = pool]
    /\ IF \E q \in Requests : o \in about[q] THEN Moved(o, "overlap") ELSE UNCHANGED moves
    /\ UNCHANGED <<found, pool, row, home, failures>>

\* Mutant: an assignment that the pool does not know is made anew.
ReadAssignmentAnew(r) ==
    /\ at[r] = "assign"
    /\ IF sees[r] = <<>> \/ (Active(Org(r)) /\ row[Org(r)].shard \in Shards(sees[r]))
       THEN Finish(r) ELSE Stage(r, "list", NoShard)
    /\ UNCHANGED <<pool, row, home, steps, failures, moves>>

\* ensureTenantGatewayAssignment: an active assignment is kept, also one the
\* pool does not know, which is an error.  Callers drop the error.
ReadAssignment(r) ==
    /\ at[r] = "assign"
    /\ \/ /\ IF Active(Org(r)) \/ sees[r] = <<>> THEN Finish(r) ELSE Stage(r, "list", NoShard)
          /\ UNCHANGED failures
       \/ Failure /\ Finish(r)
    /\ UNCHANGED <<pool, row, home, steps, moves>>

Load(s) == Cardinality({o \in Organisations : Active(o) /\ row[o].shard = s})

\* pickLeastLoadedShard; between equals the id decides.
PickLeastLoaded(r) ==
    /\ at[r] = "list"
    /\ \/ /\ \E s \in Shards(sees[r]) :
                /\ \A u \in Shards(sees[r]) \ {s} :
                      Load(s) < Load(u) \/ (Load(s) = Load(u) /\ s < u)
                /\ Stage(r, "upsert", s)
          /\ UNCHANGED failures
       \/ Failure /\ Finish(r)
    /\ UNCHANGED <<pool, row, home, steps, moves>>

\* The upsert takes the row over whatever has become of it since.
UpsertAssignment(r) ==
    /\ at[r] = "upsert"
    /\ \/ /\ row' = [row EXCEPT ![Org(r)] = [shard |-> found[r], status |-> "active"]]
          /\ UNCHANGED failures
       \/ Failure /\ UNCHANGED row
    /\ Finish(r)
    /\ UNCHANGED <<pool, home, steps, moves>>

\* getTenantOpenClawClient: the target is resolved, or the request fails.
ResolveTarget(r) ==
    /\ at[r] = "provision"
    /\ \/ /\ LET target == Target(Org(r), sees[r])
             IN  IF target = NoShard THEN Finish(r) ELSE Stage(r, "use", target)
          /\ IF Active(Org(r)) THEN UNCHANGED moves ELSE Moved(Org(r), "unassigned")
          /\ UNCHANGED failures
       \/ Failure /\ Finish(r) /\ UNCHANGED moves
    /\ UNCHANGED <<pool, row, home, steps>>

\* An agent is put on the gateway.
Use(r) ==
    /\ at[r] = "use"
    /\ home' = [home EXCEPT ![Org(r)] = @ \cup {found[r]}]
    /\ Finish(r)
    /\ UNCHANGED <<pool, row, steps, failures, moves>>

\* The application is deployed with another pool.
Deploy ==
    /\ steps < MaxSteps
    /\ steps' = steps + 1
    /\ pool' \in Pools \ {pool}
    /\ UNCHANGED <<row, home, requestVars, failures, moves>>

\* An operator takes an organisation off its gateway.
Drain(o) ==
    /\ steps < MaxSteps
    /\ steps' = steps + 1
    /\ Active(o)
    /\ \E s \in {"draining", "disabled"} : row' = [row EXCEPT ![o].status = s]
    /\ Moved(o, "drained")
    /\ UNCHANGED <<pool, home, requestVars, failures>>

\* The application dies in the middle of a request.
Perish(r) ==
    /\ at[r] # "idle"
    /\ Failure
    /\ at' = [at EXCEPT ![r] = "idle"]
    /\ plan' = [plan EXCEPT ![r] = <<>>]
    /\ about' = [about EXCEPT ![r] = {}]
    /\ sees' = [sees EXCEPT ![r] = <<>>]
    /\ found' = [found EXCEPT ![r] = NoShard]
    /\ UNCHANGED <<pool, row, home, steps, moves>>

AssignmentNext ==
    \/ \E r \in Requests :
          \/ ReadAssignment(r) \/ PickLeastLoaded(r) \/ UpsertAssignment(r)
          \/ ResolveTarget(r) \/ Use(r) \/ Perish(r)
          \/ \E o \in Organisations, route \in Routes : Begin(r, o, route)
    \/ Deploy
    \/ \E o \in Organisations : Drain(o)

-----------------------------------------------------------------------------

\* The comment on GatewayAssignmentDriftError: an assignment must never be
\* answered by another gateway than the one it promised, or agents are looked
\* for where they are not.  As long as an organisation resolves to a gateway,
\* it is the one all its agents are on, through every change of the pool;
\* unless it used a gateway while it had no assignment (an ensure that failed
\* unnoticed, or was never asked for), requests for it overlapped, or an
\* operator moved it.
AgentsAreReached ==
    \A o \in Organisations :
        Target(o, pool) # NoShard =>
            \/ home[o] \subseteq {Target(o, pool)}
            \/ \E m \in moves : m[1] = o

=============================================================================
