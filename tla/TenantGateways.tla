--------------------------- MODULE TenantGateways ---------------------------
(***************************************************************************)
(* Where resolveTenantGatewayTarget (src/lib/openclaw/tenant-gateway.ts)   *)
(* leads a tenant.  A deployment either manages a runtime per tenant on    *)
(* its own host, or uses hosted gateways: isOpenClawRuntimeManaged decides,*)
(* once for a deployment.  In the first case RuntimeManager starts the     *)
(* gateways and its rows direct whoever opens a page, a console or a       *)
(* terminal; in the second GatewayAssignments directs every request.       *)
(* (getTenantOpenClawClient in a managed deployment starts the runtime     *)
(* itself, and uses the descriptor it is returned and not the row.)        *)
(***************************************************************************)
EXTENDS RuntimeManager, GatewayAssignments

VARIABLE managed        \* isOpenClawRuntimeManaged()

tenantVars == <<runtimeVars, assignmentVars, managed>>

TenantInit ==
    /\ RuntimeInit
    /\ AssignmentInit
    /\ managed \in BOOLEAN

\* Everything over; processes go on running.
TenantRest ==
    /\ IF managed
       THEN /\ calls = MaxCalls
            /\ \A c \in Callers : pc[c] = "idle"
            /\ \A p \in processes : p.phase = "up"
       ELSE steps = MaxSteps /\ \A r \in Requests : at[r] = "idle"
    /\ UNCHANGED tenantVars

TenantNext ==
    \/ managed /\ RuntimeNext /\ UNCHANGED <<assignmentVars, managed>>
    \/ ~managed /\ AssignmentNext /\ UNCHANGED <<runtimeVars, managed>>
    \/ TenantRest

TenantSpec == TenantInit /\ [][TenantNext]_tenantVars

-----------------------------------------------------------------------------

\* Types.  A caller is at work on a tenant while it has something to do.
TenantTypeOK ==
    /\ \A t \in Tenants : state[t] = None \/ state[t] \in [port : Ports, pid : 0 .. pids]
    /\ rows \in [Tenants -> Seq(Ports)]
    /\ processes \subseteq [pid : 1 .. pids, tenant : Tenants, port : Ports,
                            phase : {"launching", "up", "dying"}]
    /\ pids \in Nat
    /\ \A c \in Callers : /\ (pc[c] = "idle") = (todo[c] = <<>>)
                          /\ (pc[c] = "idle") = (tenant[c] = None)
                          /\ port[c] \in Ports /\ save[c] \in Ports
    /\ displaced \subseteq Tenants
    /\ pool \in Pools
    /\ \A o \in Organisations : row[o] = NoShard \/
          row[o] \in [shard : ShardIds, status : {"active", "draining", "disabled"}]
    /\ home \in [Organisations -> SUBSET (ShardIds \cup {Env})]
    /\ \A r \in Requests : /\ (at[r] = "idle") = (plan[r] = <<>>)
                           /\ (at[r] = "idle") = (about[r] = {})
                           /\ sees[r] \in Pools \cup {<<>>}
                           /\ found[r] \in ShardIds \cup {NoShard, Env}
    /\ managed \in BOOLEAN

\* The port that getRuntimeGatewayTarget finds: the newest row counts.
PortOf(t) == IF rows[t] = <<>> THEN None ELSE rows[t][Len(rows[t])]

\* resolveTenantGatewayTarget leads a tenant to where its own agents are.  In
\* a managed deployment: what listens on the port of its newest row is its own
\* process; unless it, or the tenant that has the process, was started on
\* another port than the one its id hashes to (the record of a start names the
\* latter), or got its port without the others seeing that (two tenants asked
\* at once, a statement failed, the caller died, or it was stopped before it was
\* ever started), or was given two ports by calls of its own that overlapped.  In a hosted one: the gateway its agents were put on, with
\* the exceptions of AgentsAreReached.
TenantIsReached ==
    IF managed
    THEN \A t \in Tenants : \A p \in processes :
            p.port = PortOf(t) /\ p.phase = "up" =>
                p.tenant = t \/ {t, p.tenant} \cap displaced # {}
    ELSE AgentsAreReached

=============================================================================
