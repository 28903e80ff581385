--------------------------- MODULE RuntimeManager ---------------------------
(***************************************************************************)
(* Managed runtimes: one gateway process per tenant on the application's   *)
(* own host (src/lib/openclaw/runtime-manager.ts, runtime-store.ts).  What *)
(* is known of a runtime is in two places, a state file per tenant and     *)
(* rows of the table openclaw_runtimes, and the processes are a third.     *)
(*                                                                         *)
(* Requests ensure, start, stop and restart runtimes side by side.  Each   *)
(* file access and each statement is a step.  A process that is spawned    *)
(* listens once its port is free, or gives up (its lock on the tenant's    *)
(* configuration lets it start whenever the port it is given is free).     *)
(* Left out: tokens, the files a tenant is bootstrapped with, life-cycle   *)
(* events, and pids that the operating system uses again.                  *)
(***************************************************************************)
EXTENDS Naturals, Sequences, FiniteSets

CONSTANTS
    Tenants,
    NPorts,         \* size of the range of ports, 1000 in the code
    Preferred,      \* Preferred[t]: hashToPort of t, less openClawBasePort
    Callers,        \* concurrent executions of routes
    None,           \* no tenant, no state file, no port
    MaxCalls,       \* bound: calls of the runtime manager that are made
    MaxFaults       \* bound: failed statements, deaths and crashes

Ports == 0 .. NPorts - 1

ASSUME RuntimeAssumption ==
    /\ None \notin Tenants
    /\ NPorts \in Nat \ {0}
    /\ Preferred \in [Tenants -> Ports]
    /\ {MaxCalls, MaxFaults} \subseteq Nat

\* The state file of a tenant that has one: gatewayPort and pid.
StateFiles == [port : Ports, pid : Nat]

ASSUME NoneAssumption == None \notin StateFiles /\ None \notin Ports

\* What the routes ask for, as calls of the runtime manager, one by one.
\* getTenantOpenClawClient ensures first and then starts.
Orders == { <<"ensure">>, <<"start">>, <<"stop">>, <<"ensure", "start">>, <<"stop", "start">> }

VARIABLES
    state,      \* state[t]: the state file; pid 0 says that it is stopped
    rows,       \* rows[t]: gateway_port of the rows of t, the newest last
    processes,  \* the gateway processes there are
    pids,       \* how many were spawned
    pc,         \* pc[c]: where caller c is
    todo,       \* todo[c]: the calls it is at, the current one first
    tenant,     \* tenant[c]: whose runtime it is about
    read,       \* read[c]: the state it read last
    port,       \* port[c]: runtime.gatewayPort
    save,       \* save[c]: the port it is about to save in a row
    calls,      \* history: how many calls were asked for
    faults,     \* history: how many faults happened
    mishaps,    \* history: pairs of a tenant and what happened to it
    displaced   \* history: tenants whose port was not recorded for others to
                \* see, tenants recorded under a port they do not have, and
                \* tenants that have two

callerVars == <<pc, todo, tenant, read, port, save>>
runtimeVars == <<state, rows, processes, pids, callerVars, calls, faults, mishaps, displaced>>

RuntimeInit ==
    /\ state = [t \in Tenants |-> None]
    /\ rows = [t \in Tenants |-> <<>>]
    /\ processes = {}
    /\ pids = 0
    /\ pc = [c \in Callers |-> "idle"]
    /\ todo = [c \in Callers |-> <<>>]
    /\ tenant = [c \in Callers |-> None]
    /\ read = [c \in Callers |-> None]
    /\ port = [c \in Callers |-> 0]
    /\ save = [c \in Callers |-> 0]
    /\ calls = 0
    /\ faults = 0
    /\ mishaps = {}
    /\ displaced = {}

-----------------------------------------------------------------------------

Fault == faults < MaxFaults /\ faults' = faults + 1
Alive(pid) == \E p \in processes : p.pid = pid
Listening(n) == {p \in processes : p.phase \in {"up", "dying"} /\ p.port = n}
AtWorkOn(t) == {c \in Callers : tenant[c] = t}
Entry(call) == IF call = "stop" THEN "stop" ELSE "read"

GoTo(c, label) ==
    /\ pc' = [pc EXCEPT ![c] = label]
    /\ UNCHANGED <<todo, tenant, read, port, save>>

\* The call is over: the next one of the order, or the end.
Done(c) ==
    LET rest == Tail(todo[c])
    IN  /\ todo' = [todo EXCEPT ![c] = rest]
        /\ pc' = [pc EXCEPT ![c] = IF rest = <<>> THEN "idle" ELSE Entry(Head(rest))]
        /\ tenant' = [tenant EXCEPT ![c] = IF rest = <<>> THEN None ELSE @]
        /\ read' = [read EXCEPT ![c] = None]
        /\ port' = [port EXCEPT ![c] = 0]
        /\ save' = [save EXCEPT ![c] = 0]

\* An error ends the whole order.
Abandon(c) ==
    /\ pc' = [pc EXCEPT ![c] = "idle"]
    /\ todo' = [todo EXCEPT ![c] = <<>>]
    /\ tenant' = [tenant EXCEPT ![c] = None]
    /\ read' = [read EXCEPT ![c] = None]
    /\ port' = [port EXCEPT ![c] = 0]
    /\ save' = [save EXCEPT ![c] = 0]

Ask(c, t, order) ==
    /\ pc[c] = "idle"
    /\ calls + Len(order) <= MaxCalls
    /\ calls' = calls + Len(order)
    /\ mishaps' = IF AtWorkOn(t) # {} THEN mishaps \cup {<<t, "overlap">>} ELSE mishaps
    /\ todo' = [todo EXCEPT ![c] = order]
    /\ pc' = [pc EXCEPT ![c] = Entry(Head(order))]
    /\ tenant' = [tenant EXCEPT ![c] = t]
    /\ UNCHANGED <<read, port, save, state, rows, processes, pids, faults, displaced>>

\* ensureTenantRuntime reads the state file.
ReadState(c) ==
    LET current == state[tenant[c]]
    IN  /\ pc[c] = "read"
        /\ pc' = [pc EXCEPT ![c] = IF current = None THEN "resolve" ELSE "select"]
        /\ port' = [port EXCEPT ![c] = IF current = None THEN 0 ELSE current.port]
        /\ save' = [save EXCEPT ![c] = IF current = None THEN 0 ELSE current.port]
        /\ UNCHANGED <<todo, tenant, read, state, rows, processes, pids, calls, faults,
                       mishaps, displaced>>

Allocated(t) == UNION {{rows[u][i] : i \in DOMAIN rows[u]} : u \in Tenants \ {t}}

\* A port was chosen and is not in a row yet.
Claiming(c) == pc[c] \in {"write", "select", "update", "insert"}

\* Another tenant is about to be given port n.
Racing(c, n) ==
    \E d \in Callers \ {c} : /\ tenant[d] \notin {None, tenant[c]}
                             /\ Claiming(d)
                             /\ port[d] = n

\* The tenant itself has another port, or is about to be given one.
Divided(c, n) ==
    \/ \E i \in DOMAIN rows[tenant[c]] : rows[tenant[c]][i] # n
    \/ \E d \in Callers \ {c} : tenant[d] = tenant[c] /\ Claiming(d) /\ port[d] # n

\* Mutant: the search goes on past the end of the range.
ResolvePortPastEnd(c) ==
    LET t == tenant[c]
        Free(n) == n \notin Allocated(t)
        Nth(i) == Preferred[t] + i
    IN  /\ pc[c] = "resolve"
        /\ \E i \in 0 .. NPorts - 1 :
              /\ \/ /\ Free(Nth(i)) /\ \A j \in 0 .. i - 1 : ~Free(Nth(j))
                    /\ displaced' = IF Racing(c, Nth(i)) \/ Divided(c, Nth(i))
                                    THEN displaced \cup {t} ELSE displaced
                    /\ UNCHANGED faults
                 \/ /\ i = 0
                    /\ Fault
                    /\ displaced' = displaced \cup {t}
              /\ port' = [port EXCEPT ![c] = Nth(i)]
              /\ save' = [save EXCEPT ![c] = Nth(i)]
        /\ pc' = [pc EXCEPT ![c] = "write"]
        /\ UNCHANGED <<todo, tenant, read, state, rows, processes, pids, calls, mishaps>>

\* resolveAvailableGatewayPort: the first port from the preferred one on that
\* no other tenant's row has.  A failed query names no port.
ResolvePort(c) ==
    LET t == tenant[c]
        Free(n) == n \notin Allocated(t)
        Nth(i) == (Preferred[t] + i) % NPorts
    IN  /\ pc[c] = "resolve"
        /\ \E i \in 0 .. NPorts - 1 :
              /\ \/ /\ Free(Nth(i)) /\ \A j \in 0 .. i - 1 : ~Free(Nth(j))
                    /\ displaced' = IF Racing(c, Nth(i)) \/ Divided(c, Nth(i))
                                    THEN displaced \cup {t} ELSE displaced
                    /\ UNCHANGED faults
                 \/ /\ i = 0
                    /\ Fault
                    /\ displaced' = displaced \cup {t}
              /\ port' = [port EXCEPT ![c] = Nth(i)]
              /\ save' = [save EXCEPT ![c] = Nth(i)]
        /\ pc' = [pc EXCEPT ![c] = "write"]
        /\ UNCHANGED <<todo, tenant, read, state, rows, processes, pids, calls, mishaps>>

\* Every port is in a row of some other tenant: an error.
FindNoPort(c) ==
    /\ pc[c] = "resolve"
    /\ Ports \subseteq Allocated(tenant[c])
    /\ Abandon(c)
    /\ UNCHANGED <<state, rows, processes, pids, calls, faults, mishaps, displaced>>

Write(c, n, pid) ==
    state' = [state EXCEPT ![tenant[c]] = [port |-> n, pid |-> pid]]

\* The state file of a tenant that had none.
WriteInitialState(c) ==
    /\ pc[c] = "write"
    /\ Write(c, port[c], 0)
    /\ GoTo(c, "select")
    /\ UNCHANGED <<rows, processes, pids, calls, faults, mishaps, displaced>>

\* upsertRuntimeMetadata looks for the row.  The query fails when there is
\* more than one; a failure looks like no row.
SelectRow(c) ==
    /\ pc[c] \in {"select", "selectLast"}
    /\ LET last == pc[c] = "selectLast"
           Update == IF last THEN "updateLast" ELSE "update"
           Insert == IF last THEN "insertLast" ELSE "insert"
       IN  \/ /\ GoTo(c, IF Len(rows[tenant[c]]) = 1 THEN Update ELSE Insert)
              /\ UNCHANGED faults
           \/ Fault /\ GoTo(c, Insert)
    /\ UNCHANGED <<state, rows, processes, pids, calls, mishaps, displaced>>

\* The call goes on: start has more to do than ensure.
AfterSave(c) ==
    IF pc[c] \in {"updateLast", "insertLast"} \/ Head(todo[c]) = "ensure" THEN Done(c)
    ELSE IF read[c] = None THEN GoTo(c, "recheck")
    ELSE GoTo(c, "spawn")

\* The row is updated or inserted; nobody looks at the error.
SaveRow(c) ==
    LET t == tenant[c]
    IN  /\ pc[c] \in {"update", "insert", "updateLast", "insertLast"}
        /\ \/ /\ rows' = [rows EXCEPT ![t] =
                    IF pc[c] \in {"update", "updateLast"}
                    THEN [@ EXCEPT ![1] = save[c]] ELSE Append(@, save[c])]
              /\ UNCHANGED <<faults, displaced>>
           \/ /\ Fault
              /\ displaced' = IF rows[t] = <<>> THEN displaced \cup {t} ELSE displaced
              /\ UNCHANGED rows
        /\ AfterSave(c)
        /\ UNCHANGED <<state, processes, pids, calls, mishaps>>

\* Mutant: a runtime that is alive is started once more.
RecheckNot(c) ==
    /\ pc[c] = "recheck"
    /\ GoTo(c, "spawn")
    /\ UNCHANGED <<state, rows, processes, pids, calls, faults, mishaps, displaced>>

\* startTenantRuntime reads the file again: a runtime that is alive is used,
\* a pid that is stale is cleared first.
RecheckState(c) ==
    LET current == state[tenant[c]]
    IN  /\ pc[c] = "recheck"
        /\ IF current = None \/ current.pid = 0 THEN GoTo(c, "spawn")
           ELSE IF Alive(current.pid) THEN Done(c)
           ELSE /\ pc' = [pc EXCEPT ![c] = "clear"]
                /\ read' = [read EXCEPT ![c] = current]
                /\ save' = [save EXCEPT ![c] = current.port]
                /\ UNCHANGED <<todo, tenant, port>>
        /\ UNCHANGED <<state, rows, processes, pids, calls, faults, mishaps, displaced>>

ClearStalePid(c) ==
    /\ pc[c] = "clear"
    /\ Write(c, read[c].port, 0)
    /\ GoTo(c, "select")
    /\ UNCHANGED <<rows, processes, pids, calls, faults, mishaps, displaced>>

Spawn(c) ==
    /\ pc[c] = "spawn"
    /\ pids' = pids + 1
    /\ processes' = processes \cup
          {[pid |-> pids + 1, tenant |-> tenant[c], port |-> port[c], phase |-> "launching"]}
    /\ pc' = [pc EXCEPT ![c] = "record"]
    /\ read' = [read EXCEPT ![c] = [port |-> port[c], pid |-> pids + 1]]
    /\ UNCHANGED <<todo, tenant, port, save, state, rows, calls, faults, mishaps, displaced>>

\* The descriptor after a start is built without a port: the file and the row
\* get the preferred one, whatever port the process was given.
RecordStart(c) ==
    /\ pc[c] = "record"
    /\ Write(c, Preferred[tenant[c]], read[c].pid)
    /\ save' = [save EXCEPT ![c] = Preferred[tenant[c]]]
    /\ displaced' = IF port[c] # Preferred[tenant[c]]
                    THEN displaced \cup {tenant[c]} ELSE displaced
    /\ pc' = [pc EXCEPT ![c] = "selectLast"]
    /\ UNCHANGED <<todo, tenant, read, port, rows, processes, pids, calls, faults, mishaps>>

\* stopTenantRuntime reads the file and signals the process: one that is up
\* takes its time to end, and nobody waits for that.  A tenant without a file
\* gets its preferred port, which may be another's by now.
StopProcess(c) ==
    LET current == state[tenant[c]]
    IN  /\ pc[c] = "stop"
        /\ LET told == {p \in processes : current # None /\ p.pid = current.pid}
           IN  processes' = (processes \ told) \cup
                    {[p EXCEPT !.phase = "dying"] : p \in {q \in told : q.phase # "launching"}}
        /\ save' = [save EXCEPT ![c] =
                        IF current = None THEN Preferred[tenant[c]] ELSE current.port]
        /\ displaced' = IF current = None THEN displaced \cup {tenant[c]} ELSE displaced
        /\ pc' = [pc EXCEPT ![c] = "stopped"]
        /\ UNCHANGED <<todo, tenant, read, port, state, rows, pids, calls, faults, mishaps>>

RecordStop(c) ==
    /\ pc[c] = "stopped"
    /\ Write(c, save[c], 0)
    /\ GoTo(c, "selectLast")
    /\ UNCHANGED <<rows, processes, pids, calls, faults, mishaps, displaced>>

-----------------------------------------------------------------------------

\* A process that was launched listens when its port is free; one that finds
\* it taken gives up in the end.
Launch(p) ==
    /\ p.phase = "launching"
    /\ processes' = (processes \ {p}) \cup
          (IF Listening(p.port) = {} THEN {[p EXCEPT !.phase = "up"]} ELSE {})
    /\ UNCHANGED <<state, rows, pids, callerVars, calls, faults, mishaps, displaced>>

\* A process ends: it was told to, or it crashes.
Exit(p) ==
    /\ processes' = processes \ {p}
    /\ IF p.phase = "dying" THEN UNCHANGED faults ELSE Fault
    /\ UNCHANGED <<state, rows, pids, callerVars, calls, mishaps, displaced>>

\* The application dies in the middle of a call.
Die(c) ==
    /\ pc[c] # "idle"
    /\ Fault
    /\ mishaps' = mishaps \cup {<<tenant[c], "died">>}
    /\ displaced' = IF Claiming(c) THEN displaced \cup {tenant[c]} ELSE displaced
    /\ Abandon(c)
    /\ UNCHANGED <<state, rows, processes, pids, calls>>

RuntimeWork(c) ==
    \/ ReadState(c) \/ ResolvePort(c) \/ FindNoPort(c) \/ WriteInitialState(c)
    \/ SelectRow(c) \/ SaveRow(c) \/ RecheckState(c) \/ ClearStalePid(c)
    \/ Spawn(c) \/ RecordStart(c) \/ StopProcess(c) \/ RecordStop(c) \/ Die(c)

RuntimeNext ==
    \/ \E c \in Callers : \/ RuntimeWork(c)
                          \/ \E t \in Tenants, order \in Orders : Ask(c, t, order)
    \/ \E p \in processes : Launch(p) \/ Exit(p)

-----------------------------------------------------------------------------

\* README: one runtime per tenant.  When nobody is at work on a tenant, the
\* only process of it that is not on its way out is the one the state file
\* names, so that a stop will reach it and a start will not add another;
\* unless calls for the tenant overlapped, or a caller died.
RuntimeIsKnown ==
    \A t \in Tenants : \A p \in processes :
        p.tenant = t /\ p.phase # "dying" /\ AtWorkOn(t) = {} =>
            \/ state[t].pid = p.pid
            \/ \E m \in mishaps : m[1] = t

=============================================================================
