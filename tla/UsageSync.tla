----------------------------- MODULE UsageSync -----------------------------
(***************************************************************************)
(* Billing of model usage (src/lib/openclaw/usage-sync.ts).  The gateway   *)
(* reports what every session has cost so far; a sync charges the growth   *)
(* since the checkpoint and moves the checkpoint.  Syncs are started by    *)
(* page loads and by model selection, and nothing keeps two of them apart. *)
(*                                                                         *)
(* Costs are in fractions of a cent, because a sync rounds each growth to  *)
(* whole cents before it looks whether there is anything to charge.  Left  *)
(* out: usage_sync_states, which only the settings page shows, and the     *)
(* request and activity events, whose failure is caught.                   *)
(***************************************************************************)
EXTENDS WalletLedger, FiniteSets

CONSTANTS
    Keys,       \* session keys of the organisation
    Syncs,      \* concurrent executions of syncOpenClawUsageForOrg
    Org,        \* the organisation
    Unit,       \* cost units that make a cent
    MaxUse,     \* bound: what a session may ever cost
    MaxSyncs,   \* bound: how many syncs are started
    MaxFaults   \* bound: failed awaits, lost answers and deaths

ASSUME SyncAssumption ==
    /\ Orgs = {Org}
    /\ Unit \in Nat \ {0}
    /\ {MaxUse, MaxSyncs, MaxFaults} \subseteq Nat

VARIABLES
    cost,        \* cost[k]: the total the gateway reports for k
    checkpoint,  \* checkpoint[k]: session_usage_checkpoints.last_total_cost_usd
    trial,       \* the organisation is in its trial
    pc,          \* pc[s]: where sync s is
    known,       \* known[s]: the checkpoints s read
    reported,    \* reported[s]: the totals s was told
    todo,        \* todo[s]: sessions s has not handled
    current,     \* current[s]: the session s handles, as a set
    absorbs,     \* absorbs[s]: s found the organisation in its trial
    used,        \* history: used[k], everything k ever cost
    billed,      \* history: billed[k], growth charged or absorbed
    dropped,     \* history: dropped[k], growth that rounded to nothing
    passed,      \* history: passed[s], sessions another sync wrote since s read
    overtaken,   \* history: sessions a sync wrote over another one's write
    misread,     \* history: tables whose failed query a sync took for empty
    slid,        \* history: sessions whose total went down
    started,     \* history: how many syncs were started
    faults       \* history: how many faults happened

runtimeVars == <<cost, used, slid>>
syncVars == <<pc, known, reported, todo, current, absorbs>>
historyVars == <<billed, dropped, passed, overtaken>>
vars == <<walletVars, runtimeVars, checkpoint, trial, syncVars, historyVars,
          misread, started, faults>>

Totals == [Keys -> Nat]
NoTotals == [k \in Keys |-> 0]

\* Math.round on cents, then Math.ceil on the markup of 30 percent.
convertUsdToBillingCents(units) == (2 * units + Unit) \div (2 * Unit)
applyLlmUsageMarkup(cents) == IF cents <= 0 THEN 0 ELSE (cents * 130 + 99) \div 100

\* Mutant: the growth since the first sync.
DeltaOfTotal(s, k) == reported[s][k]

\* A total that went down has grown by nothing.
Delta(s, k) == IF reported[s][k] > known[s][k] THEN reported[s][k] - known[s][k] ELSE 0

Price(s, k) == applyLlmUsageMarkup(convertUsdToBillingCents(Delta(s, k)))

\* Mutant: trial usage is charged like any other.
AmountAlways(s, k) == Price(s, k)

Amount(s, k) == IF absorbs[s] THEN 0 ELSE Price(s, k)

Init ==
    /\ balance \in [Orgs -> Amounts]
    /\ ledger = [o \in Orgs |-> <<Row(0, "credit", balance[o])>>]
    /\ cost = NoTotals
    /\ checkpoint = NoTotals
    /\ trial \in BOOLEAN
    /\ pc = [s \in Syncs |-> "idle"]
    /\ known = [s \in Syncs |-> NoTotals]
    /\ reported = [s \in Syncs |-> NoTotals]
    /\ todo = [s \in Syncs |-> {}]
    /\ current = [s \in Syncs |-> {}]
    /\ absorbs = [s \in Syncs |-> FALSE]
    /\ used = NoTotals
    /\ billed = NoTotals
    /\ dropped = NoTotals
    /\ passed = [s \in Syncs |-> {}]
    /\ overtaken = {}
    /\ misread = {}
    /\ slid = {}
    /\ started = 0
    /\ faults = 0

-----------------------------------------------------------------------------

Fault == faults < MaxFaults /\ faults' = faults + 1

GoTo(s, label) == pc' = [pc EXCEPT ![s] = label]

\* The end of a sync, by success or by the catch block.
EndSync(s) ==
    /\ GoTo(s, "idle")
    /\ known' = [known EXCEPT ![s] = NoTotals]
    /\ reported' = [reported EXCEPT ![s] = NoTotals]
    /\ todo' = [todo EXCEPT ![s] = {}]
    /\ current' = [current EXCEPT ![s] = {}]
    /\ absorbs' = [absorbs EXCEPT ![s] = FALSE]

\* The loop goes on with the next session.
NextSession(s) ==
    /\ GoTo(s, "loop")
    /\ current' = [current EXCEPT ![s] = {}]
    /\ UNCHANGED <<known, reported, todo, absorbs>>

WriteCheckpoint(s, k) ==
    /\ checkpoint' = [checkpoint EXCEPT ![k] = reported[s][k]]
    /\ passed' = [t \in Syncs |-> IF t = s THEN passed[t] ELSE passed[t] \cup {k}]
    /\ overtaken' = IF k \in passed[s] THEN overtaken \cup {k} ELSE overtaken

-----------------------------------------------------------------------------
(* The world outside.                                                       *)

Use(k) ==
    /\ used[k] < MaxUse
    /\ cost' = [cost EXCEPT ![k] = @ + 1]
    /\ used' = [used EXCEPT ![k] = @ + 1]
    /\ UNCHANGED <<walletVars, slid, checkpoint, trial, syncVars, historyVars,
                   misread, started, faults>>

\* The gateway reports the last 30 days: old usage drops out of the total.
SlideWindow(k) ==
    /\ cost[k] > 0
    /\ k \notin slid
    /\ cost' = [cost EXCEPT ![k] = @ - 1]
    /\ slid' = slid \cup {k}
    /\ UNCHANGED <<walletVars, used, checkpoint, trial, syncVars, historyVars,
                   misread, started, faults>>

EndTrial ==
    /\ trial
    /\ trial' = FALSE
    /\ UNCHANGED <<walletVars, runtimeVars, checkpoint, syncVars, historyVars,
                   misread, started, faults>>

-----------------------------------------------------------------------------
(* syncOpenClawUsageForOrg                                                  *)

\* The queries run side by side and their errors are dropped: without its
\* checkpoints every session looks new, without its row the organisation
\* looks as if it had no trial.
ReadState(s) ==
    /\ pc[s] = "idle"
    /\ started < MaxSyncs
    /\ started' = started + 1
    /\ passed' = [passed EXCEPT ![s] = {}]
    /\ \/ /\ known' = [known EXCEPT ![s] = checkpoint]
          /\ absorbs' = [absorbs EXCEPT ![s] = trial]
          /\ UNCHANGED <<misread, faults>>
       \/ /\ Fault
          /\ absorbs' = [absorbs EXCEPT ![s] = trial]
          /\ misread' = misread \cup {"session_usage_checkpoints"}
          /\ UNCHANGED known
       \/ /\ Fault
          /\ known' = [known EXCEPT ![s] = checkpoint]
          /\ misread' = misread \cup {"orgs"}
          /\ UNCHANGED absorbs
    /\ GoTo(s, "usage")
    /\ UNCHANGED <<walletVars, runtimeVars, checkpoint, trial, reported, todo,
                   current, billed, dropped, overtaken>>

GetSessionsUsage(s) ==
    /\ pc[s] = "usage"
    /\ \/ /\ reported' = [reported EXCEPT ![s] = cost]
          /\ todo' = [todo EXCEPT ![s] = {k \in Keys : used[k] > 0}]
          /\ GoTo(s, "loop")
          /\ UNCHANGED <<known, current, absorbs, faults>>
       \/ Fault /\ EndSync(s)
    /\ UNCHANGED <<walletVars, runtimeVars, checkpoint, trial, historyVars,
                   misread, started>>

\* A session with something to charge goes to recordUsageCharge, which looks
\* at the balance first; the others have their checkpoint moved by itself.
TakeSession(s) ==
    /\ pc[s] = "loop"
    /\ \E k \in todo[s] :
          /\ todo' = [todo EXCEPT ![s] = @ \ {k}]
          /\ current' = [current EXCEPT ![s] = {k}]
          /\ GoTo(s, IF Price(s, k) > 0 THEN "check" ELSE "upsert")
    /\ UNCHANGED <<walletVars, runtimeVars, checkpoint, trial, known, reported,
                   absorbs, historyVars, misread, started, faults>>

FinishSync(s) ==
    /\ pc[s] = "loop"
    /\ todo[s] = {}
    /\ EndSync(s)
    /\ UNCHANGED <<walletVars, runtimeVars, checkpoint, trial, historyVars,
                   misread, started, faults>>

\* assertCanSpend.  A session the wallet cannot carry ends the whole sync.
AssertCanSpend(s) ==
    /\ pc[s] = "check"
    /\ \E k \in current[s] :
          IF balance[Org] < Amount(s, k)
            THEN EndSync(s)
            ELSE GoTo(s, "charge") /\ UNCHANGED <<known, reported, todo, current, absorbs>>
    /\ UNCHANGED <<walletVars, runtimeVars, checkpoint, trial, historyVars,
                   misread, started, faults>>

\* Mutant: the checkpoint of a charged session is not moved.
RecordUsageChargeOnly(s) ==
    /\ pc[s] = "charge"
    /\ \E k \in current[s] :
          /\ Post(Org, "debit", Amount(s, k))
          /\ billed' = [billed EXCEPT ![k] = @ + Delta(s, k)]
    /\ NextSession(s)
    /\ UNCHANGED <<runtimeVars, checkpoint, trial, dropped, passed, overtaken,
                   misread, started, faults>>

\* record_usage_charge: event, debit and checkpoint in one transaction.
RecordUsageCharge(s) ==
    /\ pc[s] = "charge"
    /\ \E k \in current[s] :
          /\ Post(Org, "debit", Amount(s, k))
          /\ WriteCheckpoint(s, k)
          /\ billed' = [billed EXCEPT ![k] = @ + Delta(s, k)]
    /\ \/ NextSession(s) /\ UNCHANGED faults
       \/ Fault /\ EndSync(s)
    /\ UNCHANGED <<runtimeVars, trial, dropped, misread, started>>

\* The balance was spent since it was looked at, or the call fails.
ChargeFails(s) ==
    /\ pc[s] = "charge"
    /\ \/ /\ \E k \in current[s] : ~Accepts(balance[Org], "debit", Amount(s, k))
          /\ UNCHANGED faults
       \/ Fault
    /\ EndSync(s)
    /\ UNCHANGED <<walletVars, runtimeVars, checkpoint, trial, historyVars,
                   misread, started>>

\* Mutant: the growth is stored instead of the total.
UpsertDelta(s) ==
    /\ pc[s] = "upsert"
    /\ \E k \in current[s] :
          /\ checkpoint' = [checkpoint EXCEPT ![k] = Delta(s, k)]
          /\ dropped' = [dropped EXCEPT ![k] = @ + Delta(s, k)]
    /\ NextSession(s)
    /\ UNCHANGED <<walletVars, runtimeVars, trial, billed, passed, overtaken,
                   misread, started, faults>>

\* The plain upsert of a session with nothing to charge; its error is not
\* looked at.
UpsertCheckpoint(s) ==
    /\ pc[s] = "upsert"
    /\ \/ /\ \E k \in current[s] :
                /\ WriteCheckpoint(s, k)
                /\ dropped' = [dropped EXCEPT ![k] = @ + Delta(s, k)]
          /\ UNCHANGED faults
       \/ Fault /\ UNCHANGED <<checkpoint, dropped, passed, overtaken>>
    /\ NextSession(s)
    /\ UNCHANGED <<walletVars, runtimeVars, trial, billed, misread, started>>

Die(s) ==
    /\ pc[s] # "idle"
    /\ Fault
    /\ EndSync(s)
    /\ UNCHANGED <<walletVars, runtimeVars, checkpoint, trial, historyVars,
                   misread, started>>

SyncStep(s) ==
    \/ GetSessionsUsage(s) \/ TakeSession(s) \/ FinishSync(s)
    \/ AssertCanSpend(s) \/ RecordUsageCharge(s) \/ ChargeFails(s)
    \/ UpsertCheckpoint(s)

Next ==
    \/ \E k \in Keys : Use(k) \/ SlideWindow(k)
    \/ EndTrial
    \/ \E s \in Syncs : ReadState(s) \/ SyncStep(s) \/ Die(s)

Spec == Init /\ [][Next]_vars

-----------------------------------------------------------------------------

TypeOK ==
    /\ WalletTypeOK
    /\ {cost, checkpoint, used, billed, dropped} \subseteq Totals
    /\ trial \in BOOLEAN
    /\ pc \in [Syncs -> {"idle", "usage", "loop", "check", "charge", "upsert"}]
    /\ known \in [Syncs -> Totals]
    /\ reported \in [Syncs -> Totals]
    /\ {todo, current} \subseteq [Syncs -> SUBSET Keys]
    /\ \A s \in Syncs : pc[s] \in {"check", "charge", "upsert"} => current[s] # {}
    /\ absorbs \in [Syncs -> BOOLEAN]
    /\ passed \in [Syncs -> SUBSET Keys]
    /\ overtaken \subseteq Keys
    /\ misread \subseteq {"session_usage_checkpoints", "orgs"}
    /\ slid \subseteq Keys
    /\ started \in 0..MaxSyncs
    /\ faults \in 0..MaxFaults

\* No usage is billed twice, except by a sync that could not read the
\* checkpoints, or that wrote a session which another sync had written since
\* it read.  Lost answers, deaths, a sliding window and two syncs that run
\* side by side without meeting at a session do not make a second bill.
UsageIsBilledOnce ==
    \A k \in Keys :
        billed[k] > used[k] =>
            k \in overtaken \/ "session_usage_checkpoints" \in misread

\* Under the same exceptions the checkpoint is a complete account: all it
\* stands for was billed, or was dropped because a growth rounded to nothing.
\* A charge whose transaction fails leaves both sides as they were.
CheckpointIsAccounted ==
    \A k \in Keys :
        \/ billed[k] + dropped[k] = checkpoint[k]
        \/ k \in overtaken \cup slid
        \/ "session_usage_checkpoints" \in misread

\* The checkpoint of a session goes back only when the window slid, or when a
\* slow sync writes what it was told before a faster one wrote.
CheckpointAdvances ==
    [][\A k \in Keys :
          checkpoint'[k] < checkpoint[k] => k \in slid \/ k \in overtaken']_vars

\* Usage of a trial is absorbed: while the trial lasts no sync, however it
\* interleaves, debits the wallet, unless a failed query hid the trial.
TrialsAreFree ==
    [][trial /\ "orgs" \notin misread => balance' = balance]_vars

=============================================================================
