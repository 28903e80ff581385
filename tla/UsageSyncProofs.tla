-------------------------- MODULE UsageSyncProofs --------------------------
(***************************************************************************)
(* Proofs about UsageSync, for any number of sessions and syncs, any use   *)
(* and any number of faults.                                               *)
(***************************************************************************)
EXTENDS UsageSync, WalletLedgerProofs

\* A sync that has been told the totals, and the sessions it still has to do.
Told == {"loop", "check", "charge", "upsert"}
AtHand(s) == todo[s] \cup current[s]

\* A sync handles one session at a time, and each one once.
LoopInv ==
    \A s \in Syncs :
        /\ todo[s] \cap current[s] = {}
        /\ pc[s] \in {"idle", "usage", "loop"} => current[s] = {}
        /\ pc[s] \in {"check", "charge", "upsert"} => \E k \in Keys : current[s] = {k}

\* Totals only grow until the window slides: a checkpoint is a total of the
\* past, and no later than what a sync was told, unless another sync wrote it
\* since.
WindowInv ==
    \A k \in Keys :
        /\ cost[k] <= used[k]
        /\ k \notin slid =>
            /\ checkpoint[k] <= cost[k]
            /\ \A s \in Syncs : reported[s][k] <= cost[k]
            /\ \A s \in Syncs :
                  pc[s] \in Told /\ k \notin passed[s] => checkpoint[k] <= reported[s][k]

Excused(k) == k \in overtaken \/ "session_usage_checkpoints" \in misread

\* What s will bill for k, on top of what was billed, was used; and what was
\* billed so far is in the total s will store, or slid out of the window.
Prepared(s, k) ==
    /\ known[s][k] = checkpoint[k]
    /\ billed[k] + Delta(s, k) <= used[k]
    /\ billed[k] <= reported[s][k] + used[k] - cost[k]

\* A session is billed for what was used; what the checkpoint does not stand
\* for has left the window.  A sync that nobody overtook knows the checkpoint.
BillInv ==
    \A k \in Keys : ~Excused(k) =>
        /\ billed[k] <= used[k]
        /\ billed[k] - checkpoint[k] <= used[k] - cost[k]
        /\ k \notin slid => billed[k] + dropped[k] = checkpoint[k]
        /\ \A s \in Syncs : k \notin passed[s] =>
              /\ pc[s] = "usage" => known[s][k] = checkpoint[k]
              /\ pc[s] \in Told /\ k \in AtHand(s) => Prepared(s, k)

\* A sync that runs in a trial knows it.
TrialInv ==
    \A s \in Syncs : trial /\ "orgs" \notin misread /\ pc[s] # "idle" => absorbs[s]

IInv == TypeOK /\ LedgerExplainsBalance /\ LoopInv /\ WindowInv /\ BillInv /\ TrialInv

-----------------------------------------------------------------------------
(* Prices.                                                                  *)

LEMMA QuotientIsInt ==
    ASSUME NEW a \in Int, NEW b \in Nat \ {0}
    PROVE  a \div b \in Int
  OBVIOUS

\* A growth is a natural number, and so is the price of it: rounding and the
\* markup never turn it into a credit.
LEMMA PriceIsNat ==
    ASSUME TypeOK, NEW s \in Syncs, NEW k \in Keys
    PROVE  Delta(s, k) \in Nat /\ Price(s, k) \in Nat /\ Amount(s, k) \in Nat
<1>1. /\ reported[s][k] \in Nat
      /\ known[s][k] \in Nat
  BY DEF TypeOK, Totals
<1>2. Delta(s, k) \in Nat
  BY <1>1 DEF Delta
<1> DEFINE cents == convertUsdToBillingCents(Delta(s, k))
<1>3. cents \in Int
  <2>1. 2 * Unit \in Nat \ {0}
    BY SyncAssumption
  <2>2. 2 * Delta(s, k) + Unit \in Int
    BY <1>2, SyncAssumption
  <2> QED BY <2>1, <2>2, QuotientIsInt DEF convertUsdToBillingCents
<1> HIDE DEF cents
<1>4. applyLlmUsageMarkup(cents) \in Nat
  BY <1>3 DEF applyLlmUsageMarkup
<1> QED BY <1>2, <1>4 DEF Price, Amount, cents

-----------------------------------------------------------------------------
(* Types, and the wallet.                                                   *)

\* A sync that ends forgets what it held.
LEMMA EndSyncTypes ==
    ASSUME TypeOK, NEW s \in Syncs, EndSync(s)
    PROVE  /\ pc' \in [Syncs -> {"idle", "usage", "loop", "check", "charge", "upsert"}]
           /\ known' \in [Syncs -> Totals]
           /\ reported' \in [Syncs -> Totals]
           /\ {todo', current'} \subseteq [Syncs -> SUBSET Keys]
           /\ absorbs' \in [Syncs -> BOOLEAN]
           /\ \A t \in Syncs : pc'[t] \in {"check", "charge", "upsert"} => current'[t] # {}
<1>1. NoTotals \in Totals
  BY DEF NoTotals, Totals
<1> QED BY <1>1 DEF TypeOK, EndSync, GoTo

LEMMA WriteTypes ==
    ASSUME TypeOK, NEW s \in Syncs, NEW k \in Keys, WriteCheckpoint(s, k)
    PROVE  /\ checkpoint' \in Totals
           /\ passed' \in [Syncs -> SUBSET Keys]
           /\ overtaken' \subseteq Keys
  BY DEF TypeOK, Totals, WriteCheckpoint

\* A charge is a posting to the wallet, and nothing else touches it.
LEMMA WalletStep ==
    ASSUME TypeOK, LedgerExplainsBalance, [Next]_vars
    PROVE  WalletTypeOK' /\ LedgerExplainsBalance'
<1>1. WalletInv
  BY DEF TypeOK, WalletInv
<1>2. CASE UNCHANGED walletVars
  BY <1>1, <1>2, NoPostKeepsWallet DEF WalletInv
<1>3. ASSUME NEW s \in Syncs, RecordUsageCharge(s)
      PROVE  WalletInv'
  <2>1. PICK k \in current[s] : Post(Org, "debit", Amount(s, k))
    BY <1>3 DEF RecordUsageCharge
  <2>2. k \in Keys
    BY DEF TypeOK
  <2> QED BY <1>1, <2>1, <2>2, PriceIsNat, PostKeepsWallet, SyncAssumption DEF Directions
<1>4. Next => UNCHANGED walletVars \/ \E s \in Syncs : RecordUsageCharge(s)
  BY DEF Next, Use, SlideWindow, EndTrial, ReadState, SyncStep, GetSessionsUsage,
         TakeSession, FinishSync, AssertCanSpend, ChargeFails, UpsertCheckpoint, Die
<1> QED BY <1>2, <1>3, <1>4 DEF vars, WalletInv

LEMMA TypeStep ==
    ASSUME TypeOK, LedgerExplainsBalance, [Next]_vars
    PROVE  TypeOK'
<1> USE WalletStep DEF Totals
<1>1. CASE UNCHANGED vars
  BY <1>1 DEF TypeOK, vars, runtimeVars, syncVars, historyVars
<1>2. ASSUME NEW k \in Keys, Use(k) \/ SlideWindow(k)
      PROVE  TypeOK'
  <2>1. cost \in Totals /\ used \in Totals
    BY DEF TypeOK
  <2>2. slid' \subseteq Keys
    BY <1>2 DEF TypeOK, Use, SlideWindow
  <2>3. cost' \in Totals /\ used' \in Totals
    <3>1. CASE Use(k)
      BY <2>1, <3>1 DEF Use
    <3>2. CASE SlideWindow(k)
      BY <2>1, <3>2 DEF SlideWindow
    <3> QED BY <1>2, <3>1, <3>2
  <2> QED BY <1>2, <2>2, <2>3 DEF TypeOK, Use, SlideWindow, syncVars, historyVars
<1>3. CASE EndTrial
  BY <1>3 DEF TypeOK, EndTrial, runtimeVars, syncVars, historyVars
<1>4. ASSUME NEW s \in Syncs, ReadState(s)
      PROVE  TypeOK'
  <2>1. /\ known' \in [Syncs -> Totals]
        /\ misread' \subseteq {"session_usage_checkpoints", "orgs"}
        /\ faults' \in 0..MaxFaults
    <3>1. checkpoint \in Totals /\ known \in [Syncs -> Totals]
      BY DEF TypeOK
    <3>2. known' \in [Syncs -> Totals]
      BY <1>4, <3>1 DEF ReadState
    <3>3. misread' \subseteq misread \cup {"session_usage_checkpoints", "orgs"}
      BY <1>4 DEF ReadState
    <3>4. faults' = faults \/ (faults < MaxFaults /\ faults' = faults + 1)
      BY <1>4 DEF ReadState, Fault
    <3> QED BY <3>2, <3>3, <3>4, SyncAssumption DEF TypeOK
  <2>2. /\ pc' = [pc EXCEPT ![s] = "usage"]
        /\ passed' \in [Syncs -> SUBSET Keys]
        /\ started' \in 0..MaxSyncs
    BY <1>4, SyncAssumption DEF TypeOK, ReadState, GoTo
  <2>3. absorbs' \in [Syncs -> BOOLEAN]
    BY <1>4, Zenon DEF TypeOK, ReadState
  <2> QED BY <1>4, <2>1, <2>2, <2>3 DEF TypeOK, ReadState, runtimeVars
<1>5. ASSUME NEW s \in Syncs, GetSessionsUsage(s)
      PROVE  TypeOK'
  <2>1. CASE EndSync(s)
    BY <1>5, <2>1, EndSyncTypes, SyncAssumption
       DEF TypeOK, GetSessionsUsage, Fault, GoTo, runtimeVars, historyVars
  <2>2. CASE ~EndSync(s)
    <3>1. /\ reported' \in [Syncs -> Totals]
          /\ todo' \in [Syncs -> SUBSET Keys]
          /\ pc' = [pc EXCEPT ![s] = "loop"]
          /\ UNCHANGED <<known, current, absorbs, faults>>
      <4>1. cost \in Totals /\ {k \in Keys : used[k] > 0} \in SUBSET Keys
        BY DEF TypeOK
      <4>2. /\ reported' = [reported EXCEPT ![s] = cost]
            /\ todo' = [todo EXCEPT ![s] = {k \in Keys : used[k] > 0}]
            /\ pc' = [pc EXCEPT ![s] = "loop"]
            /\ UNCHANGED <<known, current, absorbs, faults>>
        BY <1>5, <2>2 DEF GetSessionsUsage, GoTo
      <4> QED BY <4>1, <4>2 DEF TypeOK
    <3> QED BY <1>5, <3>1 DEF TypeOK, GetSessionsUsage, runtimeVars, historyVars
  <2> QED BY <2>1, <2>2
<1>6. ASSUME NEW s \in Syncs, TakeSession(s)
      PROVE  TypeOK'
  <2>1. PICK k \in todo[s], label \in {"check", "upsert"} :
            /\ todo' = [todo EXCEPT ![s] = @ \ {k}]
            /\ current' = [current EXCEPT ![s] = {k}]
            /\ pc' = [pc EXCEPT ![s] = label]
    BY <1>6 DEF TakeSession, GoTo
  <2>2. {todo', current'} \subseteq [Syncs -> SUBSET Keys]
    BY <2>1 DEF TypeOK
  <2> QED BY <1>6, <2>1, <2>2 DEF TypeOK, TakeSession, runtimeVars, historyVars
<1>7. ASSUME NEW s \in Syncs, FinishSync(s) \/ ChargeFails(s) \/ Die(s)
      PROVE  TypeOK'
  <2>1. EndSync(s)
    BY <1>7 DEF FinishSync, ChargeFails, Die
  <2> QED BY <1>7, <2>1, EndSyncTypes, SyncAssumption
          DEF TypeOK, FinishSync, ChargeFails, Die, Fault, runtimeVars, historyVars
<1>8. ASSUME NEW s \in Syncs, AssertCanSpend(s)
      PROVE  TypeOK'
  <2>1. CASE EndSync(s)
    BY <1>8, <2>1, EndSyncTypes DEF TypeOK, AssertCanSpend, runtimeVars, historyVars
  <2>2. CASE ~EndSync(s)
    BY <1>8, <2>2 DEF TypeOK, AssertCanSpend, GoTo, runtimeVars, historyVars
  <2> QED BY <2>1, <2>2
<1>9. ASSUME NEW s \in Syncs, RecordUsageCharge(s)
      PROVE  TypeOK'
  <2>1. PICK k \in current[s] : /\ WriteCheckpoint(s, k)
                                /\ billed' = [billed EXCEPT ![k] = @ + Delta(s, k)]
    BY <1>9 DEF RecordUsageCharge
  <2>2. k \in Keys
    BY DEF TypeOK
  <2>3. billed' \in Totals
    BY <2>1, <2>2, PriceIsNat DEF TypeOK
  <2>4. CASE EndSync(s)
    BY <1>9, <2>1, <2>2, <2>3, <2>4, WriteTypes, EndSyncTypes, SyncAssumption
       DEF TypeOK, RecordUsageCharge, Fault, runtimeVars
  <2>5. CASE NextSession(s)
    BY <1>9, <2>1, <2>2, <2>3, <2>5, WriteTypes, SyncAssumption
       DEF TypeOK, RecordUsageCharge, NextSession, Fault, GoTo, runtimeVars
  <2> QED BY <1>9, <2>4, <2>5 DEF RecordUsageCharge
<1>10. ASSUME NEW s \in Syncs, UpsertCheckpoint(s)
       PROVE  TypeOK'
  <2>1. CASE UNCHANGED <<checkpoint, dropped, passed, overtaken>>
    BY <1>10, <2>1, SyncAssumption
       DEF TypeOK, UpsertCheckpoint, NextSession, Fault, GoTo, runtimeVars
  <2>2. ASSUME NEW k \in current[s], WriteCheckpoint(s, k),
               dropped' = [dropped EXCEPT ![k] = @ + Delta(s, k)]
        PROVE  TypeOK'
    <3>1. k \in Keys
      BY DEF TypeOK
    <3>2. dropped' \in Totals
      BY <2>2, <3>1, PriceIsNat DEF TypeOK
    <3> QED BY <1>10, <2>2, <3>1, <3>2, WriteTypes, SyncAssumption
            DEF TypeOK, UpsertCheckpoint, NextSession, Fault, GoTo, runtimeVars
  <2> QED BY <1>10, <2>1, <2>2 DEF UpsertCheckpoint
<1> QED BY <1>1, <1>2, <1>3, <1>4, <1>5, <1>6, <1>7, <1>8, <1>9, <1>10 DEF Next, SyncStep

-----------------------------------------------------------------------------
(* How a sync moves.                                                        *)

\* s is done with its session, and perhaps with everything.
Leaves(s) ==
    /\ pc'[s] \in {"idle", "loop"}
    /\ current'[s] = {}
    /\ pc'[s] = "idle" => reported'[s] = NoTotals /\ todo'[s] = {}
    /\ pc'[s] = "loop" => /\ pc[s] # "idle"
                          /\ known'[s] = known[s]
                          /\ reported'[s] = reported[s]
                          /\ todo'[s] = todo[s]
                          /\ absorbs'[s] = absorbs[s]
    /\ \A t \in Syncs \ {s} :
          /\ pc'[t] = pc[t]
          /\ known'[t] = known[t]
          /\ reported'[t] = reported[t]
          /\ todo'[t] = todo[t]
          /\ current'[t] = current[t]
          /\ absorbs'[t] = absorbs[t]

LEMMA EndLeaves ==
    ASSUME TypeOK, NEW s \in Syncs, EndSync(s)
    PROVE  Leaves(s)
  BY DEF TypeOK, EndSync, GoTo, Leaves

LEMMA NextLeaves ==
    ASSUME TypeOK, NEW s \in Syncs, pc[s] # "idle", NextSession(s)
    PROVE  Leaves(s)
  BY DEF TypeOK, NextSession, GoTo, Leaves

\* The growth a sync works with is that of its own record.
LEMMA SameDelta ==
    ASSUME NEW s \in Syncs, NEW k \in Keys,
           known'[s] = known[s], reported'[s] = reported[s]
    PROVE  Delta(s, k)' = Delta(s, k)
  BY DEF Delta

DataInv == LoopInv /\ WindowInv /\ BillInv /\ TrialInv

\* Leaving a session without a write to the tables changes nothing.
LEMMA LeavingKeeps ==
    ASSUME TypeOK, DataInv, NEW s \in Syncs, Leaves(s),
           UNCHANGED <<cost, used, slid, checkpoint, trial, misread, historyVars>>,
           pc'[s] = "loop" => pc[s] \in Told
    PROVE  DataInv'
<1> USE DEF DataInv, historyVars
<1>1. LoopInv'
  BY DEF LoopInv, Leaves
<1>2. WindowInv'
  <2> SUFFICES ASSUME NEW k \in Keys, k \notin slid, NEW t \in Syncs
               PROVE  /\ reported'[t][k] <= cost[k]
                      /\ pc'[t] \in Told /\ k \notin passed[t] =>
                            checkpoint[k] <= reported'[t][k]
    BY DEF WindowInv
  <2>1. CASE t = s /\ pc'[s] = "idle"
    BY <2>1 DEF Leaves, NoTotals, Told, TypeOK, Totals
  <2>2. CASE t # s \/ pc'[s] = "loop"
    BY <2>2 DEF Leaves, WindowInv
  <2> QED BY <2>1, <2>2 DEF Leaves
<1>3. BillInv'
  <2> SUFFICES ASSUME NEW k \in Keys, ~Excused(k), NEW t \in Syncs, k \notin passed[t]
               PROVE  /\ pc'[t] = "usage" => known'[t][k] = checkpoint[k]
                      /\ pc'[t] \in Told /\ k \in AtHand(t)' => Prepared(t, k)'
    BY DEF BillInv, Excused
  <2>1. CASE t = s /\ pc'[s] = "idle"
    BY <2>1 DEF Told
  <2>2. CASE t # s \/ pc'[s] = "loop"
    <3>1. known'[t] = known[t] /\ reported'[t] = reported[t]
      BY <2>2 DEF Leaves
    <3>2. pc'[t] \in Told /\ k \in AtHand(t)' => pc[t] \in Told /\ k \in AtHand(t)
      BY <2>2 DEF Leaves, AtHand, Told
    <3>3. pc'[t] = "usage" => pc[t] = "usage"
      BY <2>2 DEF Leaves
    <3> QED BY <3>1, <3>2, <3>3, SameDelta DEF BillInv, Prepared
  <2> QED BY <2>1, <2>2 DEF Leaves
<1>4. TrialInv'
  BY DEF TrialInv, Leaves
<1> QED BY <1>1, <1>2, <1>3, <1>4

\* A sync that writes a session's checkpoint, and bills or drops its growth:
\* whoever read before is passed, and the write itself adds up.
LEMMA WriteKeeps ==
    ASSUME TypeOK, DataInv, NEW s \in Syncs, NEW k \in current[s],
           pc[s] \in {"charge", "upsert"}, Leaves(s), WriteCheckpoint(s, k),
           \/ billed' = [billed EXCEPT ![k] = @ + Delta(s, k)] /\ dropped' = dropped
           \/ dropped' = [dropped EXCEPT ![k] = @ + Delta(s, k)] /\ billed' = billed,
           UNCHANGED <<cost, used, slid, trial, misread>>
    PROVE  DataInv'
<1> USE DEF DataInv
<1>1. k \in Keys /\ current[s] = {k} /\ k \notin todo[s]
  BY DEF TypeOK, LoopInv
<1>2. /\ checkpoint'[k] = reported[s][k]
      /\ \A j \in Keys \ {k} : checkpoint'[j] = checkpoint[j]
      /\ \A t \in Syncs \ {s} : passed'[t] = passed[t] \cup {k}
      /\ passed'[s] = passed[s]
      /\ \A j \in Keys \ {k} : j \in overtaken' <=> j \in overtaken
      /\ k \in passed[s] => k \in overtaken'
      /\ overtaken \subseteq overtaken'
  BY <1>1 DEF TypeOK, Totals, WriteCheckpoint
<1>3. LoopInv'
  BY DEF LoopInv, Leaves
<1>4. WindowInv'
  <2> SUFFICES ASSUME NEW j \in Keys, j \notin slid
               PROVE  /\ checkpoint'[j] <= cost[j]
                      /\ \A t \in Syncs :
                            /\ reported'[t][j] <= cost[j]
                            /\ pc'[t] \in Told /\ j \notin passed'[t] =>
                                  checkpoint'[j] <= reported'[t][j]
    BY DEF WindowInv
  <2>1. checkpoint'[j] <= cost[j]
    BY <1>2 DEF WindowInv
  <2> SUFFICES ASSUME NEW t \in Syncs
               PROVE  /\ reported'[t][j] <= cost[j]
                      /\ pc'[t] \in Told /\ j \notin passed'[t] =>
                            checkpoint'[j] <= reported'[t][j]
    BY <2>1
  <2>2. CASE t = s /\ pc'[s] = "idle"
    BY <2>2 DEF Leaves, NoTotals, Told, TypeOK, Totals
  <2>3. CASE t = s /\ pc'[s] = "loop"
    <3>1. reported'[t][j] <= cost[j]
      BY <2>3 DEF Leaves, WindowInv
    <3>2. CASE j = k
      BY <1>2, <2>3, <3>1, <3>2 DEF Leaves, TypeOK, Totals
    <3>3. CASE j # k
      BY <1>2, <2>3, <3>1, <3>3 DEF Leaves, WindowInv, Told
    <3> QED BY <3>2, <3>3
  <2>4. CASE t # s
    BY <1>2, <2>4 DEF Leaves, WindowInv
  <2> QED BY <2>2, <2>3, <2>4 DEF Leaves
<1>5. BillInv'
  <2>1. ASSUME NEW j \in Keys, ~Excused(j)'
        PROVE  /\ ~Excused(j)
               /\ billed'[j] <= used[j]
               /\ billed'[j] - checkpoint'[j] <= used[j] - cost[j]
               /\ j \notin slid => billed'[j] + dropped'[j] = checkpoint'[j]
    <3>1. ~Excused(j)
      BY <1>2, <2>1 DEF Excused
    <3>2. CASE j # k
      BY <1>1, <1>2, <3>1, <3>2 DEF BillInv, TypeOK, Totals
    <3>3. CASE j = k
      <4>1. k \notin passed[s]
        BY <1>2, <2>1, <3>3 DEF Excused
      <4>2. Prepared(s, k)
        BY <1>1, <3>1, <3>3, <4>1 DEF BillInv, AtHand, Told
      <4>3. /\ billed[k] - checkpoint[k] <= used[k] - cost[k]
            /\ billed[k] <= used[k]
            /\ k \notin slid => /\ billed[k] + dropped[k] = checkpoint[k]
                                /\ checkpoint[k] <= reported[s][k]
        BY <1>1, <3>1, <3>3, <4>1 DEF BillInv, WindowInv, Told
      <4>4. /\ billed[k] \in Nat /\ dropped[k] \in Nat /\ checkpoint[k] \in Nat
            /\ used[k] \in Nat /\ cost[k] \in Nat
            /\ reported[s][k] \in Nat /\ known[s][k] \in Nat
        BY <1>1 DEF TypeOK, Totals
      <4>5. \/ billed'[k] = billed[k] + Delta(s, k) /\ dropped'[k] = dropped[k]
            \/ billed'[k] = billed[k] /\ dropped'[k] = dropped[k] + Delta(s, k)
        BY <1>1 DEF TypeOK, Totals
      <4> QED BY <1>2, <3>1, <3>3, <4>2, <4>3, <4>4, <4>5 DEF Prepared, Delta
    <3> QED BY <3>2, <3>3
  <2>2. ASSUME NEW j \in Keys, ~Excused(j)', NEW t \in Syncs, j \notin passed'[t]
        PROVE  /\ pc'[t] = "usage" => known'[t][j] = checkpoint'[j]
               /\ pc'[t] \in Told /\ j \in AtHand(t)' => Prepared(t, j)'
    <3>1. CASE t = s /\ pc'[s] = "idle"
      BY <3>1 DEF Told
    <3>2. CASE t # s \/ pc'[s] = "loop"
      <4>1. known'[t] = known[t] /\ reported'[t] = reported[t]
        BY <3>2 DEF Leaves
      <4>2. pc'[t] \in Told /\ j \in AtHand(t)' => pc[t] \in Told /\ j \in AtHand(t) /\ j # k
        <5>1. CASE t = s
          BY <1>1, <3>2, <5>1 DEF Leaves, AtHand, Told
        <5>2. CASE t # s
          BY <1>2, <2>2, <5>2 DEF Leaves, AtHand
        <5> QED BY <5>1, <5>2
      <4>3. pc'[t] = "usage" => pc[t] = "usage" /\ j # k
        BY <1>2, <2>2, <3>2 DEF Leaves
      <4>4. j \notin passed[t]
        BY <1>2, <2>2
      <4>5. j # k => checkpoint'[j] = checkpoint[j] /\ billed'[j] = billed[j]
        BY <1>1, <1>2 DEF TypeOK, Totals
      <4> QED BY <2>1, <2>2, <4>1, <4>2, <4>3, <4>4, <4>5, SameDelta DEF BillInv, Prepared
    <3> QED BY <3>1, <3>2 DEF Leaves
  <2> QED BY <2>1, <2>2 DEF BillInv
<1>6. TrialInv'
  BY DEF TrialInv, Leaves
<1> QED BY <1>3, <1>4, <1>5, <1>6

-----------------------------------------------------------------------------
(* The steps of the world, and those in which a sync learns something.      *)

\* Usage grows the total, and a window that slides excuses the session from
\* everything that is said of totals.
LEMMA RuntimeKeeps ==
    ASSUME TypeOK, DataInv, NEW k \in Keys, Use(k) \/ SlideWindow(k)
    PROVE  DataInv'
<1> USE DEF DataInv, syncVars, historyVars
<1>1. \A j \in Keys : /\ cost[j] \in Nat /\ used[j] \in Nat
                      /\ billed[j] \in Nat /\ checkpoint[j] \in Nat
                      /\ \A s \in Syncs : reported[s][j] \in Nat
  BY DEF TypeOK, Totals
<1>2. \A j \in Keys :
        \/ cost'[j] = cost[j] /\ used'[j] = used[j]
        \/ cost'[j] = cost[j] + 1 /\ used'[j] = used[j] + 1
        \/ cost'[j] = cost[j] - 1 /\ used'[j] = used[j] /\ j \in slid'
  BY <1>1 DEF Use, SlideWindow, TypeOK, Totals
<1>3. UNCHANGED <<checkpoint, trial, syncVars, historyVars, misread>> /\ slid \subseteq slid'
  BY DEF Use, SlideWindow
<1>4. LoopInv' /\ TrialInv'
  BY <1>3 DEF LoopInv, TrialInv
<1>5. WindowInv'
  <2> SUFFICES ASSUME NEW j \in Keys
               PROVE  /\ cost'[j] <= used'[j]
                      /\ j \notin slid' =>
                          /\ checkpoint[j] <= cost'[j]
                          /\ \A s \in Syncs : reported[s][j] <= cost'[j]
                          /\ \A s \in Syncs : pc[s] \in Told /\ j \notin passed[s] =>
                                checkpoint[j] <= reported[s][j]
    BY <1>3 DEF WindowInv
  <2>1. cost[j] <= used[j] /\ cost'[j] <= used'[j]
    BY <1>1, <1>2 DEF WindowInv
  <2> QED BY <1>1, <1>2, <1>3, <2>1 DEF WindowInv
<1>6. BillInv'
  <2> SUFFICES ASSUME NEW j \in Keys, ~Excused(j)
               PROVE  /\ billed[j] <= used'[j]
                      /\ billed[j] - checkpoint[j] <= used'[j] - cost'[j]
                      /\ j \notin slid' => billed[j] + dropped[j] = checkpoint[j]
                      /\ \A s \in Syncs : j \notin passed[s] =>
                            /\ pc[s] = "usage" => known[s][j] = checkpoint[j]
                            /\ pc[s] \in Told /\ j \in AtHand(s) => Prepared(s, j)'
    BY <1>3 DEF BillInv, Excused, AtHand
  <2>1. /\ billed[j] <= used'[j]
        /\ billed[j] - checkpoint[j] <= used'[j] - cost'[j]
    BY <1>1, <1>2 DEF BillInv
  <2>2. ASSUME NEW s \in Syncs, Prepared(s, j)
        PROVE  Prepared(s, j)'
    <3>1. Delta(s, j)' = Delta(s, j) /\ Delta(s, j) \in Nat
      BY <1>3, PriceIsNat, SameDelta
    <3> QED BY <1>1, <1>2, <1>3, <2>2, <3>1 DEF Prepared
  <2> QED BY <1>3, <2>1, <2>2 DEF BillInv
<1> QED BY <1>4, <1>5, <1>6

\* A sync starts with the checkpoints as they are, or the failed query is an
\* excuse for all that follows.
LEMMA ReadKeeps ==
    ASSUME TypeOK, DataInv, NEW s \in Syncs, ReadState(s)
    PROVE  DataInv'
<1> USE DEF DataInv, runtimeVars
<1>1. /\ pc[s] = "idle" /\ pc' = [pc EXCEPT ![s] = "usage"]
      /\ passed' = [passed EXCEPT ![s] = {}]
      /\ UNCHANGED <<runtimeVars, checkpoint, trial, reported, todo, current,
                     billed, dropped, overtaken>>
      /\ misread \subseteq misread'
  BY DEF ReadState, GoTo
<1>2. \A t \in Syncs \ {s} : known'[t] = known[t] /\ absorbs'[t] = absorbs[t]
  BY DEF ReadState, TypeOK
<1>3. "session_usage_checkpoints" \notin misread' => known'[s] = checkpoint
  BY DEF ReadState, TypeOK
<1>4. "orgs" \notin misread' => (absorbs'[s] <=> trial)
  <2>1. absorbs'[s] = trial \/ "orgs" \in misread'
    BY DEF ReadState, TypeOK
  <2> QED BY <2>1
<1>5. \A t \in Syncs \ {s} : pc'[t] = pc[t] /\ passed'[t] = passed[t]
  BY <1>1 DEF TypeOK
<1>6. pc'[s] = "usage"
  BY <1>1 DEF TypeOK
<1>7. LoopInv'
  BY <1>1, <1>5, <1>6 DEF LoopInv
<1>8. WindowInv'
  BY <1>1, <1>5, <1>6 DEF WindowInv, Told
<1>9. BillInv'
  <2> SUFFICES ASSUME NEW k \in Keys, ~Excused(k)', NEW t \in Syncs, k \notin passed'[t]
               PROVE  /\ pc'[t] = "usage" => known'[t][k] = checkpoint[k]
                      /\ pc'[t] \in Told /\ k \in AtHand(t)' => Prepared(t, k)'
    BY <1>1 DEF BillInv, Excused
  <2>1. ~Excused(k)
    BY <1>1 DEF Excused
  <2>2. CASE t = s
    BY <1>3, <1>6, <2>2 DEF Excused, Told
  <2>3. CASE t # s
    BY <1>1, <1>2, <1>5, <2>1, <2>3, SameDelta DEF BillInv, Prepared, AtHand
  <2> QED BY <2>2, <2>3
<1>10. TrialInv'
  BY <1>1, <1>2, <1>4, <1>5 DEF TrialInv
<1> QED BY <1>7, <1>8, <1>9, <1>10

\* What a sync is told now is no less than what was billed, or the rest has
\* slid out of the window.
LEMMA ReportKeeps ==
    ASSUME TypeOK, DataInv, NEW s \in Syncs, GetSessionsUsage(s), ~EndSync(s)
    PROVE  DataInv'
<1> USE DEF DataInv, runtimeVars, historyVars
<1>1. /\ pc[s] = "usage" /\ pc' = [pc EXCEPT ![s] = "loop"]
      /\ reported' = [reported EXCEPT ![s] = cost]
      /\ todo' = [todo EXCEPT ![s] = {k \in Keys : used[k] > 0}]
      /\ UNCHANGED <<known, current, absorbs, runtimeVars, checkpoint, trial,
                     historyVars, misread>>
  BY DEF GetSessionsUsage, GoTo
<1>2. reported'[s] = cost /\ pc'[s] = "loop"
  BY <1>1 DEF TypeOK
<1>3. \A t \in Syncs \ {s} : /\ pc'[t] = pc[t]
                             /\ reported'[t] = reported[t]
                             /\ todo'[t] = todo[t]
  BY <1>1 DEF TypeOK
<1>4. LoopInv'
  <2>1. current[s] = {}
    BY <1>1 DEF TypeOK, LoopInv
  <2> QED BY <1>1, <1>2, <1>3, <2>1 DEF LoopInv
<1>5. WindowInv'
  BY <1>1, <1>2, <1>3 DEF WindowInv, Told, TypeOK, Totals
<1>6. BillInv'
  <2> SUFFICES ASSUME NEW k \in Keys, ~Excused(k), NEW t \in Syncs, k \notin passed[t]
               PROVE  /\ pc'[t] = "usage" => known[t][k] = checkpoint[k]
                      /\ pc'[t] \in Told /\ k \in AtHand(t)' => Prepared(t, k)'
    BY <1>1 DEF BillInv, Excused
  <2>1. CASE t = s
    <3>1. /\ known[s][k] = checkpoint[k]
          /\ billed[k] <= used[k]
          /\ billed[k] - checkpoint[k] <= used[k] - cost[k]
      BY <1>1, <2>1 DEF BillInv
    <3>2. /\ billed[k] \in Nat /\ checkpoint[k] \in Nat /\ used[k] \in Nat /\ cost[k] \in Nat
      BY DEF TypeOK, Totals
    <3> QED BY <1>1, <1>2, <2>1, <3>1, <3>2 DEF Prepared, Delta
  <2>2. CASE t # s
    BY <1>1, <1>3, <2>2, SameDelta DEF BillInv, Prepared, AtHand
  <2> QED BY <2>1, <2>2
<1>7. TrialInv'
  BY <1>1, <1>2, <1>3 DEF TrialInv
<1> QED BY <1>4, <1>5, <1>6, <1>7

\* Going on with a session takes nothing new to hand.
LEMMA TakeKeeps ==
    ASSUME TypeOK, DataInv, NEW s \in Syncs,
           TakeSession(s) \/ (AssertCanSpend(s) /\ ~EndSync(s))
    PROVE  DataInv'
<1> USE DEF DataInv, runtimeVars, historyVars
<1>1. /\ pc[s] \in Told /\ pc'[s] \in {"check", "charge", "upsert"}
      /\ AtHand(s)' \subseteq AtHand(s)
      /\ todo'[s] \cap current'[s] = {}
      /\ \E k \in Keys : current'[s] = {k}
      /\ \A t \in Syncs \ {s} : /\ pc'[t] = pc[t]
                                /\ todo'[t] = todo[t]
                                /\ current'[t] = current[t]
      /\ UNCHANGED <<known, reported, absorbs, runtimeVars, checkpoint, trial,
                     historyVars, misread>>
  <2>1. CASE TakeSession(s)
    <3>1. PICK k \in todo[s], label \in {"check", "upsert"} :
              /\ todo' = [todo EXCEPT ![s] = @ \ {k}]
              /\ current' = [current EXCEPT ![s] = {k}]
              /\ pc' = [pc EXCEPT ![s] = label]
      BY <2>1 DEF TakeSession, GoTo
    <3> QED BY <2>1, <3>1 DEF TakeSession, TypeOK, AtHand, Told
  <2>2. CASE AssertCanSpend(s) /\ ~EndSync(s)
    BY <2>2 DEF AssertCanSpend, GoTo, TypeOK, AtHand, Told, LoopInv
  <2> QED BY <2>1, <2>2
<1>2. LoopInv' /\ WindowInv' /\ TrialInv'
  BY <1>1 DEF LoopInv, WindowInv, TrialInv, Told
<1>3. BillInv'
  <2> SUFFICES ASSUME NEW k \in Keys, ~Excused(k), NEW t \in Syncs, k \notin passed[t]
               PROVE  /\ pc'[t] = "usage" => known[t][k] = checkpoint[k]
                      /\ pc'[t] \in Told /\ k \in AtHand(t)' => Prepared(t, k)'
    BY <1>1 DEF BillInv, Excused
  <2>1. pc'[t] \in Told /\ k \in AtHand(t)' => pc[t] \in Told /\ k \in AtHand(t)
    BY <1>1 DEF AtHand
  <2>2. pc'[t] = "usage" => pc[t] = "usage"
    BY <1>1
  <2> QED BY <1>1, <2>1, <2>2, SameDelta DEF BillInv, Prepared
<1> QED BY <1>2, <1>3

-----------------------------------------------------------------------------
(* The invariant.                                                           *)

LEMMA InitInv == Init => IInv
<1> SUFFICES ASSUME Init PROVE IInv
  OBVIOUS
<1> USE DEF Init
<1>1. NoTotals \in Totals
  BY DEF NoTotals, Totals
<1>2. WalletTypeOK /\ LedgerExplainsBalance
  <2>1. balance \in [Orgs -> Nat]
    BY AmountsAssumption
  <2>2. ASSUME NEW o \in Orgs
        PROVE  /\ Row(0, "credit", balance[o]) \in LedgerRow
               /\ Row(0, "credit", balance[o]).after = balance[o]
               /\ NextBalance(0, Row(0, "credit", balance[o]).direction,
                                 Row(0, "credit", balance[o]).amount) = balance[o]
    BY <2>1 DEF Row, NextBalance, LedgerRow, Directions
  <2>3. \A r \in LedgerRow : <<r>> \in Seq(LedgerRow) /\ Len(<<r>>) = 1 /\ <<r>>[1] = r
    OBVIOUS
  <2>4. ledger \in [Orgs -> Seq(LedgerRow)]
    BY <2>2, <2>3
  <2> QED BY <2>1, <2>2, <2>3, <2>4 DEF WalletTypeOK, LedgerExplainsBalance, BalanceAfter
<1>3. TypeOK
  BY <1>1, <1>2, SyncAssumption DEF TypeOK
<1>4. LoopInv /\ WindowInv /\ TrialInv
  BY DEF LoopInv, WindowInv, TrialInv, NoTotals, Told
<1>5. BillInv
  BY DEF BillInv, NoTotals, Told
<1> QED BY <1>2, <1>3, <1>4, <1>5 DEF IInv

LEMMA DataStep ==
    ASSUME TypeOK, DataInv, [Next]_vars
    PROVE  DataInv'
<1>1. CASE UNCHANGED vars
  BY <1>1 DEF vars, runtimeVars, syncVars, historyVars, DataInv, LoopInv, WindowInv,
              BillInv, TrialInv, Excused, AtHand, Prepared, Delta
<1>2. CASE EndTrial
  BY <1>2 DEF EndTrial, runtimeVars, syncVars, historyVars, DataInv, LoopInv, WindowInv,
              BillInv, TrialInv, Excused, AtHand, Prepared, Delta
<1>3. ASSUME NEW s \in Syncs, EndSync(s),
             \/ GetSessionsUsage(s) \/ FinishSync(s) \/ AssertCanSpend(s)
             \/ ChargeFails(s) \/ Die(s)
      PROVE  DataInv'
  <2>1. Leaves(s) /\ pc'[s] = "idle"
    BY <1>3, EndLeaves DEF EndSync, GoTo, TypeOK
  <2> QED BY <1>3, <2>1, LeavingKeeps
          DEF GetSessionsUsage, FinishSync, AssertCanSpend, ChargeFails, Die, runtimeVars,
              historyVars
<1>4. ASSUME NEW s \in Syncs, FinishSync(s) \/ ChargeFails(s) \/ Die(s)
      PROVE  EndSync(s)
  BY <1>4 DEF FinishSync, ChargeFails, Die
<1>5. ASSUME NEW s \in Syncs, RecordUsageCharge(s)
      PROVE  DataInv'
  <2>1. PICK k \in current[s] : /\ WriteCheckpoint(s, k)
                                /\ billed' = [billed EXCEPT ![k] = @ + Delta(s, k)]
    BY <1>5 DEF RecordUsageCharge
  <2>2. Leaves(s)
    BY <1>5, EndLeaves, NextLeaves DEF RecordUsageCharge
  <2> QED BY <1>5, <2>1, <2>2, WriteKeeps DEF RecordUsageCharge, runtimeVars
<1>6. ASSUME NEW s \in Syncs, UpsertCheckpoint(s)
      PROVE  DataInv'
  <2>1. Leaves(s)
    BY <1>6, NextLeaves DEF UpsertCheckpoint
  <2>2. CASE UNCHANGED <<checkpoint, dropped, passed, overtaken>>
    BY <1>6, <2>1, <2>2, LeavingKeeps DEF UpsertCheckpoint, runtimeVars, historyVars, Told
  <2>3. ASSUME NEW k \in current[s], WriteCheckpoint(s, k),
               dropped' = [dropped EXCEPT ![k] = @ + Delta(s, k)]
        PROVE  DataInv'
    BY <1>6, <2>1, <2>3, WriteKeeps DEF UpsertCheckpoint, runtimeVars
  <2> QED BY <1>6, <2>2, <2>3 DEF UpsertCheckpoint
<1> QED BY <1>1, <1>2, <1>3, <1>4, <1>5, <1>6, RuntimeKeeps, ReadKeeps, ReportKeeps, TakeKeeps
        DEF Next, SyncStep

LEMMA InvariantHolds == Spec => []IInv
<1>1. IInv /\ [Next]_vars => IInv'
  BY TypeStep, WalletStep, DataStep DEF IInv, DataInv
<1> QED BY <1>1, InitInv, PTL DEF Spec

\* The types of a sync, and a balance that is never negative.
THEOREM TypeCorrect == Spec => []TypeOK
<1>1. IInv => TypeOK
  BY DEF IInv
<1> QED BY <1>1, InvariantHolds, PTL

\* The ledger explains the balance, whatever syncs post.
THEOREM LedgerIsComplete == Spec => []LedgerExplainsBalance
<1>1. IInv => LedgerExplainsBalance
  BY DEF IInv
<1> QED BY <1>1, InvariantHolds, PTL

\* No usage is billed twice but by a sync that was overtaken at the session,
\* or that took a failed query for "no checkpoints".
THEOREM UsageBilledOnce == Spec => []UsageIsBilledOnce
<1>1. IInv => UsageIsBilledOnce
  <2> SUFFICES ASSUME IInv, NEW k \in Keys, ~Excused(k) PROVE billed[k] <= used[k]
    BY DEF UsageIsBilledOnce, Excused, IInv, TypeOK, Totals
  <2> QED BY DEF IInv, BillInv
<1> QED BY <1>1, InvariantHolds, PTL

\* Under the same exceptions, and while the window stands, all the checkpoint
\* stands for was billed, or dropped in rounding.
THEOREM CheckpointAccounted == Spec => []CheckpointIsAccounted
<1>1. IInv => CheckpointIsAccounted
  BY DEF IInv, BillInv, CheckpointIsAccounted, Excused
<1> QED BY <1>1, InvariantHolds, PTL

\* A checkpoint goes back only with the window, or by a sync that was overtaken.
THEOREM CheckpointsAdvance == Spec => CheckpointAdvances
<1>1. IInv /\ [Next]_vars =>
        [\A k \in Keys :
            checkpoint'[k] < checkpoint[k] => k \in slid \/ k \in overtaken']_vars
  <2> SUFFICES ASSUME IInv, [Next]_vars, NEW k \in Keys,
                      checkpoint'[k] < checkpoint[k], k \notin slid
               PROVE  k \in overtaken'
    OBVIOUS
  <2>1. checkpoint[k] \in Nat
    BY DEF IInv, TypeOK, Totals
  <2>2. PICK s \in Syncs : \E j \in current[s] :
            WriteCheckpoint(s, j) /\ pc[s] \in {"charge", "upsert"}
    BY <2>1 DEF Next, vars, SyncStep, Use, SlideWindow, EndTrial, ReadState, GetSessionsUsage,
                TakeSession, FinishSync, AssertCanSpend, RecordUsageCharge, ChargeFails,
                UpsertCheckpoint, Die
  <2>3. PICK j \in current[s] : WriteCheckpoint(s, j)
    BY <2>2
  <2>4. j = k /\ checkpoint'[k] = reported[s][k]
    BY <2>1, <2>3 DEF IInv, TypeOK, Totals, WriteCheckpoint
  <2>5. k \in passed[s]
    <3>1. reported[s][k] \in Nat
      BY DEF IInv, TypeOK, Totals
    <3> QED BY <2>1, <2>2, <2>4, <3>1 DEF IInv, WindowInv, Told
  <2> QED BY <2>3, <2>4, <2>5 DEF WriteCheckpoint
<1> QED BY <1>1, InvariantHolds, PTL DEF Spec, CheckpointAdvances

\* While a trial lasts nothing is debited, unless a failed query hid it.
THEOREM TrialUsageIsFree == Spec => TrialsAreFree
<1>1. IInv /\ [Next]_vars =>
        [trial /\ "orgs" \notin misread => balance' = balance]_vars
  <2> SUFFICES ASSUME IInv, [Next]_vars, trial, "orgs" \notin misread
               PROVE  balance' = balance
    OBVIOUS
  <2>1. CASE UNCHANGED walletVars
    BY <2>1 DEF walletVars
  <2>2. ASSUME NEW s \in Syncs, RecordUsageCharge(s)
        PROVE  balance' = balance
    <3>1. PICK k \in current[s] : Post(Org, "debit", Amount(s, k))
      BY <2>2 DEF RecordUsageCharge
    <3>2. absorbs[s]
      BY <2>2 DEF IInv, TrialInv, RecordUsageCharge
    <3>3. Amount(s, k) = 0
      BY <3>2 DEF Amount
    <3>4. balance \in [Orgs -> Nat]
      BY DEF IInv, TypeOK, WalletTypeOK
    <3> QED BY <3>1, <3>3, <3>4 DEF Post, NextBalance
  <2>3. Next => UNCHANGED walletVars \/ \E s \in Syncs : RecordUsageCharge(s)
    BY DEF Next, Use, SlideWindow, EndTrial, ReadState, SyncStep, GetSessionsUsage,
           TakeSession, FinishSync, AssertCanSpend, ChargeFails, UpsertCheckpoint, Die
  <2> QED BY <2>1, <2>2, <2>3 DEF vars
<1> QED BY <1>1, InvariantHolds, PTL DEF Spec, TrialsAreFree

=============================================================================
