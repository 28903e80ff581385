---------------------------- MODULE EmailDelivery ----------------------------
(***************************************************************************)
(* Lifecycle e-mail to one member (src/lib/email/client.ts, service.ts,    *)
(* preferences.ts).  Cron sweeps, sign-ins and provisioning run batches of *)
(* messages.  A message is reserved in email_events under its dedupe key,  *)
(* posted to Resend and recorded; the member meanwhile changes what he     *)
(* wants to receive, by unsubscribe links and on the settings page.        *)
(*                                                                         *)
(* Every member, organisation and week has keys of its own, so one member  *)
(* in one week stands for all.  Left out: the rendering of messages, the   *)
(* numbers of a digest, and the audience query, which names the member in  *)
(* every sweep as long as he is among its newest 100 or 200.               *)
(***************************************************************************)
EXTENDS Naturals, Sequences, FiniteSets

CONSTANTS
    Workers,    \* concurrent executions of sweeps and other senders
    Editors,    \* tabs in which the member opens a link or the settings
    Kinds,      \* the batches that are run
    Role,       \* org_members.role of the member
    MaxDays,    \* bound: the age the membership reaches
    MaxFaults   \* bound: failed awaits, lost answers and deaths

Batch == [ session     |-> <<"welcome-1">>,
           lifecycle   |-> <<"welcome-2", "welcome-3">>,
           weekly      |-> <<"weekly-digest", "owner-use-cases">>,
           adminDigest |-> <<"admin-workspace-digest">>,
           usage       |-> <<"usage-alert">>,
           agent       |-> <<"agent-introduction">> ]

ASSUME EmailAssumption ==
    /\ Kinds \subseteq DOMAIN Batch
    /\ Role \in {"owner", "admin", "member"}
    /\ {MaxDays, MaxFaults} \subseteq Nat

MessagesOf(k) == {Batch[k][i] : i \in DOMAIN Batch[k]}
Messages == UNION {MessagesOf(k) : k \in Kinds}
Preferences == {"marketing", "weekly", "welcome"}

VARIABLES
    preferences,  \* email_preferences: the options that are on
    event,        \* event[m]: status of the email_events row of m, or "none"
    inbox,        \* inbox[m]: copies of m that Resend accepted
    days,         \* age of the membership
    pc,           \* pc[w]: where worker w is
    kind,         \* kind[w]: its batch, as a set
    left,         \* left[w]: messages it still handles, the current one first
    page,         \* page[e]: the options tab e loaded, as a set of sets
    doubtful,     \* history: messages handled side by side or not recorded
    toldOff,      \* history: options the member was told are off
    crossed,      \* history: tabs open while another one wrote
    clobbered,    \* history: options a crossed tab wrote back
    off,          \* history: off[w], options told to be off since w began
    blind,        \* history: workers that could not read the options
    faults        \* history: how many faults happened

memberVars == <<preferences, page, toldOff, crossed, clobbered>>
mailVars == <<event, inbox, doubtful>>
workerVars == <<pc, kind, left, off, blind>>
vars == <<memberVars, mailVars, days, workerVars, faults>>

\* Mutant: the weekly sweep looks at the weekly option only.
NeedsWeeklyOnly(k) ==
    CASE k \in {"session", "lifecycle"} -> {"welcome"}
      [] k = "weekly" -> {"weekly"}
      [] OTHER -> {}

\* The options a batch asks for.  Digests for administrators, alerts and
\* introductions do not look at the preferences.
Needs(k) ==
    CASE k \in {"session", "lifecycle"} -> {"welcome"}
      [] k = "weekly" -> {"weekly", "marketing"}
      [] OTHER -> {}

\* The option that the link at the end of a message turns off.
UnsubscribesFrom(m) ==
    CASE m \in {"welcome-2", "welcome-3"} -> {"welcome"}
      [] m = "weekly-digest" -> {"weekly"}
      [] m = "owner-use-cases" -> {"marketing"}
      [] OTHER -> {}

\* The messages of a batch that are for this member on this day.
Due(k) ==
    IF k = "lifecycle" /\ days < 1 THEN <<>>
    ELSE IF k = "lifecycle" /\ days < 4 THEN <<"welcome-2">>
    ELSE IF k = "weekly" /\ Role = "member" THEN <<"weekly-digest">>
    ELSE IF k \in {"adminDigest", "usage"} /\ Role = "member" THEN <<>>
    ELSE Batch[k]

Init ==
    /\ preferences = Preferences
    /\ event = [m \in Messages |-> "none"]
    /\ inbox = [m \in Messages |-> 0]
    /\ days = 0
    /\ pc = [w \in Workers |-> "idle"]
    /\ kind = [w \in Workers |-> {}]
    /\ left = [w \in Workers |-> <<>>]
    /\ page = [e \in Editors |-> {}]
    /\ doubtful = {}
    /\ toldOff = {}
    /\ crossed = {}
    /\ clobbered = {}
    /\ off = [w \in Workers |-> {}]
    /\ blind = {}
    /\ faults = 0

-----------------------------------------------------------------------------

Fault == faults < MaxFaults /\ faults' = faults + 1

GoTo(w, label) ==
    /\ pc' = [pc EXCEPT ![w] = label]
    /\ UNCHANGED <<kind, left, off, blind>>

\* Mutant: the end of a batch is not noticed.
GoOnForever(w, ms) ==
    /\ pc' = [pc EXCEPT ![w] = "select"]
    /\ left' = [left EXCEPT ![w] = ms]
    /\ UNCHANGED <<kind, off, blind>>

\* The batch goes on with ms; the code catches what a message throws.
GoOn(w, ms) ==
    IF ms = <<>>
      THEN /\ pc' = [pc EXCEPT ![w] = "idle"]
           /\ kind' = [kind EXCEPT ![w] = {}]
           /\ left' = [left EXCEPT ![w] = <<>>]
           /\ off' = [off EXCEPT ![w] = {}]
           /\ blind' = blind \ {w}
      ELSE /\ pc' = [pc EXCEPT ![w] = "select"]
           /\ left' = [left EXCEPT ![w] = ms]
           /\ UNCHANGED <<kind, off, blind>>

NextMessage(w) == GoOn(w, Tail(left[w]))

Message(w) == Head(left[w])

\* Another worker has decided to post m and has not finished with it.
InFlight(w, m) ==
    \E v \in Workers \ {w} :
        pc[v] \in {"post", "sent", "failed"} /\ Message(v) = m

-----------------------------------------------------------------------------
(* Batches.                                                                 *)

\* Only a batch that needs an option reads the preferences.  An organisation
\* without a digest or an alert has nothing to send.
StartBatch(w, k) ==
    /\ pc[w] = "idle"
    /\ Due(k) # <<>>
    /\ pc' = [pc EXCEPT ![w] = IF Needs(k) = {} THEN "select" ELSE "preferences"]
    /\ kind' = [kind EXCEPT ![w] = {k}]
    /\ left' = [left EXCEPT ![w] = Due(k)]
    /\ off' = [off EXCEPT ![w] = toldOff \ clobbered]
    /\ UNCHANGED <<memberVars, mailVars, days, blind, faults>>

\* getEmailPreferences, once for the whole batch.  Its null after an error
\* counts as consent.
ReadPreferences(w) ==
    /\ pc[w] = "preferences"
    /\ \/ /\ \E k \in kind[w] :
                GoOn(w, IF Needs(k) \subseteq preferences THEN left[w] ELSE <<>>)
          /\ UNCHANGED faults
       \/ /\ Fault
          /\ blind' = blind \cup {w}
          /\ pc' = [pc EXCEPT ![w] = "select"]
          /\ UNCHANGED <<kind, left, off>>
    /\ UNCHANGED <<memberVars, mailVars, days>>

-----------------------------------------------------------------------------
(* sendTemplatedEmail                                                       *)

\* Mutant: any row under the key ends the matter.
SelectEventAnyStatus(w) ==
    /\ pc[w] = "select"
    /\ IF event[Message(w)] = "none" THEN GoTo(w, "insert") ELSE NextMessage(w)
    /\ UNCHANGED <<memberVars, mailVars, days, faults>>

\* The row under the dedupe key: "sent" ends the matter, any other status is
\* posted again.  A failed query looks like no row.
SelectEvent(w) ==
    /\ pc[w] = "select"
    /\ \/ /\ event[Message(w)] = "none"
          /\ GoTo(w, "insert")
          /\ UNCHANGED <<doubtful, faults>>
       \/ /\ event[Message(w)] = "sent"
          /\ NextMessage(w)
          /\ UNCHANGED <<doubtful, faults>>
       \/ /\ event[Message(w)] \in {"queued", "failed"}
          /\ GoTo(w, "post")
          /\ doubtful' = IF InFlight(w, Message(w))
                           THEN doubtful \cup {Message(w)} ELSE doubtful
          /\ UNCHANGED faults
       \/ Fault /\ GoTo(w, "insert") /\ UNCHANGED doubtful
    /\ UNCHANGED <<memberVars, event, inbox, days>>

\* Mutant: dedupe_key is not unique.
InsertEventNotUnique(w) ==
    /\ pc[w] = "insert"
    /\ event' = [event EXCEPT ![Message(w)] = "queued"]
    /\ GoTo(w, "post")
    /\ UNCHANGED <<memberVars, inbox, doubtful, days, faults>>

\* dedupe_key is unique: of two inserts one throws.
InsertEvent(w) ==
    /\ pc[w] = "insert"
    /\ \/ /\ event[Message(w)] = "none"
          /\ event' = [event EXCEPT ![Message(w)] = "queued"]
          /\ \/ GoTo(w, "post") /\ UNCHANGED faults
             \/ Fault /\ NextMessage(w)
       \/ /\ event[Message(w)] # "none"
          /\ NextMessage(w)
          /\ UNCHANGED <<event, faults>>
       \/ Fault /\ NextMessage(w) /\ UNCHANGED event
    /\ UNCHANGED <<memberVars, inbox, doubtful, days>>

\* Resend takes the message.  When its answer is lost, or is no JSON, the
\* call throws and the row stays as it is.
PostAccepted(w) ==
    /\ pc[w] = "post"
    /\ inbox' = [inbox EXCEPT ![Message(w)] = @ + 1]
    /\ \/ /\ GoTo(w, "sent")
          /\ UNCHANGED <<doubtful, faults>>
       \/ /\ Fault
          /\ NextMessage(w)
          /\ doubtful' = doubtful \cup {Message(w)}
    /\ UNCHANGED <<memberVars, event, days>>

\* Resend is not configured, refuses, or cannot be reached.
PostRefused(w) ==
    /\ pc[w] = "post"
    /\ Fault
    /\ GoTo(w, "failed") \/ NextMessage(w)
    /\ UNCHANGED <<memberVars, mailVars, days>>

\* Mutant: a refused message is recorded like an accepted one.
RecordSent(w) ==
    /\ pc[w] \in {"sent", "failed"}
    /\ event' = [event EXCEPT ![Message(w)] = "sent"]
    /\ NextMessage(w)
    /\ UNCHANGED <<memberVars, inbox, doubtful, days, faults>>

\* updateEmailEvent, whose error nobody looks at.
RecordEvent(w) ==
    /\ pc[w] \in {"sent", "failed"}
    /\ NextMessage(w)
    /\ \/ /\ event' = [event EXCEPT ![Message(w)] = pc[w]]
          /\ UNCHANGED <<doubtful, faults>>
       \/ /\ Fault
          /\ doubtful' = IF pc[w] = "sent" THEN doubtful \cup {Message(w)} ELSE doubtful
          /\ UNCHANGED event
    /\ UNCHANGED <<memberVars, inbox, days>>

\* The process dies or runs into its time limit.  At the start of a batch
\* this is also an account that could not be looked up.
Die(w) ==
    /\ pc[w] # "idle"
    /\ Fault
    /\ GoOn(w, <<>>)
    /\ doubtful' = IF pc[w] = "sent" THEN doubtful \cup {Message(w)} ELSE doubtful
    /\ UNCHANGED <<memberVars, event, inbox, days>>

-----------------------------------------------------------------------------
(* The member.                                                              *)

\* One day; a sweep tells the first day, the next three and the rest apart.
GrowOlder ==
    /\ days < MaxDays
    /\ days' = days + 1
    /\ UNCHANGED <<memberVars, mailVars, workerVars, faults>>

\* getEmailPreferences, for an unsubscribe link or for the settings page.  A
\* tab that never writes, because it is closed or a query fails, is left so.
LoadPreferences(e) ==
    /\ page' = [page EXCEPT ![e] = {preferences}]
    /\ crossed' = crossed \ {e}
    /\ UNCHANGED <<preferences, toldOff, clobbered, mailVars, days, workerVars, faults>>

\* updateEmailPreferences writes the whole row: all three options are given
\* by both callers, so what it reads before is not used.  The member asked
\* for the options in on and against those in against.
WritePreferences(e, row, on, against) ==
    /\ preferences' = row
    /\ page' = [page EXCEPT ![e] = {}]
    /\ crossed' = {f \in Editors \ {e} : page[f] # {}}
    /\ clobbered' = (IF e \in crossed THEN clobbered \cup (row \ on) ELSE clobbered)
                      \ against
    /\ \/ /\ toldOff' = (toldOff \ on) \cup against
          /\ UNCHANGED faults
       \/ Fault /\ toldOff' = toldOff \ on
    /\ off' = [w \in Workers |-> off[w] \ row]
    /\ UNCHANGED <<mailVars, days, pc, kind, left, blind>>

\* Mutant: the other options are set to their defaults.
UnsubscribeToDefaults(e) ==
    \E seen \in page[e] : \E p \in Preferences :
        WritePreferences(e, Preferences \ {p}, {}, {p})

\* applyEmailUnsubscribeToken
Unsubscribe(e) ==
    \E seen \in page[e] : \E p \in Preferences :
        WritePreferences(e, seen \ {p}, {}, {p})

\* The settings page sends all three options as the member left them.
SavePreferences(e) ==
    \E seen \in page[e] : \E row \in SUBSET Preferences :
        WritePreferences(e, row, row \ seen, seen \ row)

-----------------------------------------------------------------------------

WorkerStep(w) ==
    \/ ReadPreferences(w) \/ SelectEvent(w) \/ InsertEvent(w)
    \/ PostAccepted(w) \/ PostRefused(w) \/ RecordEvent(w)

Next ==
    \/ GrowOlder
    \/ \E w \in Workers :
          WorkerStep(w) \/ Die(w) \/ \E k \in Kinds : StartBatch(w, k)
    \/ \E e \in Editors :
          LoadPreferences(e) \/ Unsubscribe(e) \/ SavePreferences(e)

Spec == Init /\ [][Next]_vars

\* A running worker goes on, the member grows older, and cron starts the
\* lifecycle sweep again and again whatever else runs.
Fairness ==
    /\ WF_vars(GrowOlder)
    /\ \A w \in Workers : WF_vars(WorkerStep(w))
    /\ SF_vars(\E w \in Workers : StartBatch(w, "lifecycle"))

FairSpec == Spec /\ Fairness

-----------------------------------------------------------------------------

TypeOK ==
    /\ preferences \subseteq Preferences
    /\ event \in [Messages -> {"none", "queued", "sent", "failed"}]
    /\ inbox \in [Messages -> Nat]
    /\ days \in 0..MaxDays
    /\ pc \in [Workers -> {"idle", "preferences", "select", "insert", "post",
                           "sent", "failed"}]
    /\ kind \in [Workers -> SUBSET Kinds]
    /\ left \in [Workers -> Seq(Messages)]
    /\ \A w \in Workers :
          /\ pc[w] = "idle" <=> left[w] = <<>>
          /\ pc[w] = "idle" <=> kind[w] = {}
          /\ Cardinality(kind[w]) <= 1
    /\ page \in [Editors -> SUBSET SUBSET Preferences]
    /\ \A e \in Editors : Cardinality(page[e]) <= 1
    /\ doubtful \subseteq Messages
    /\ toldOff \subseteq Preferences /\ clobbered \subseteq Preferences
    /\ crossed \subseteq Editors
    /\ off \in [Workers -> SUBSET Preferences]
    /\ blind \subseteq Workers
    /\ faults \in 0..MaxFaults

\* A member gets a message a second time only when two workers had it in hand at
\* the same time, or when one posted it and could not record it.  Overlapping
\* sweeps, failed queries and refusals by themselves do not send it twice.
SecondCopyHasCause ==
    \A m \in Messages : inbox[m] > 1 => m \in doubtful

\* The status of a row is true once nobody works on the message: "sent" means
\* that Resend has it, anything else that it has not, with the same causes
\* for doubt.  A late "failed" over a "sent" is one of them.
StatusIsTrue ==
    \A m \in Messages :
        /\ event[m] = "sent" => inbox[m] > 0
        /\ inbox[m] > 0 /\ event[m] # "sent" =>
              \/ m \in doubtful
              \/ \E w \in Workers : pc[w] = "sent" /\ Message(w) = m

\* An option the member turned off, and was told so, stays off until he turns
\* it on; only a tab that was open while another one wrote undoes it.
OptOutsHold == toldOff \cap preferences \subseteq clobbered

\* The link in a message works: once the member was told that the option is
\* off, and while no other tab undoes that, no batch begun afterwards posts
\* him the message it came with, unless it could not read the preferences.
OptedOutGetNothing ==
    [][\A w \in Workers :
          inbox' # inbox /\ pc'[w] # pc[w] =>
              w \in blind \/ UnsubscribesFrom(Message(w)) \cap off[w] = {}]_vars

\* A member who keeps the welcome series on gets all of it, whatever failed
\* on the way: a row left "queued" or "failed" is posted by a later sweep.
WelcomeSeriesArrives ==
    \A m \in MessagesOf("lifecycle") :
        <>(inbox[m] > 0 \/ "welcome" \notin preferences)

=============================================================================
