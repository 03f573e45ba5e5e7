----------------------------- MODULE TeamPool ------------------------------
(***************************************************************************)
(* The extra-usage pool of one organisation (convex/teamExtraUsage.ts):    *)
(* members draw on a shared balance within a monthly cap of the team and   *)
(* one of their own, and failed requests give back what they drew, maybe   *)
(* in a later month.  Every mutation is one serialisable step; the reply   *)
(* of a draw may be lost.  A missing row reads as a row of zeros.          *)
(***************************************************************************)
EXTENDS Integers

CONSTANTS
    Members,
    Requests,           \* draws on the pool, by requests of the members
    Owner,              \* the member who makes each request
    Amounts,            \* points a request may draw
    Caps,               \* monthly caps the admin may set
    NoCap,              \* no cap (undefined)
    InitialBalance,
    Keys,               \* idempotency keys of credit purchases
    Credit,             \* points of one purchase
    MaxMonth            \* bound: the last calendar month of a behaviour

ASSUME PoolAssumption ==
    /\ Owner \in [Requests -> Members]
    /\ Amounts \subseteq Nat \ {0}
    /\ NoCap \notin Nat
    /\ Caps \subseteq Nat \cup {NoCap}
    /\ InitialBalance \in Nat
    /\ Credit \in Nat
    /\ MaxMonth \in Nat

VARIABLES
    month,              \* the calendar month, of the database's clock
    balance,            \* team_extra_usage.balance_points
    enabled,            \*   .enabled
    teamCap,            \*   .monthly_cap_points
    teamSpent,          \*   .monthly_spent_points
    teamReset,          \*   .monthly_reset_date; -1: never set
    disabled,           \* team_member_usage.disabled
    memberCap,          \*   .monthly_limit_points
    spent,              \*   .monthly_spent_points
    spentReset,         \*   .monthly_reset_date; -1: never set
    sessions,           \* processed_checkout_sessions
    webhooks,           \* processed_webhooks
    pc,                 \* where each request stands
    amount,             \* what it draws
    drawnIn,            \* the month of its draw
    teamDrawn,          \* history: points drawn this month
    net,                \* history: this month's draws of a member, less the
                        \*   refunds of those draws
    late,               \* history: refunds, this month, of earlier draws
    credited            \* history: how often each key has been credited

teamVars   == <<balance, enabled, teamCap, teamSpent, teamReset>>
memberVars == <<disabled, memberCap, spent, spentReset>>
creditVars == <<sessions, webhooks, credited>>
drawVars   == <<pc, amount, drawnIn>>
histVars   == <<teamDrawn, net, late>>
poolVars   == <<month, teamVars, memberVars, creditVars, drawVars, histVars>>

Init ==
    /\ month = 0
    /\ balance = InitialBalance
    /\ enabled \in BOOLEAN
    /\ teamCap \in Caps
    /\ teamSpent = 0
    /\ teamReset = -1
    /\ disabled = [m \in Members |-> FALSE]
    /\ memberCap \in [Members -> Caps]
    /\ spent = [m \in Members |-> 0]
    /\ spentReset = [m \in Members |-> -1]
    /\ sessions = {}
    /\ webhooks = {}
    /\ pc = [r \in Requests |-> "ready"]
    /\ amount = [r \in Requests |-> 0]
    /\ drawnIn = [r \in Requests |-> 0]
    /\ teamDrawn = 0
    /\ net = [m \in Members |-> 0]
    /\ late = [m \in Members |-> 0]
    /\ credited = [k \in Keys |-> 0]

Goto(r, label) == pc' = [pc EXCEPT ![r] = label]

-----------------------------------------------------------------------------
(* deductTeamPoints *)

\* Counters of an earlier month count as zero.
TeamSpentNow == IF teamReset = month THEN teamSpent ELSE 0
MemberSpentNow(m) == IF spentReset[m] = month THEN spent[m] ELSE 0

\* Mutant of WithinTeamCap: what is about to be drawn is not counted.
WithinTeamCapPast(n) == teamCap # NoCap => TeamSpentNow <= teamCap

WithinTeamCap(n) == teamCap # NoCap => TeamSpentNow + n <= teamCap

WithinMemberCap(m, n) ==
    memberCap[m] # NoCap => MemberSpentNow(m) + n <= memberCap[m]

CanDraw(m, n) ==
    /\ enabled
    /\ ~disabled[m]
    /\ WithinTeamCap(n)
    /\ WithinMemberCap(m, n)
    /\ n <= balance

Draw(r, n) ==
    LET m == Owner[r]
    IN  /\ CanDraw(m, n)
        /\ balance' = balance - n
        /\ teamSpent' = TeamSpentNow + n
        /\ teamReset' = month
        /\ spent' = [spent EXCEPT ![m] = MemberSpentNow(m) + n]
        /\ spentReset' = [spentReset EXCEPT ![m] = month]
        /\ amount' = [amount EXCEPT ![r] = n]
        /\ drawnIn' = [drawnIn EXCEPT ![r] = month]
        /\ teamDrawn' = teamDrawn + n
        /\ net' = [net EXCEPT ![m] = @ + n]
        /\ UNCHANGED <<month, enabled, teamCap, disabled, memberCap,
                       creditVars, late>>

\* The mutation commits; when its reply is lost, deductFromTeamBalance reports
\* a failure, and nobody will refund the draw.
DeductTeamPoints(r) ==
    /\ pc[r] = "ready"
    /\ \E n \in Amounts : Draw(r, n)
    /\ Goto(r, "drawn") \/ Goto(r, "refused")

DeductRefused(r) ==
    /\ pc[r] = "ready"
    /\ \E n \in Amounts : ~CanDraw(Owner[r], n)
    /\ Goto(r, "refused")
    /\ UNCHANGED <<month, teamVars, memberVars, creditVars, amount, drawnIn,
                   histVars>>

-----------------------------------------------------------------------------
(* refundTeamPoints *)

\* Mutant of Less: a refund clears the member's counter.
LessAll(total, n) == 0

Less(total, n) == IF total >= n THEN total - n ELSE 0

\* The member's counter goes down whichever month it belongs to; the team's
\* counter does not.
RefundTeamPoints(r) ==
    LET m == Owner[r]
        n == amount[r]
    IN  /\ pc[r] = "drawn"
        /\ balance' = balance + n
        /\ spent' = [spent EXCEPT ![m] = Less(@, n)]
        /\ IF drawnIn[r] = month
           THEN net' = [net EXCEPT ![m] = @ - n] /\ UNCHANGED late
           ELSE late' = [late EXCEPT ![m] = @ + n] /\ UNCHANGED net
        /\ Goto(r, "refunded")
        /\ UNCHANGED <<month, enabled, teamCap, teamSpent, teamReset,
                       disabled, memberCap, spentReset, creditVars, amount,
                       drawnIn, teamDrawn>>

\* The request succeeded, or its refund failed.
Keep(r) ==
    /\ pc[r] = "drawn"
    /\ Goto(r, "kept")
    /\ UNCHANGED <<month, teamVars, memberVars, creditVars, amount, drawnIn,
                   histVars>>

-----------------------------------------------------------------------------
(* The admin, purchases and the clock *)

UpdateTeamExtraUsageSettings ==
    /\ \/ enabled' \in BOOLEAN /\ enabled' # enabled /\ UNCHANGED teamCap
       \/ teamCap' \in Caps /\ teamCap' # teamCap /\ UNCHANGED enabled
    /\ UNCHANGED <<month, balance, teamSpent, teamReset, memberVars,
                   creditVars, drawVars, histVars>>

UpdateTeamMemberUsage(m) ==
    /\ \/ /\ \E b \in BOOLEAN : disabled' = [disabled EXCEPT ![m] = b]
          /\ disabled' # disabled
          /\ UNCHANGED memberCap
       \/ /\ \E c \in Caps : memberCap' = [memberCap EXCEPT ![m] = c]
          /\ memberCap' # memberCap
          /\ UNCHANGED disabled
    /\ UNCHANGED <<month, teamVars, spent, spentReset, creditVars, drawVars,
                   histVars>>

\* Mutant of Processed: only the table that is purged is looked up.
ProcessedRecently(k) == k \in webhooks

Processed(k) == k \in sessions \/ k \in webhooks

AddTeamCredits(k) ==
    /\ ~Processed(k)
    /\ balance' = balance + Credit
    /\ sessions' = sessions \cup {k}
    /\ webhooks' = webhooks \cup {k}
    /\ credited' = [credited EXCEPT ![k] = @ + 1]
    /\ UNCHANGED <<month, enabled, teamCap, teamSpent, teamReset, memberVars,
                   drawVars, histVars>>

\* The daily purge of processed_webhooks.
PurgeWebhooks ==
    /\ webhooks # {}
    /\ webhooks' \in SUBSET webhooks \ {webhooks}
    /\ UNCHANGED <<month, teamVars, memberVars, sessions, credited, drawVars,
                   histVars>>

NextMonth ==
    /\ month < MaxMonth
    /\ month' = month + 1
    /\ teamDrawn' = 0
    /\ net' = [m \in Members |-> 0]
    /\ late' = [m \in Members |-> 0]
    /\ UNCHANGED <<teamVars, memberVars, creditVars, drawVars>>

RequestStep(r) ==
    DeductTeamPoints(r) \/ DeductRefused(r) \/ RefundTeamPoints(r) \/ Keep(r)

\* Nothing need happen once every request is over.
AllDone ==
    /\ \A r \in Requests : pc[r] \in {"refused", "refunded", "kept"}
    /\ UNCHANGED poolVars

Next ==
    \/ \E r \in Requests : RequestStep(r)
    \/ UpdateTeamExtraUsageSettings
    \/ \E m \in Members : UpdateTeamMemberUsage(m)
    \/ \E k \in Keys : AddTeamCredits(k)
    \/ PurgeWebhooks \/ NextMonth \/ AllDone

Spec == Init /\ [][Next]_poolVars

-----------------------------------------------------------------------------
(* Properties *)

Months == -1..MaxMonth

TypeOK ==
    /\ month \in 0..MaxMonth
    /\ balance \in Nat
    /\ enabled \in BOOLEAN
    /\ teamCap \in Nat \cup {NoCap}
    /\ teamSpent \in Nat
    /\ teamReset \in Months
    /\ disabled \in [Members -> BOOLEAN]
    /\ memberCap \in [Members -> Nat \cup {NoCap}]
    /\ spent \in [Members -> Nat]
    /\ spentReset \in [Members -> Months]
    /\ sessions \in SUBSET Keys
    /\ webhooks \in SUBSET Keys
    /\ pc \in [Requests -> {"ready", "drawn", "refused", "refunded", "kept"}]
    /\ amount \in [Requests -> Nat]
    /\ drawnIn \in [Requests -> 0..MaxMonth]
    /\ teamDrawn \in Nat
    /\ net \in [Members -> Int]
    /\ late \in [Members -> Nat]
    /\ credited \in [Keys -> Nat]

\* No draw takes the team above the cap in force, refunds notwithstanding,
\* across month boundaries and stale counters (deductTeamPoints: "team's
\* monthly cap").
TeamCapBinds ==
    [][teamDrawn' > teamDrawn /\ teamCap # NoCap
         => teamDrawn' <= teamCap]_poolVars

\* No draw takes a member above its own cap by more than the refunds, in the
\* same month, of draws of earlier months (deductTeamPoints, "member's
\* per-member cap", and refundTeamPoints, which frees it up again).
MemberCapBinds ==
    [][\A m \in Members :
          net'[m] > net[m] /\ memberCap[m] # NoCap
            => net'[m] <= memberCap[m] + late[m]]_poolVars

\* A purchase that is confirmed again, by the webhook or by the page the user
\* returns to, is credited once, however long after (addTeamCredits).
CreditedOnce == \A k \in Keys : credited[k] <= 1

=============================================================================
