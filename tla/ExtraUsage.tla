----------------------------- MODULE ExtraUsage -----------------------------
(***************************************************************************)
(* One user's row of the Convex table extra_usage: the prepaid balance that *)
(* pays for usage beyond the subscription, and the monthly spending cap.   *)
(* Every mutation of convex/extraUsage.ts is a serialisable transaction,   *)
(* so each is one action.  A missing row reads as a row of zeros.          *)
(***************************************************************************)
EXTENDS Integers

CONSTANTS
    InitialBalance,     \* balance_points the user starts with
    NoCap,              \* monthly_cap_points = undefined (unlimited)
    MaxMonth            \* bound: the last calendar month of a behaviour

ASSUME ExtraUsageAssumption ==
    /\ InitialBalance \in Nat
    /\ MaxMonth \in Nat
    /\ NoCap \notin Nat

VARIABLES
    balance,            \* balance_points
    spent,              \* monthly_spent_points
    spentMonth,         \* monthly_reset_date: the month `spent` belongs to
    cap,                \* monthly_cap_points, or NoCap
    month,              \* the calendar month, of the database's clock
    drawn               \* history: points deducted in the current month

accountVars == <<balance, spent, spentMonth, cap, month, drawn>>

AccountInit(initialCap) ==
    /\ balance = InitialBalance
    /\ spent = 0
    /\ spentMonth = 0
    /\ cap = initialCap
    /\ month = 0
    /\ drawn = 0

AccountTypeOK ==
    /\ balance \in Nat
    /\ spent \in Nat
    /\ spentMonth \in 0..MaxMonth
    /\ cap \in Nat \cup {NoCap}
    /\ month \in 0..MaxMonth
    /\ drawn \in Nat

-----------------------------------------------------------------------------
\* A counter left by an earlier month counts as zero.
SpentThisMonth == IF spentMonth = month THEN spent ELSE 0

\* Mutant of WithinCap: what is about to be drawn is not counted.
CapSeesPastOnly(points) == cap # NoCap => SpentThisMonth <= cap

WithinCap(points) == cap # NoCap => SpentThisMonth + points <= cap

CanDeduct(points) == points <= balance /\ WithinCap(points)

\* deductPoints, the branch that commits.
DeductPoints(points) ==
    /\ CanDeduct(points)
    /\ balance' = balance - points
    /\ spent' = SpentThisMonth + points
    /\ spentMonth' = month
    /\ drawn' = drawn + points
    /\ UNCHANGED <<cap, month>>

\* refundPoints: the balance comes back, the month's spending does not.
RefundPoints(points) ==
    /\ balance' = balance + points
    /\ UNCHANGED <<spent, spentMonth, cap, month, drawn>>

\* addCredits / creditUserExtraUsage: a purchase or a referral reward.
AddPoints(points) ==
    /\ balance' = balance + points
    /\ UNCHANGED <<spent, spentMonth, cap, month, drawn>>

\* updateExtraUsageSettings, as far as the ledger sees it.
SetMonthlyCap(newCap) ==
    /\ cap' = newCap
    /\ UNCHANGED <<balance, spent, spentMonth, month, drawn>>

NextMonth ==
    /\ month < MaxMonth
    /\ month' = month + 1
    /\ drawn' = 0
    /\ UNCHANGED <<balance, spent, spentMonth, cap>>

-----------------------------------------------------------------------------
\* The monthly cap binds what is really drawn, across month boundaries and
\* stale counters: no deduction takes the month's draws above the cap in
\* force (deductPoints: "Check monthly spending cap before deducting").
CapBindsDraws ==
    [][drawn' > drawn /\ cap # NoCap => drawn' <= cap]_accountVars
=============================================================================
