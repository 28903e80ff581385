---------------------------- MODULE WalletLedger ----------------------------
(***************************************************************************)
(* What the prepaid wallet promises the rest of the control plane: every   *)
(* organisation has a balance and a ledger, and the only thing that ever   *)
(* happens to them is that one posting moves the balance and appends the   *)
(* ledger row that explains it, together.  The state is the two tables     *)
(* org_wallets and wallet_ledger (supabase/migrations/00002), the one      *)
(* operation is app_private.mutate_wallet seen from outside.               *)
(*                                                                         *)
(* WalletTransactions shows that the transactions the code runs implement  *)
(* this, StripeWebhook and InviteLifecycle use Post as a single step.      *)
(***************************************************************************)
EXTENDS Integers, Sequences

CONSTANTS
    Orgs,      \* organisations that own a wallet
    Amounts    \* the amounts, in cents, callers post

ASSUME AmountsAssumption == Amounts \subseteq Nat

VARIABLES
    balance,   \* balance[o]: org_wallets.balance_cents
    ledger     \* ledger[o]: o's rows of wallet_ledger, oldest first

walletVars == <<balance, ledger>>

Directions == {"credit", "debit"}

LedgerRow == [direction : Directions, amount : Nat, after : Nat]

\* Mutant: the two directions are swapped.
NextBalanceSwapped(b, direction, amount) ==
    IF direction = "debit" THEN b + amount ELSE b - amount

NextBalance(b, direction, amount) ==
    IF direction = "credit" THEN b + amount ELSE b - amount

\* Mutant: the check on the debit is left to assertCanSpend.
AcceptsOverdraft(b, direction, amount) == amount >= 0

\* The two exceptions mutate_wallet raises: a negative amount, and a debit
\* the balance cannot carry.  A credit is never refused for the balance.
Accepts(b, direction, amount) ==
    /\ amount >= 0
    /\ direction = "debit" => NextBalance(b, direction, amount) >= 0

Row(b, direction, amount) ==
    [ direction |-> direction,
      amount    |-> amount,
      after     |-> NextBalance(b, direction, amount) ]

WalletInit ==
    /\ balance = [o \in Orgs |-> 0]
    /\ ledger = [o \in Orgs |-> <<>>]

Post(o, direction, amount) ==
    /\ Accepts(balance[o], direction, amount)
    /\ balance' = [balance EXCEPT ![o] = NextBalance(@, direction, amount)]
    /\ ledger' = [ledger EXCEPT
                    ![o] = Append(@, Row(balance[o], direction, amount))]

WalletNext ==
    \E o \in Orgs, direction \in Directions, amount \in Amounts :
        Post(o, direction, amount)

WalletSpec == WalletInit /\ [][WalletNext]_walletVars

-----------------------------------------------------------------------------

WalletTypeOK ==
    /\ balance \in [Orgs -> Nat]
    /\ ledger \in [Orgs -> Seq(LedgerRow)]

\* The balance the ledger tells of after its first n rows.
BalanceAfter(rows, n) == IF n = 0 THEN 0 ELSE rows[n].after

\* The ledger is a complete account of the balance: every row starts where
\* the row before it ended, and the last row ends at the balance on the
\* wallet.  A lost update, a posting without its row or a row of a posting
\* that was rolled back breaks the chain.
LedgerExplainsBalance ==
    \A o \in Orgs :
        /\ balance[o] = BalanceAfter(ledger[o], Len(ledger[o]))
        /\ \A i \in 1..Len(ledger[o]) :
              ledger[o][i].after =
                  NextBalance(BalanceAfter(ledger[o], i - 1),
                              ledger[o][i].direction, ledger[o][i].amount)

=============================================================================
