-------------------------- MODULE WalletLedgerProofs --------------------------
(***************************************************************************)
(* Proofs about WalletLedger, for any number of organisations and any      *)
(* amounts.  PostKeepsWallet is what the modules that post use.            *)
(***************************************************************************)
EXTENDS WalletLedger, SequenceTheorems, TLAPS

WalletInv == WalletTypeOK /\ LedgerExplainsBalance

\* A posting that is accepted leaves a balance that is not negative.
LEMMA NextBalanceIsNat ==
    ASSUME NEW b \in Nat, NEW direction \in Directions, NEW amount \in Nat,
           Accepts(b, direction, amount)
    PROVE  NextBalance(b, direction, amount) \in Nat
BY DEF Directions, Accepts, NextBalance

\* The wallet starts with no balance and an empty ledger (ensureWallet).
LEMMA WalletInitInv == WalletInit => WalletInv
BY DEF WalletInit, WalletInv, WalletTypeOK, LedgerExplainsBalance, BalanceAfter

\* Whoever posts (mutate_wallet in one step) keeps both tables well formed
\* and the ledger a complete account of the balance.
LEMMA PostKeepsWallet ==
    ASSUME NEW o \in Orgs, NEW direction \in Directions, NEW amount \in Nat,
           WalletInv, Post(o, direction, amount)
    PROVE  WalletInv'
<1> DEFINE row == Row(balance[o], direction, amount)
<1>1. /\ balance \in [Orgs -> Nat]
      /\ ledger \in [Orgs -> Seq(LedgerRow)]
  BY DEF WalletInv, WalletTypeOK
<1>2. NextBalance(balance[o], direction, amount) \in Nat
  BY <1>1, NextBalanceIsNat DEF Post
<1>3. row \in LedgerRow
  BY <1>2 DEF Row, LedgerRow
<1>4. /\ balance' = [balance EXCEPT ![o] = row.after]
      /\ ledger' = [ledger EXCEPT ![o] = Append(ledger[o], row)]
  BY <1>1 DEF Post, Row
<1> HIDE DEF row
<1>5. WalletTypeOK'
  <2>1. balance' \in [Orgs -> Nat]
    BY <1>1, <1>3, <1>4 DEF LedgerRow
  <2>2. Append(ledger[o], row) \in Seq(LedgerRow)
    BY <1>1, <1>3
  <2> QED BY <1>1, <1>4, <2>1, <2>2 DEF WalletTypeOK
<1>6. LedgerExplainsBalance'
  <2> SUFFICES ASSUME NEW p \in Orgs
               PROVE  /\ balance'[p] = BalanceAfter(ledger'[p], Len(ledger'[p]))
                      /\ \A i \in 1..Len(ledger'[p]) :
                            ledger'[p][i].after =
                                NextBalance(BalanceAfter(ledger'[p], i - 1),
                                            ledger'[p][i].direction,
                                            ledger'[p][i].amount)
    BY DEF LedgerExplainsBalance
  <2>1. CASE p # o
    BY <1>1, <1>4, <2>1 DEF WalletInv, LedgerExplainsBalance
  <2>2. CASE p = o
    <3> DEFINE old == ledger[o]
               new == Append(old, row)
    <3>1. /\ old \in Seq(LedgerRow)
          /\ Len(old) \in Nat
          /\ Len(new) = Len(old) + 1
          /\ new[Len(old) + 1] = row
          /\ \A i \in 1..Len(old) : new[i] = old[i]
      BY <1>1, <1>3
    <3>2. /\ balance[o] = BalanceAfter(old, Len(old))
          /\ \A i \in 1..Len(old) :
                old[i].after = NextBalance(BalanceAfter(old, i - 1),
                                           old[i].direction, old[i].amount)
      BY DEF WalletInv, LedgerExplainsBalance
    <3>3. ledger'[o] = new /\ balance'[o] = row.after
      BY <1>1, <1>4
    <3> HIDE DEF old, new
    <3>4. \A n \in 0..Len(old) : BalanceAfter(new, n) = BalanceAfter(old, n)
      BY <3>1 DEF BalanceAfter
    <3>5. balance'[o] = BalanceAfter(new, Len(new))
      BY <3>1, <3>3 DEF BalanceAfter
    <3>6. ASSUME NEW i \in 1..Len(new)
          PROVE  new[i].after = NextBalance(BalanceAfter(new, i - 1),
                                            new[i].direction, new[i].amount)
      <4>1. CASE i <= Len(old)
        BY <3>1, <3>2, <3>4, <4>1
      <4>2. CASE i = Len(old) + 1
        <5>1. BalanceAfter(new, i - 1) = balance[o]
          BY <3>1, <3>2, <3>4, <4>2
        <5>2. /\ row.after = NextBalance(balance[o], direction, amount)
              /\ row.direction = direction
              /\ row.amount = amount
          BY DEF row, Row
        <5> QED BY <3>1, <4>2, <5>1, <5>2
      <4> QED BY <3>1, <4>1, <4>2
    <3> QED BY <2>2, <3>3, <3>5, <3>6
  <2> QED BY <2>1, <2>2
<1> QED BY <1>5, <1>6 DEF WalletInv

\* A step that posts nothing keeps the wallet's invariant.
LEMMA NoPostKeepsWallet ==
    ASSUME WalletInv, UNCHANGED walletVars
    PROVE  WalletInv'
BY DEF WalletInv, WalletTypeOK, LedgerExplainsBalance, walletVars

\* In every behaviour of the abstract wallet both hold: the balance is never
\* negative, and the ledger explains it.
THEOREM WalletLedgerCorrect == WalletSpec => [](WalletTypeOK /\ LedgerExplainsBalance)
<1>1. WalletInit => WalletInv
  BY WalletInitInv
<1>2. WalletInv /\ [WalletNext]_walletVars => WalletInv'
  <2> SUFFICES ASSUME WalletInv, [WalletNext]_walletVars
               PROVE  WalletInv'
    OBVIOUS
  <2>1. CASE UNCHANGED walletVars
    BY <2>1, NoPostKeepsWallet
  <2>2. CASE WalletNext
    <3>1. PICK o \in Orgs, direction \in Directions, amount \in Amounts :
              Post(o, direction, amount)
      BY <2>2 DEF WalletNext
    <3> QED BY <3>1, PostKeepsWallet, AmountsAssumption
  <2> QED BY <2>1, <2>2
<1>3. WalletInv => WalletTypeOK /\ LedgerExplainsBalance
  BY DEF WalletInv
<1> QED BY <1>1, <1>2, <1>3, PTL DEF WalletSpec

=============================================================================
