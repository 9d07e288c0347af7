---------------------------- MODULE SimAccounts ----------------------------
(***************************************************************************)
(* What the simulator promises of its accounts: cash starts at the capital *)
(* the account was opened with and changes only when one of its trades     *)
(* ends, by that trade's result, and a trade ends once.                    *)
(***************************************************************************)
EXTENDS Integers

CONSTANTS Accounts, Trades, Results, Capital   \* accounts are positive numbers

NotYet == 0
Ended  == -1

VARIABLES
  opened,  \* the accounts there are
  cash,    \* account -> its cash
  held     \* trade -> the account that holds it, NotYet or Ended

AccountsInit ==
  /\ opened = {}
  /\ cash = [a \in Accounts |-> Capital]
  /\ held = [t \in Trades |-> NotYet]

OpenAccount(a) == a \notin opened /\ opened' = opened \cup {a} /\ UNCHANGED <<cash, held>>

Enter(t, a) ==
  /\ held[t] = NotYet /\ a \in opened
  /\ held' = [held EXCEPT ![t] = a]
  /\ UNCHANGED <<opened, cash>>

Finish(t, a) ==
  /\ held[t] = a
  /\ held' = [held EXCEPT ![t] = Ended]
  /\ \E r \in Results : cash' = [cash EXCEPT ![a] = @ + r]
  /\ UNCHANGED opened

AccountsNext ==
  \E a \in Accounts :
    OpenAccount(a) \/ \E t \in Trades : Enter(t, a) \/ Finish(t, a)

AccountsSpec == AccountsInit /\ [][AccountsNext]_<<opened, cash, held>>
=============================================================================
