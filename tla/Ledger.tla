-------------------------------- MODULE Ledger --------------------------------
(***************************************************************************)
(* What a transfer of spring/lagou-transfer promises.  A client looks at   *)
(* two accounts at one moment and later either posts both new amounts at   *)
(* once or gives up and changes nothing.  Nothing protects the amounts     *)
(* between the look and the post: that much the code does not promise.     *)
(***************************************************************************)
EXTENDS Integers

CONSTANTS Client, Card, Account, Amount, Opening, None

VARIABLES
    money,      \* what is in each account
    open        \* per client, the two amounts it is going to post, or None

ledgerVars == <<money, open>>

\* A card without an account looks like one with nothing in it.
Held(card) == IF card \in Account THEN money[card] ELSE 0

Init == money = Opening /\ open = [c \in Client |-> None]

Look(c, from, to, amount) ==
    /\ open[c] = None
    /\ open' = [open EXCEPT ![c] =
                    [from |-> from, fromMoney |-> Held(from) - amount,
                     to |-> to, toMoney |-> Held(to) + amount]]
    /\ UNCHANGED money

\* Of a transfer to the same card only the debit is left.
Post(c) ==
    /\ open[c] # None
    /\ money' = [a \in Account |->
                    IF a = open[c].from THEN open[c].fromMoney
                    ELSE IF a = open[c].to THEN open[c].toMoney
                    ELSE money[a]]
    /\ open' = [open EXCEPT ![c] = None]

GiveUp(S) ==
    /\ open' = [c \in Client |-> IF c \in S THEN None ELSE open[c]]
    /\ UNCHANGED money

Next ==
    \/ \E c \in Client :
        Post(c) \/ \E from, to \in Card, amount \in Amount :
                        Look(c, from, to, amount)
    \/ \E S \in SUBSET Client : GiveUp(S)

Spec == Init /\ [][Next]_ledgerVars
=============================================================================
