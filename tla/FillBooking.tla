----------------------------- MODULE FillBooking -----------------------------
(***************************************************************************)
(* What the execution stage promises about its books, seen from outside:   *)
(* the exchange executes an order once, for some number of shares, and the *)
(* program enters exactly that number in the ledger, once, and never       *)
(* before the execution.  OrderFlow implements this for every quiet        *)
(* ticker; how the program finds out that an order was executed (by        *)
(* re-reading the holdings) is not visible here.                           *)
(***************************************************************************)
EXTENDS Naturals

CONSTANT Orders

VARIABLES executed,  \* shares of each order the exchange executed, 0 before
          entered    \* shares of each order entered in the ledger, 0 before

bookVars == <<executed, entered>>

BookInit == /\ executed = [o \in Orders |-> 0]
            /\ entered = [o \in Orders |-> 0]

Execute(o) == /\ executed[o] = 0
              /\ executed'[o] \in Nat \ {0}
              /\ executed' = [executed EXCEPT ![o] = executed'[o]]
              /\ UNCHANGED entered

Enter(o) == /\ executed[o] > 0
            /\ entered[o] = 0
            /\ entered' = [entered EXCEPT ![o] = executed[o]]
            /\ UNCHANGED executed

BookNext == \E o \in Orders : Execute(o) \/ Enter(o)

BookSpec == BookInit /\ [][BookNext]_bookVars
=============================================================================
