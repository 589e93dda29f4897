--------------------------- MODULE InboundLedger ---------------------------
(***************************************************************************)
(* What observing an inbound promises to the rest of the chain, without    *)
(* nodes, votes or messages: the receiving vault is credited at most once, *)
(* whoever handles the inbound is called at most once and together with    *)
(* that credit, and an errata either takes back exactly what was credited  *)
(* or makes sure that nothing ever is.                                     *)
(***************************************************************************)
EXTENDS Naturals

CONSTANTS Amounts,      \* the amounts the inbound may bring
          InitBalance   \* the balance of the vault before

VARIABLES phase,        \* "open", "credited", "takenBack" or "void"
          amount,       \* what was credited
          balance,      \* the balance of the vault
          dispatched    \* how often the inbound was handed on

ledgerVars == <<phase, amount, balance, dispatched>>

Init == /\ phase = "open"
        /\ amount = 0
        /\ balance = InitBalance
        /\ dispatched = 0

\* final consensus (of a migration: consensus), with or without a handler
Credit == /\ phase = "open"
          /\ phase' = "credited"
          /\ amount' \in Amounts
          /\ balance' = balance + amount'
          /\ dispatched' \in {0, 1}

\* errata after the credit
TakeBack == /\ phase = "credited"
            /\ phase' = "takenBack"
            /\ balance' = InitBalance
            /\ UNCHANGED <<amount, dispatched>>

\* errata before the credit
Void == /\ phase = "open"
        /\ phase' = "void"
        /\ UNCHANGED <<amount, balance, dispatched>>

Next == Credit \/ TakeBack \/ Void

Spec == Init /\ [][Next]_ledgerVars

=============================================================================
