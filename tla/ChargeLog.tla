----------------------------- MODULE ChargeLog -----------------------------
(***************************************************************************)
(* What the controller promises of the charge_sessions table: each charge  *)
(* is booked in a row of its own, which is opened when the charge begins   *)
(* and closed when it ends.  A row stays open for good only when the store *)
(* fails at that moment or when the process ends during the charge.        *)
(***************************************************************************)
EXTENDS Naturals

CONSTANT Rows       \* ids a row may have, none of them 0

VARIABLES
    charging,       \* a charge is going on
    row,            \* the row it is booked in; 0: none
    booked,         \* what has been summed up for that row
    openRows,       \* rows with no end
    up, works       \* the process runs; the store answers

logVars == <<charging, row, booked, openRows>>
vars == <<logVars, up, works>>

Init ==
    /\ charging = FALSE /\ row = 0 /\ booked = 0 /\ openRows = {}
    /\ up \in BOOLEAN /\ works \in BOOLEAN

\* A charge begins: in a row of its own, or in none if the store fails.
Begin ==
    /\ up
    /\ ~charging /\ charging'
    /\ booked' = 0
    /\ \/ \E id \in Rows \ openRows : row' = id /\ openRows' = openRows \union {id}
       \/ /\ ~works \/ Rows \subseteq openRows
          /\ row' = 0 /\ UNCHANGED openRows
    /\ UNCHANGED <<up, works>>

\* A sample of a charge that has a row.
Book ==
    /\ up /\ charging /\ row # 0
    /\ booked' \in Nat /\ booked' > booked
    /\ UNCHANGED <<charging, row, openRows, up, works>>

\* The charge ends: its row is closed, or lost if the store fails.
End ==
    /\ up
    /\ charging /\ ~charging'
    /\ row' = 0 /\ booked' = 0
    /\ \/ openRows' = openRows \ {row}
       \/ ~works /\ UNCHANGED openRows
    /\ UNCHANGED <<up, works>>

Stop == up /\ ~up' /\ UNCHANGED <<logVars, works>>

\* A new process knows of no charge.
Start ==
    /\ ~up /\ up'
    /\ charging' = FALSE /\ row' = 0 /\ booked' = 0
    /\ UNCHANGED <<openRows, works>>

StoreChanges == works' = ~works /\ UNCHANGED <<logVars, up>>

Next == Begin \/ Book \/ End \/ Stop \/ Start \/ StoreChanges

Spec == Init /\ [][Next]_vars
=============================================================================
