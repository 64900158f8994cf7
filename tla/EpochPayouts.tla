---------------------------- MODULE EpochPayouts -----------------------------
(***************************************************************************)
(* What the epoch rail of the reward distributor promises to the nodes,    *)
(* apart from accounts, vaults, cores, authorities and the clock: once an  *)
(* epoch is posted its terms stand; a node's entitlement in it is settled  *)
(* once, by one of its leaves or by a forfeit; and an epoch never pays     *)
(* more than its budget.  WeftProgram implements this specification.       *)
(***************************************************************************)
EXTENDS Integers

CONSTANTS Nodes, Epochs

VARIABLES
  terms,     \* what each epoch committed to
  spent,     \* what each epoch has paid
  outcome    \* what became of each node's entitlement in each epoch

vars == <<terms, spent, outcome>>

Terms == [posted : {TRUE}, leaves : SUBSET (Nodes \X Nat), budget : Nat]
NoTerms == [posted |-> FALSE, leaves |-> {}, budget |-> 0]
Open == [state |-> "open", amount |-> 0]
Paid(amount) == [state |-> "paid", amount |-> amount]
Forfeited == [state |-> "forfeited", amount |-> 0]

Init ==
  /\ terms = [e \in Epochs |-> NoTerms]
  /\ spent = [e \in Epochs |-> 0]
  /\ outcome = [e \in Epochs |-> [k \in Nodes |-> Open]]

\* The terms are the poster's choice, made once.
Post(e) ==
  /\ terms[e] = NoTerms
  /\ terms'[e] \in Terms
  /\ terms' = [terms EXCEPT ![e] = terms'[e]]
  /\ UNCHANGED <<spent, outcome>>

Pay(e, k, amount) ==
  /\ outcome[e][k] = Open
  /\ <<k, amount>> \in terms[e].leaves
  /\ spent[e] + amount <= terms[e].budget
  /\ spent' = [spent EXCEPT ![e] = @ + amount]
  /\ outcome' = [outcome EXCEPT ![e][k] = Paid(amount)]
  /\ UNCHANGED terms

Forfeit(e, k) ==
  /\ terms[e].posted
  /\ outcome[e][k] = Open
  /\ outcome' = [outcome EXCEPT ![e][k] = Forfeited]
  /\ UNCHANGED <<terms, spent>>

Next ==
  \E e \in Epochs :
    \/ Post(e)
    \/ \E leaf \in terms[e].leaves : Pay(e, leaf[1], leaf[2])
    \/ \E k \in Nodes : Forfeit(e, k)

Spec == Init /\ [][Next]_vars
=============================================================================
