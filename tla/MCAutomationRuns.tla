-------------------------- MODULE MCAutomationRuns --------------------------
(***************************************************************************)
(* Instances of AutomationRuns.  An order has a rule that changes its      *)
(* invoice; in one of them the invoice also has a rule that changes its    *)
(* order, so that an edit starts a chain that has to be cut off.           *)
(***************************************************************************)
EXTENDS AutomationRuns, TLC

CONSTANTS order, invoice, toInvoice, toOrder, invoiced, approved, draft, final,
          w1, w2, c1, c2

TwoWay == order :> <<toInvoice>> @@ invoice :> <<toOrder>>
OneWay == order :> <<toInvoice>> @@ invoice :> <<>>
OtherDocument == toInvoice :> invoice @@ toOrder :> order
PatchValues == toInvoice :> invoiced @@ toOrder :> approved

WorkerSymmetry == Permutations({w1, w2})

=============================================================================
