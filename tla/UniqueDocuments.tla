--------------------------- MODULE UniqueDocuments ---------------------------
(***************************************************************************)
(* What the document commands promise: documents go through their          *)
(* lifecycle one atomic step at a time, a name is used for one document    *)
(* only, and no two live documents claim the same unique value.            *)
(***************************************************************************)
CONSTANTS
  Names,     \* document names
  Keys       \* unique values: a field and a value of it

VARIABLE docs   \* the status of each document and the unique values it claims

Statuses == {"absent", "draft", "submitted", "cancelled", "deleted"}

Live(n) == docs[n].status \in {"draft", "submitted", "cancelled"}

\* Nobody but n claims any of these values.
FreeFor(n, keys) ==
  \A m \in Names \ {n} : Live(m) => docs[m].keys \cap keys = {}

Become(n, status, keys) ==
  docs' = [docs EXCEPT ![n] = [status |-> status, keys |-> keys]]

Init == docs = [n \in Names |-> [status |-> "absent", keys |-> {}]]

Create(n, keys) ==
  /\ docs[n].status = "absent"
  /\ FreeFor(n, keys)
  /\ Become(n, "draft", keys)

Change(n, keys) ==
  /\ docs[n].status \in {"draft", "submitted"}
  /\ FreeFor(n, keys)
  /\ Become(n, docs[n].status, keys)

Submit(n) ==
  /\ docs[n].status = "draft"
  /\ Become(n, "submitted", docs[n].keys)

Cancel(n) ==
  /\ docs[n].status = "submitted"
  /\ Become(n, "cancelled", docs[n].keys)

Delete(n) ==
  /\ docs[n].status \in {"draft", "cancelled"}
  /\ Become(n, "deleted", {})

Next ==
  \E n \in Names :
    \/ \E keys \in SUBSET Keys : Create(n, keys) \/ Change(n, keys)
    \/ Submit(n)
    \/ Cancel(n)
    \/ Delete(n)

Spec == Init /\ [][Next]_docs

=============================================================================
