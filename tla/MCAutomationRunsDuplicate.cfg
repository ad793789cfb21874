SPECIFICATION Spec
CONSTANTS
  order = order
  invoice = invoice
  toInvoice = toInvoice
  toOrder = toOrder
  invoiced = invoiced
  approved = approved
  draft = draft
  final = final
  w1 = w1
  w2 = w2
  c1 = c1
  c2 = c2
  NoClaim = NoClaim
  Initial = Initial
  Deleted = Deleted
  Docs = {order, invoice}
  Rules = {toInvoice, toOrder}
  RulesOn <- OneWay
  Target <- OtherDocument
  Patch <- PatchValues
  Workers = {w1, w2}
  ClaimIds = {c1}
  ClaimLimit = 2
  MaxAttempts = 2
  MaxAppendAttempts = 2
  MaxDepth = 3
  MaxPathRepeats = 1
  EditBound = 2
  FaultBound = 0
  ExpiryBound = 1
  EditValues = {draft}
SYMMETRY WorkerSymmetry
INVARIANT AppliedOnce
