SPECIFICATION AllSpec
CONSTANTS
  NumWords = 2
  BitsPerWord = 2
  OffsetModulus = 4
  Items = {h1, h2, h3}
  NoItem = NoItem
  p1 = p1
  p2 = p2
  c1 = c1
  c2 = c2
  a = a
  b = b
  t1 = t1
  t2 = t2
  k1 = k1
  k2 = k2
  Unused = Unused
SYMMETRY Symmetry
INVARIANTS BitmapMatchesPending ConversionsFaithful StatementAsSent ResponsesRead FramesReassembled LookupsExact EncryptedIntact SecuredBeforeUse PlanSound SchemaSound SchemaAsDeclared ReplicasPlaced StampsIncrease
PROPERTIES ImplementsStreamPool QueuesBounded
CHECK_DEADLOCK FALSE
