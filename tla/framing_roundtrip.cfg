CONSTANTS
  Types <- MCTypes
  Sids <- MCSids
  Payloads <- MCPayloads
  Stamps <- MCStamps
  Bytes <- MCBytes
  MaxEdits <- MCMaxEdits
SPECIFICATION Spec
INVARIANT RoundTrip
INVARIANT HeaderTamperRejected
INVARIANT ParseMarshalsBack
CHECK_DEADLOCK FALSE
