\* A Config Session with savepoints, at its command limit.
CONSTANTS
    k1 = k1  k2 = k2  f = f  g = g  v = v
    None = None  Closed = Closed  Doomed = Doomed
    Key = {k1, k2}
    Field = {f, g}
    Val = {v}
    Rejected <- MCRejected
    NewValues <- MCFew
    InUse = {}
    IsSession = TRUE
    TxCmdsLim = 2
    MaxOthers = 1
    MaxConnLost = 0
    LoseInTx = FALSE
SPECIFICATION Spec
INVARIANTS TxTypeOK 
  
