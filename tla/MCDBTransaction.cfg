\* A writer with CVL, two entries, another client that writes once, a
\* connection that is replaced between two transactions.
CONSTANTS
    k1 = k1  k2 = k2  f = f  g = g  v = v
    None = None  Closed = Closed  Doomed = Doomed
    Key = {k1, k2}
    Field = {f, g}
    Val = {v}
    Rejected <- MCRejected
    NewValues <- MCFew
    InUse = {k1}
    IsSession = FALSE
    TxCmdsLim = 2
    MaxOthers = 1
    MaxConnLost = 1
    LoseInTx = FALSE
SPECIFICATION Spec
INVARIANTS ReadersAgree
PROPERTIES ImplementsConfigTransaction
