SPECIFICATION Spec
CONSTANTS
  t1 = t1  t2 = t2  p1 = p1  p2 = p2  p3 = p3  a1 = a1
  Teams = {t1}
  Procs = {p1, p2}
  Kinds = {"order", "borrow"}
  Opening = 3
  FillDeltas  <- MCFillDeltas
  CoverDeltas <- MCCoverDeltas
  Cost = 2
  Fee = 1
  Dividends   <- MCDividends
  Adjs = {a1}
  AdjTeam     <- MCAdjTeam
  AdjAmount   <- MCAdjAmount
  MaxOps = 2
INVARIANT CashIsLedger
CHECK_DEADLOCK FALSE
