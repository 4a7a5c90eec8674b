SPECIFICATION FairSpec
CONSTANTS
  t1 = t1  t2 = t2  p1 = p1  p2 = p2  p3 = p3  a1 = a1
  Teams = {t1, t2}
  Procs = {p1, p2, p3}
  Kinds = {"order", "cover", "research", "adjust"}
  Opening = 3
  FillDeltas  <- MCFillDeltas
  CoverDeltas <- MCCoverDeltas
  Cost = 2
  Fee = 1
  Dividends   <- MCDividends
  Adjs = {a1}
  AdjTeam     <- MCAdjTeam
  AdjAmount   <- MCAdjAmount
  MaxOps = 3
PROPERTIES RefinesLedger WaiterIsServed
CHECK_DEADLOCK FALSE
