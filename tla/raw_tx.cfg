CONSTANTS
  Account = {a1, a2}
  Support = {s1}
  None = None
  CoinUnit = 2
  TokenUnit = 2
  CoinGas = 1
  TokenGas = 2
  Prices = {2, 3}
  Values = {0, 3, 5}
  Requests <- MCRequests
  MaxMoves = 1
SPECIFICATION Spec
INVARIANT TypeOK
INVARIANT SummaryKeepsRetained
INVARIANT NothingOverspent
INVARIANT SufficientIsFound
INVARIANT SummaryComplete
INVARIANT SupportIsNeeded
