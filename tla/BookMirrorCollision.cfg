CONSTANTS
  Numbers <- MCNumbers
  Books <- MCBooks
  Home <- MCHome
  Sides <- MCSides
  Prices <- MCPrices
  Qtys <- MCQtys
  ZeroOrders <- NoZeroOrders
  Depth = 1
  QtyMod = 16
SPECIFICATION BookSpec
INVARIANT RowsFresh
