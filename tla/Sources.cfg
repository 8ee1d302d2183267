CONSTANT Indicators <- MCIndicators
CONSTANT Rules <- MCRules
CONSTANT TickerOf <- MCTickerOf
CONSTANT SideOf <- MCSideOf
CONSTANT Factories <- MCFactories
CONSTANT Listings <- MCListings
CONSTANT Prices <- MCPrices
CONSTANT OddReplies <- MCOddReplies
CONSTANT Cuts <- MCCuts
CONSTANT Parse <- MCParse
CONSTANT Serialise <- PrintNode
SPECIFICATION HttpSpec
INVARIANT TypeOK
INVARIANT RepliesWhole
INVARIANT AsksServed
INVARIANT QuotesOfWindow
INVARIANT CommandsNameTokens
CHECK_DEADLOCK FALSE
PROPERTY ImplementsSources
