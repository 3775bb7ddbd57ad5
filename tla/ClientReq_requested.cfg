\* The subscribe requests of MCPureOperators!MCRequests, with filter
\* values that include a one-character hex literal and a decimal literal
\* beyond int64.
CONSTANTS
    MaxLen = 64
    Fields = {"gas", "to"}
    Ops = {"=", ">"}
    Values = {"21000", "a", "10000000000000000000"}
    NestValue = "7"
    NilInclude = NilInclude
    NilCall = NilCall
    EmptyFilters = EmptyFilters
SPECIFICATION PureSpec
INVARIANT ClientReqFaithful
