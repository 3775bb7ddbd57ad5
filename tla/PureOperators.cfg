\* Beacon lengths of every first byte and length up to MaxLen; every bare
\* filter of depth 1 over the fields, operators and values below, plus
\* depth-2 nestings of ">" clauses; every subscribe request of
\* MCPureOperators!MCRequests.
CONSTANTS
    MaxLen = 64
    Fields = {"gas", "to"}
    Ops = {"=", ">", "in"}
    Values = {"21000", "ab", "0xab", "9223372036854775807"}
    NestValue = "7"
    NilInclude = NilInclude
    NilCall = NilCall
    EmptyFilters = EmptyFilters
SPECIFICATION PureSpec
INVARIANT LengthMatchesBeaconEncoding
INVARIANT FilterMatchesBraced
INVARIANT ClientReqEntitled
INVARIANT WSClientAdmission
