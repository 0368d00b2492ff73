SPECIFICATION CommandLine
CONSTANTS
    DomainArgs <- MCDomainArgs
    RouteArgs <- MCRouteArgs
    ProxyArgs <- MCProxyArgs
    MaxArgs = 4
    Fields <- MCFields
    Half <- MCHalf
    Lower <- MCLower
    AttrArgs <- MCAttrArgs
    MaxAttrs = 3
INVARIANTS
    AliasesCombined
    SameRouteTwiceIsRejected
    WorkIsOrdered
    FilterIsWhatWasTyped
    EndsForAReason
    OnlyShownFieldsFilter
CHECK_DEADLOCK FALSE
