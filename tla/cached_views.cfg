SPECIFICATION Spec
CONSTANTS
    View <- FewViews
    Op <- FewHandlers
    Fact <- FewFacts
    Key <- AllKeys
    KeysOf <- ViewKeys
    FactsOf <- ShownFacts
    Before <- ViewBefore
    Writes <- WrittenFacts
    Early <- HandlerEarly
    Late <- HandlerLate
    Reader = {p1, p2}
    Writer = {q1}
    Nobody = Nobody
    MaxWrites = 1
    MaxVersion = 1
    MaxEntries = 1
SYMMETRY Symmetry
INVARIANTS TypeOK NoStaleEntry
PROPERTIES KeepsPromise
