SPECIFICATION Spec
CONSTANTS
    Section = {s1, s2}
    plain = plain
    edit = edit
    template = template
    unset = unset
    Rest <- MCRest
    Resolved <- MCResolved
    Torn = Torn
    Nothing = Nothing
INVARIANTS TypeOK NeverTorn AckedIsDurable EditsKept NoTempLeft
PROPERTIES ImplementsAtomicFile
