SPECIFICATION Spec
PROPERTIES
    ArithmeticExact
    QuotientsExact
    RootsAndPowersExact
    TextRoundTrips
    ExpressionsExact
    SessionsConsistent
    StringsExact
    EncodingsExact
    ChecksumsExact
