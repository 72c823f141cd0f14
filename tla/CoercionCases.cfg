SPECIFICATION Spec
CONSTANTS
    Names <- MCNames
    Schema <- MCSchema
    Scale = 10
    Entries <- MCEntries
    Faultless <- MCFaultless
    Texts <- MCTexts
    Raws <- MCRaws
    Chars <- MCChars
    White <- MCWhite
    Lower <- MCLower
INVARIANTS
    ConfidenceIsProbability
    MissingRequiredZeroesOverall
    FalseCitationEarnsNothing
    RefusedValueCosts
    CreditedValueIsInDocument
    OneObjectIsRead
