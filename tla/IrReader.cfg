SPECIFICATION ReaderSpec
CONSTANTS
    Strings = {"a", "b", "w"}
    MayAddGlobal <- MCMayAddGlobal
    MayAddItem <- MCMayAddItem
    Structs <- MCStructs
    HalfBits = 3
    ValueTypes <- MCValueTypes
    FunctionTypes <- MCFunctionTypes
    CallAttrs <- MCCallAttrs
    GlobalChoices <- MCGlobalChoices
    ItemChoices <- MCItemChoices
    Constants <- MCConstants
    AttrChoices <- MCAttrChoices
    Specs <- MCSpecs
    AskedSizes = {1, 7, 8, 24, 32, 64, 96, 128, 192, 200, 256, 512}
    AskedSpaces = {0, 1, 5}
    MayAddSpec <- MCMayAddSpec
INVARIANTS
    TypeOK
    PassesAgree
    NamesUnique
    OperandsNamed
    NamedPassesAgree
    FieldsDenoteOperands
    ConstantTypesExact
    TypesExact
    PanicsWhenUnsupported
    TypesAsLLVM
    AttributesDenote
    LayoutAsWritten
CHECK_DEADLOCK FALSE
