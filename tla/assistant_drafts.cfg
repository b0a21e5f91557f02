SPECIFICATION Spec
CONSTANTS
    Null = Null
    None = None
    Categories <- MCCategories
    SubcategoriesOf <- MCSubcategoriesOf
    Properties = {"villa"}
    Today = "today"
    Payers <- MCPayers
    Payees <- MCPayees
    Texts <- MCTexts
    Suggested = None
    NumKeys = 3
    MaxTexts = 3
    LongTalks <- MCLongTalks
    MaxReloads = 1
    MaxEdits = 1
    EditedAmount = 101
INVARIANTS
    TypeOK
    ReviewSurvivesReload
    CorrectionGetsItsOwnDraft
    SubcategoryFitsItsCategory
    ReviewedDraftIsPostable
    PostedDraftsStay
PROPERTY
    ConfirmedValuesStay
CHECK_DEADLOCK FALSE
