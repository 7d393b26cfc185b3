SPECIFICATION AnySpec
CONSTANTS
    Char <- MCChar
    Width <- MCWidth
    TASK_IDS = 65296
    VIOLATION_CAP = 2
    RuleIdOf <- MCRuleIdOf
    GlobCases <- MCGlobCases
    PathCases <- MCPathCases
    RecordCases <- MCRecordCases
    TableCases <- MCTableCases
    PassCases <- MCPassCases
    CorpusCases <- MCCorpusCases
INVARIANTS
    GlobAgrees
    PathsAgree
    VerdictsFromEvidence
    ForestShowsEveryTree
    PassesStayApart
    ReplayAddsUp
