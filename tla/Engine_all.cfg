SPECIFICATION Spec
CONSTANTS
    tok1 = tok1
    tok2 = tok2
    tokNL = tokNL
    Sep = sep
    Newline = tokNL
    Layers <- MCLayers
    KVHeads <- MCKVHeads
    GroupSize = 2
    BlockSize = 2
    Backends = {"hf", "vllm", "fake"}
    TokenIds <- MCTokenIds
    Segments <- MCSegments
    MaxLen = 5
    Prompts <- MCPrompts
    Responses <- MCResponses
    Corpora <- MCCorpora
    Budgets <- MCBudgets
    AMConfigs <- MCAMConfigs
    RecentFracs <- MCRecentFracs
    SelectFracs <- MCSelectFracs
    Latents <- MCLatents
    Chats <- MCChats
    Paths <- MCPaths
    Dtypes <- MCDtypes
    BlockTables <- MCBlockTables
    Half = 8
INVARIANTS
    
    BlendKeepsPlaces
    
    
    CompactIsFaithful
    CartridgeServes
