SPECIFICATION MCSpec
CONSTANTS
    Requests = {"r1", "r2", "r3"}
    Articles <- ArticlesOf
    Lexicon <- Words
    Letters <- WordLetters
    StageMax = 2
    ProxyHost = "proxy"
    RemoteHost = "remote"
    Short = {"x"}
    MaxTokens = 3
INVARIANTS OptimalScripts AnswerFromThoseMet CopiesRemoved
PROPERTIES KeepsText
CHECK_DEADLOCK FALSE
