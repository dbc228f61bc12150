CONSTANTS
    Requests = {r1, r2, r3}
    Sessions = {web, cli}
    Presigned = {cli}
    Plain = {"llm_model", "invest_sandbox"}
    Encrypted = {"llm_api_key", "openai_api_key", "invest_token"}
    Values = {0, 1}
    Forms <- MCForms
    NoRow = NoRow
SPECIFICATION Spec
INVARIANTS
    TypeOK
    KeysTogether
    TokenMeansSession
CHECK_DEADLOCK FALSE
