CONSTANTS
    Callers = {c1, c2, rest}
    Sessions = {c1, c2}
    Background = {rest}
    ModelVars = {"OPENAI_API_KEY", "GEMINI_API_KEY"}
    Unset = Unset
SPECIFICATION FairSpec
INVARIANTS
    TypeOK
    FreeMeansAmbient
    HolderOwnsEnvironment
    KeysStayApart
PROPERTIES
    CallsAreServed
