CONSTANTS
    Callers = {c1, rest}
    Sessions = {c1}
    Background = {rest}
    ModelVars = {"OPENAI_API_KEY", "GEMINI_API_KEY"}
    Unset = Unset
SPECIFICATION Spec
INVARIANT
    NoBorrowedKeys
