SPECIFICATION Spec
CONSTANTS
    Bytes = {"|", "{", "l", "0", ".", "'", "(", ")", "[", "~", "-", ">", "}", " ", "%", ":", ";", "$"}
    StringBytes = {"'", "(", " "}
    MaxDepth = 2
    MaxLexeme = 4
    MaxGap = 3
INVARIANT OpenersClassifyAlike
