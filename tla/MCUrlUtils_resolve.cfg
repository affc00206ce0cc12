\* Task URLs of up to three characters after "http://"; relative-path hrefs.
CONSTANTS
    Alphabet = {"h", "/", "?", "#", "a"}
    MaxLen = 3
    Hrefs <- MCPathHrefs
SPECIFICATION Spec
INVARIANT ResolveJoinsDirectory
