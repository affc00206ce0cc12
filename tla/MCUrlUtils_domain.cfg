\* Task URLs of up to three characters after "http://".
CONSTANTS
    Alphabet = {"h", "/", "?", "#", "a"}
    MaxLen = 3
    Hrefs <- MCHrefs
SPECIFICATION Spec
INVARIANT ExtractDomainIsHost
