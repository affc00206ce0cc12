\* parse on five page trees, asking whether it finds the page title.
CONSTANTS
    h1 = h1  h2 = h2  NoHref = NoHref
    Chars <- MCChars
    WordChars <- MCWordChars
    AlnumChars <- MCAlnumChars
    Lower <- MCLower
    Docs <- MCDocs
SPECIFICATION Spec
INVARIANT TitleMatchesSpec
CHECK_DEADLOCK FALSE
