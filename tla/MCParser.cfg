\* The tokenizer on every short text, and parse on five page trees.
CONSTANTS
    h1 = h1  h2 = h2  NoHref = NoHref
    Chars <- MCChars
    WordChars <- MCWordChars
    AlnumChars <- MCAlnumChars
    Lower <- MCLower
    Docs <- MCDocs
SPECIFICATION Spec
INVARIANT TypeOK
INVARIANT TermPositionsMatchSpec
INVARIANT PageTokensMatchSpec
CHECK_DEADLOCK FALSE
