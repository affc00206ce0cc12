\* Two hosts for per_domain; every file of MCDocs, per_domain written as a
\* scalar or a sequence among them.
CONSTANTS
    Hosts = {h1, h2}
    Docs <- MCDocs
SPECIFICATION Spec
INVARIANT ConfigErrorIsFatal
CHECK_DEADLOCK FALSE
