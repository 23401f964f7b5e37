--------------------------- MODULE MCRecordStorage ---------------------------
(* Small instances of RecordStorage: a chat transcript kept by a page, the *)
(* setup journal kept by the identity service, a theme preference in two   *)
(* tabs, and an operator at the command line.                              *)
EXTENDS RecordStorage

CONSTANTS chat, journal, theme

MCProcesses == Clients \cup Operators

\* Every page is a tab on the page's record; a service keeps the journal.
MCRecordOf == [c \in Clients |->
    IF c \in Services THEN journal ELSE CHOOSE k \in Records \ {journal} : TRUE]
==============================================================================
