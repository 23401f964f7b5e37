----------------------------- MODULE MCRelease -----------------------------
(* Small instances of Release: two processes, two merges, two crashes, on a *)
(* free host or one with the lock of a release that was killed before.      *)
EXTENDS Release

\* Two releases that own the host at once are looked at and not followed further: every
\* property but TestedIsBuilt and ReleaseEnds is excused from there on.
NotRaced == ~raced
=============================================================================
