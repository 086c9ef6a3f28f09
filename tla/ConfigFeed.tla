----------------------------- MODULE ConfigFeed -----------------------------
(***************************************************************************)
(* What delivery promises to a process that reads its configuration from   *)
(* an SDK client.  The process sees one revision and one row.  It starts   *)
(* with nothing; afterwards the revision only moves forward, it never runs *)
(* ahead of the database, and the row is one that was live when that       *)
(* revision was, or later: it may skip revisions, it may see a row a       *)
(* moment before its revision, but it never sees an older row under a      *)
(* newer revision.                                                         *)
(***************************************************************************)
EXTENDS RevisionLog

CONSTANT Nothing     \* the row seen before any was loaded

VARIABLES revision,  \* what the process was told it has
          row        \* what its reads return

feedVars == <<log, revision, row>>

FeedInit == LogInit /\ revision = 0 /\ row = Nothing

Write == LogNext /\ UNCHANGED <<revision, row>>

\* The client swaps its snapshot, skipping any number of revisions.
Swap ==
  /\ revision' \in revision + 1 .. Len(log)
  /\ \E i \in revision' .. Len(log) : row' = log[i]
  /\ UNCHANGED log

\* The first load may find the first write between its two reads: a row, still
\* labelled with revision 0.
FirstRow ==
  /\ revision = 0
  /\ row = Nothing
  /\ \E i \in 1 .. Len(log) : row' = log[i]
  /\ UNCHANGED <<log, revision>>

FeedNext == Write \/ Swap \/ FirstRow

FeedSpec == FeedInit /\ [][FeedNext]_feedVars
=============================================================================
