-------------------------- MODULE RevisionedStore --------------------------
(***************************************************************************)
(* What the history service promises to everybody who watches it.          *)
(*                                                                         *)
(* A table of items is changed by several tasks, each of which first       *)
(* commits its changes to the database and then advances an in-memory      *)
(* revision counter.  The two are separate steps of the code, so there is  *)
(* a window in which a change is visible and not announced yet; the        *)
(* promise is that the window is always closed by an advance, unless the   *)
(* process dies, in which case the counter dies with it.                   *)
(*                                                                         *)
(* The module knows nothing of clipboard contents, files or eviction:      *)
(* History.tla implements it, HistoryWatch.tla is built on it.             *)
(***************************************************************************)
EXTENDS Naturals

CONSTANT Tasks  \* the tasks that change the table

VARIABLES
  items,    \* what a SELECT of the whole table returns
  rev,      \* the revision held by HistoryRevisionNotifier
  pending,  \* tasks that may have committed something not yet announced
  up        \* the daemon process is alive

storeVars == <<items, rev, pending, up>>

StoreInit ==
  /\ rev = 1
  /\ pending = {}
  /\ up = TRUE

\* Task t reaches the part of its operation that may change the table; it
\* then owes the watchers an advance.  What the table becomes is not this
\* module's business: items' is whatever the step makes it.
Change(t) ==
  /\ up
  /\ pending' = pending \cup {t}
  /\ UNCHANGED <<rev, up>>

\* HistoryRevisionNotifier::advance.  The code wraps at 2^64 and skips 0;
\* no run of the daemon gets there, so the counter is a natural number here.
Advance(t) ==
  /\ t \in pending
  /\ rev' = rev + 1
  /\ pending' = pending \ {t}
  /\ UNCHANGED <<items, up>>

\* As Die, for a counter that starts at 0.
DieToZero ==
  /\ up
  /\ up' = FALSE
  /\ pending' = {}
  /\ rev' = 0
  /\ UNCHANGED items

\* The process ends, by a crash, a signal or an error returned from main.
Die ==
  /\ up
  /\ up' = FALSE
  /\ pending' = {}
  /\ rev' = 1
  /\ UNCHANGED items

\* The next daemon starts with HistoryRevisionNotifier::default().
Start ==
  /\ ~up
  /\ up' = TRUE
  /\ UNCHANGED <<items, rev, pending>>

StoreNext ==
  \/ \E t \in Tasks : Change(t) \/ Advance(t)
  \/ Die
  \/ Start

StoreSpec == StoreInit /\ [][StoreNext]_storeVars
=============================================================================
