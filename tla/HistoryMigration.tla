-------------------------- MODULE HistoryMigration --------------------------
(***************************************************************************)
(* The background migration of legacy image identities (crates/history,    *)
(* migrate_legacy_image_identities, and its transaction in                 *)
(* crates/storage), composed with the saver and the requests of History.   *)
(*                                                                         *)
(* The task is spawned once per daemon.  It decodes each candidate's file  *)
(* outside image_mutation_gate, takes the gate to look for rows that       *)
(* already carry the new identity and to verify their files, merges        *)
(* everything in one transaction, and drops the gate before it unlinks the *)
(* files that became redundant.  Requests take no gate at all, so rows may *)
(* vanish or change their pin between any two of these steps.              *)
(*                                                                         *)
(* Data.  A file that can be read always decodes to its row's content, so  *)
(* the identity mismatch and corruption branches coincide with the missing *)
(* file.  Candidates are taken in any order; the code sorts them.          *)
(***************************************************************************)
EXTENDS History

VARIABLE mig  \* the migration task's locals

mvars == <<vars, mig>>

MigPcs == {"off", "query", "next", "gate", "verify", "commit",
           "unlink", "announce", "done", "failed"}

NoCandidate == [id |-> 0, content |-> None]

\* todo: candidates left; cand: the current one; found: the rows that carry
\* its identity; healthy: those whose file was verified; redundant: files to
\* unlink after the commit.
Migration(pc) ==
  [pc |-> pc, todo |-> {}, cand |-> NoCandidate, found |-> {},
   healthy |-> {}, redundant |-> {}]

Forget(pc) == [Migration(pc) EXCEPT !.todo = mig.todo]

MInit == Init /\ mig = Migration("query")

MigUnchanged == UNCHANGED <<temps, lost, saver, client, clock, up>>

\* get_legacy_image_candidates
MigQuery ==
  /\ mig.pc = "query"
  /\ mig' = [Migration("next") EXCEPT
               !.todo = {[id |-> i, content |-> rows[i].content] :
                           i \in {j \in ImageIds : rows[j].legacy}}]
  /\ UNCHANGED <<rows, files, rev, gate>>
  /\ MigUnchanged

\* As MigDecode, giving up at the first file that is missing.
MigDecodeStops ==
  /\ mig.pc = "next"
  /\ \E k \in mig.todo :
       mig' = [mig EXCEPT !.todo = IF k.id \in files THEN @ \ {k} ELSE {},
                          !.cand = IF k.id \in files THEN k ELSE NoCandidate,
                          !.pc = IF k.id \in files THEN "gate" ELSE "next"]
  /\ UNCHANGED <<rows, files, rev, gate>>
  /\ MigUnchanged

\* Read and decode one candidate's file outside the gate; skip it if missing.
MigDecode ==
  /\ mig.pc = "next"
  /\ \E k \in mig.todo :
       mig' = [mig EXCEPT !.todo = @ \ {k},
                          !.cand = IF k.id \in files THEN k ELSE NoCandidate,
                          !.pc = IF k.id \in files THEN "gate" ELSE "next"]
  /\ UNCHANGED <<rows, files, rev, gate>>
  /\ MigUnchanged

MigDone ==
  /\ mig.pc = "next"
  /\ mig.todo = {}
  /\ mig' = Migration("done")
  /\ UNCHANGED <<rows, files, rev, gate>>
  /\ MigUnchanged

\* As MigLock, without the gate.
MigLockless ==
  /\ mig.pc = "gate"
  /\ mig' = [mig EXCEPT !.pc = "verify",
                        !.found = Matches(mig.cand.content) \ {mig.cand.id}]
  /\ UNCHANGED <<rows, files, rev, gate>>
  /\ MigUnchanged

\* Take the gate, then find_all_by_hash_and_type on the new identity.
MigLock ==
  /\ mig.pc = "gate"
  /\ gate = "free"
  /\ gate' = "migration"
  /\ mig' = [mig EXCEPT !.pc = "verify",
                        !.found = Matches(mig.cand.content) \ {mig.cand.id}]
  /\ UNCHANGED <<rows, files, rev>>
  /\ MigUnchanged

\* Verify the files of the rows found; the candidate's was decoded above.
MigVerify ==
  /\ mig.pc = "verify"
  /\ mig' = [mig EXCEPT !.pc = "commit",
                        !.healthy = {mig.cand.id} \cup (mig.found \cap files)]
  /\ UNCHANGED <<rows, files, rev, gate>>
  /\ MigUnchanged

\* The transaction reads everything afresh.
Candidate == mig.cand.id

Fresh == Candidate \in DOMAIN rows /\ rows[Candidate].legacy

Colliding == Matches(mig.cand.content) \ {Candidate}

\* As MigStale, with the guard kept for the next candidate.
MigStaleKeepsGate ==
  /\ mig.pc = "commit"
  /\ ~Fresh
  /\ mig' = Forget("next")
  /\ UNCHANGED <<rows, files, rev, gate>>
  /\ MigUnchanged

\* consolidate_legacy_image_row: the candidate is gone or migrated.
MigStale ==
  /\ mig.pc = "commit"
  /\ ~Fresh
  /\ gate' = "free"
  /\ mig' = Forget("next")
  /\ UNCHANGED <<rows, files, rev>>
  /\ MigUnchanged

\* As MigInPlace, with the guard kept for the next candidate.
MigInPlaceKeepsGate ==
  /\ mig.pc = "commit"
  /\ Fresh
  /\ Colliding = {}
  /\ rows' = [rows EXCEPT ![Candidate].legacy = FALSE]
  /\ mig' = Forget("next")
  /\ UNCHANGED <<files, rev, gate>>
  /\ MigUnchanged

\* consolidate_legacy_image_row: nothing collides, so only the hash changes,
\* which GetHistory does not show: the revision stays.
MigInPlace ==
  /\ mig.pc = "commit"
  /\ Fresh
  /\ Colliding = {}
  /\ rows' = [rows EXCEPT ![Candidate].legacy = FALSE]
  /\ gate' = "free"
  /\ mig' = Forget("next")
  /\ UNCHANGED <<files, rev>>
  /\ MigUnchanged

\* sort_by over the healthy rows: one that has the identity already wins, and
\* among several the pinned, then the more recent one.
Preferred(S) ==
  LET Better(i, j) == \/ rows[i].pinned /\ ~rows[j].pinned
                      \/ /\ rows[i].pinned = rows[j].pinned
                         /\ rows[i].created > rows[j].created
  IN  {i \in S : \A j \in S \ {i} : ~Better(j, i)}

\* As Survivors, without the filter on known_healthy_ids.
SurvivorsUnverified ==
  IF Colliding # {} THEN Preferred(Colliding) ELSE {Candidate}

Survivors ==
  IF Colliding \cap mig.healthy # {}
    THEN Preferred(Colliding \cap mig.healthy)
    ELSE {Candidate}

\* As MigConsolidate, with the survivor's file among the redundant ones.
MigConsolidateAll ==
  /\ mig.pc = "commit"
  /\ Fresh
  /\ Colliding # {}
  /\ \E s \in Survivors :
       LET merged == Colliding \cup {Candidate} IN
         /\ rows' = [i \in DOMAIN rows \ (merged \ {s}) |->
                       IF i = s THEN [rows[s] EXCEPT !.legacy = FALSE]
                       ELSE rows[i]]
         /\ mig' = [Forget("unlink") EXCEPT !.redundant = merged]
  /\ gate' = "free"
  /\ UNCHANGED <<files, rev>>
  /\ MigUnchanged

\* consolidate_legacy_image_row: one survivor takes the identity, the newest
\* created_at and the pin of all of them, and the others are deleted.
MigConsolidate ==
  /\ mig.pc = "commit"
  /\ Fresh
  /\ Colliding # {}
  /\ \E s \in Survivors :
       LET merged == Colliding \cup {Candidate}
           newest == CHOOSE t \in {rows[i].created : i \in merged} :
                       \A i \in merged : rows[i].created <= t
       IN  /\ rows' = [i \in DOMAIN rows \ (merged \ {s}) |->
                         IF i = s
                           THEN [content |-> rows[s].content,
                                 created |-> newest,
                                 pinned  |-> \E j \in merged : rows[j].pinned,
                                 legacy  |-> FALSE]
                           ELSE rows[i]]
           /\ mig' = [Forget("unlink") EXCEPT !.redundant = merged \ {s}]
  /\ gate' = "free"
  /\ UNCHANGED <<files, rev>>
  /\ MigUnchanged

\* As MigUnlink, without the advance that follows it.
MigUnlinkSilently ==
  /\ mig.pc = "unlink"
  /\ \/ \E i \in mig.redundant :
          /\ Unlink(i)
          /\ mig' = [mig EXCEPT !.redundant = @ \ {i}]
     \/ /\ mig.redundant = {}
        /\ mig' = Forget("next")
        /\ UNCHANGED files
  /\ UNCHANGED <<rows, rev, gate>>
  /\ MigUnchanged

\* delete_image of the redundant files, without the gate
MigUnlink ==
  /\ mig.pc = "unlink"
  /\ \/ \E i \in mig.redundant :
          /\ Unlink(i)
          /\ mig' = [mig EXCEPT !.redundant = @ \ {i}]
     \/ /\ mig.redundant = {}
        /\ mig' = Forget("announce")
        /\ UNCHANGED files
  /\ UNCHANGED <<rows, rev, gate>>
  /\ MigUnchanged

MigAnnounce ==
  /\ mig.pc = "announce"
  /\ rev' = rev + 1
  /\ mig' = Forget("next")
  /\ UNCHANGED <<rows, files, gate>>
  /\ MigUnchanged

\* A statement fails: the task ends with a warning and the guard is dropped.
MigFails ==
  /\ "db" \in Faults
  /\ mig.pc \in {"query", "verify", "commit"}
  /\ mig' = Migration("failed")
  /\ gate' = IF gate = "migration" THEN "free" ELSE gate
  /\ UNCHANGED <<rows, files, rev>>
  /\ MigUnchanged

MigStep ==
  \/ MigQuery \/ MigDecode \/ MigDone
  \/ MigLock \/ MigVerify \/ MigStale \/ MigInPlace \/ MigConsolidate
  \/ MigUnlink \/ MigAnnounce \/ MigFails

\* A daemon that dies takes the task with it, and the next one spawns it anew.
MigLifecycle ==
  mig' = IF ~up' THEN Migration("off")
         ELSE IF ~up THEN Migration("query") ELSE mig

MNext == MigStep \/ (Next /\ MigLifecycle)

MSpec == MInit /\ [][MNext]_mvars

MFairness ==
  /\ WF_mvars(SaverStep /\ MigLifecycle)
  /\ \A c \in Clients : WF_mvars(RequestStep(c) /\ MigLifecycle)
  /\ WF_mvars(MigStep)

MFairSpec == MSpec /\ MFairness

-----------------------------------------------------------------------------
(* Properties *)

Candidates == [id : 0..clock, content : Contents \cup {None}]

MTypeOK ==
  /\ TypeOK
  /\ mig \in [pc : MigPcs, todo : SUBSET Candidates, cand : Candidates,
              found : SUBSET (1..clock), healthy : SUBSET (0..clock),
              redundant : SUBSET (1..clock)]

Has(c) == \E i \in DOMAIN rows : rows[i].content = c

Pinned(c) == \E i \in DOMAIN rows : rows[i].content = c /\ rows[i].pinned

Backed(c) == \E i \in DOMAIN rows : rows[i].content = c /\ i \in files

NoOlder(c) ==
  \A i \in DOMAIN rows : rows[i].content = c =>
    \E j \in DOMAIN rows' : rows'[j].content = c /\ rows'[j].created >= rows[i].created

\* The migration loses nothing: after each of its steps every image that was
\* in the history is still there, pinned if it was, as recent as it was, and
\* with a readable file if it had one, although its decision rests on files
\* verified before the transaction and pins may change up to it.  A file that
\* somebody else removes after it was verified is excused.
\* (docs/clipboard/overview.md, "Collision Consolidation".)
MigrationLosesNothing ==
  [][MigStep => \A c \in Images :
       /\ Has(c) => Has(c)'
       /\ Pinned(c) => Pinned(c)'
       /\ NoOlder(c)
       /\ Backed(c) /\ mig.healthy \cap lost = {} => Backed(c)']_mvars

\* When the task has ended without an error, no legacy row is left but those
\* whose file had disappeared.
MigrationComplete ==
  mig.pc = "done" => \A i \in ImageIds : rows[i].legacy => i \in lost

\* The task ends: the saver cannot keep the gate from it, nor the reverse.
MigrationEnds ==
  LET over == mig.pc \in {"done", "failed", "off"} IN ~over ~> over

MigOwes == mig.pc \in {"unlink", "announce"}

MStore == INSTANCE RevisionedStore
            WITH Tasks <- Clients \cup {"saver", "migration"},
                 items <- Visible,
                 pending <- PendingTasks
                              \cup {t \in {"migration"} : MigOwes}

\* The same promise to the watchers with the migration at work: a merge is
\* announced once, a mere change of hash is not visible and is not announced.
MEveryChangeAnnounced == MStore!StoreSpec
=============================================================================
