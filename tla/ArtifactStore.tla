---------------------------- MODULE ArtifactStore ----------------------------
(***************************************************************************)
(* ArtifactManager (artifact_manager.cpp): several SDK processes save what *)
(* they built under one root, in a directory named by the transaction hash *)
(* or by the millisecond, while one of them cleans up old directories.     *)
(* Every file operation is a step of its own, and any may fail.            *)
(***************************************************************************)
EXTENDS Naturals, Sequences, SequencesExt

CONSTANTS
    ArtifactSavers,         \* processes that save artifacts
    Hashes,         \* transaction hashes of builds that have one
    CleanupAfter,   \* config_.cleanup_after_days, in ticks; 0 disables the cleanup
    MaxTick         \* bound: ticks of the clock

ASSUME ArtifactAssumption == CleanupAfter \in Nat /\ MaxTick \in Nat

VARIABLES
    clock,
    enabled,    \* config_.enabled
    disk,       \* per directory: [exists, touched, files]
    saves,      \* per process: [pc, dir, left, listed]
    cleaner     \* cleanup_nonessential(): [pc, todo, at]

artifactVars == <<clock, enabled, disk, saves, cleaner>>

Stamp(t) == <<"stamp", t>>
HashDir(h) == <<"hash", h>>
Dirs == {HashDir(h) : h \in Hashes} \cup {Stamp(t) : t \in 0..MaxTick}

NoDir == [exists |-> FALSE, touched |-> 0, files |-> {}]
NoSave == [pc |-> "idle", dir |-> Stamp(0), left |-> << >>, listed |-> {}]
Resting == [pc |-> "idle", todo |-> {}, at |-> Stamp(0)]

(* A directory may be left empty by a process that died before it wrote.   *)
ArtifactInit ==
    /\ clock = 0 /\ enabled \in BOOLEAN
    /\ disk \in {[d \in Dirs |-> IF d \in left THEN [NoDir EXCEPT !.exists = TRUE] ELSE NoDir] :
                   left \in SUBSET {HashDir(h) : h \in Hashes}}
    /\ saves = [s \in ArtifactSavers |-> NoSave] /\ cleaner = Resting

ClockTicks == /\ clock < MaxTick /\ clock' = clock + 1
        /\ UNCHANGED <<enabled, disk, saves, cleaner>>
-----------------------------------------------------------------------------
(* What a save will write, in the order of the code: a build's metadata,   *)
(* transaction bytes and hex, log and copied outputs as far as it has      *)
(* them; an intent's metadata, log and copies; or one text.                *)
BuildFiles(have) == <<"metadata.json">> \o SelectSeq(<<"transaction.mn", "transaction.hex", "ledger.log", "copies">>, LAMBDA f : f \in have)
IntentFiles(have) == <<"metadata.json">> \o SelectSeq(<<"ledger.log", "copies">>, LAMBDA f : f \in have)

(* A disabled manager reports success and saves nothing.                   *)
BeginSave(s, dir, files) ==
    /\ saves[s].pc = "idle"
    /\ saves' = [saves EXCEPT ![s] = IF enabled THEN [pc |-> "mkdir", dir |-> dir, left |-> files, listed |-> {}]
                                     ELSE [NoSave EXCEPT !.pc = "saved"]]
    /\ UNCHANGED <<clock, enabled, disk, cleaner>>

SaveBuildResult(s, dir, have) == dir \in {HashDir(h) : h \in Hashes} \cup {Stamp(clock)} /\ BeginSave(s, dir, BuildFiles(have))
SaveIntentResult(s, have) == BeginSave(s, Stamp(clock), IntentFiles(have))
WriteText(s) == BeginSave(s, Stamp(clock), <<"text">>)

(* create_operation_dir(): a directory that exists is taken as it is.      *)
CreateOperationDir(s) ==
    /\ saves[s].pc = "mkdir"
    /\ disk' = IF disk[saves[s].dir].exists THEN disk
               ELSE [disk EXCEPT ![saves[s].dir] = [exists |-> TRUE, touched |-> clock, files |-> {}]]
    /\ saves' = [saves EXCEPT ![s].pc = "write"]
    /\ UNCHANGED <<clock, enabled, cleaner>>

(* Faulty variant: a file that cannot be opened is skipped and listed. *)
WriteNextUnchecked(s) ==
    LET dir == saves[s].dir file == Head(saves[s].left) IN
    /\ saves[s].pc = "write" /\ saves[s].left # << >>
    /\ disk' = IF ~disk[dir].exists THEN disk
               ELSE [disk EXCEPT ![dir] = [exists |-> TRUE, touched |-> clock, files |-> @.files \cup {file}]]
    /\ saves' = [saves EXCEPT ![s].left = Tail(@), ![s].listed = @ \cup {file}]
    /\ UNCHANGED <<clock, enabled, cleaner>>

(* write_text_file(), write_binary_file(), copy_file() and the push_back() *)
(* behind it: a file in a directory that has gone cannot be opened.        *)
WriteNext(s) ==
    LET dir == saves[s].dir file == Head(saves[s].left) IN
    /\ saves[s].pc = "write" /\ saves[s].left # << >> /\ disk[dir].exists
    /\ disk' = [disk EXCEPT ![dir] = [exists |-> TRUE, touched |-> clock, files |-> @.files \cup {file}]]
    /\ saves' = [saves EXCEPT ![s].left = Tail(@), ![s].listed = @ \cup {file}]
    /\ UNCHANGED <<clock, enabled, cleaner>>

(* Any step throws: the error is returned with the files listed so far.    *)
SaveFails(s) ==
    /\ saves[s].pc = "mkdir" \/ (saves[s].pc = "write" /\ saves[s].left # << >>)
    /\ saves' = [saves EXCEPT ![s].pc = "failed"]
    /\ UNCHANGED <<clock, enabled, disk, cleaner>>

SaveEnds(s) ==
    /\ saves[s].pc = "write" /\ saves[s].left = << >>
    /\ saves' = [saves EXCEPT ![s].pc = "saved"]
    /\ UNCHANGED <<clock, enabled, disk, cleaner>>
-----------------------------------------------------------------------------
(* cleanup_nonessential(): the walk over the directories that exist ...    *)
CleanupBegins ==
    /\ cleaner.pc = "idle" /\ enabled /\ CleanupAfter # 0
    /\ cleaner' = [pc |-> "walk", todo |-> {d \in Dirs : disk[d].exists}, at |-> Stamp(0)]
    /\ UNCHANGED <<clock, enabled, disk, saves>>

Essential(d) == disk[d].files \cap {"transaction.mn", "transaction.hex", "metadata.json"} # {}
UntouchedSince(d) == disk[d].touched + CleanupAfter < clock

(* ... looks at one: what has an essential file, any file, or was touched  *)
(* since the cutoff is left alone;                                         *)
CleanupLooks(d) ==
    /\ cleaner.pc = "walk" /\ d \in cleaner.todo
    /\ cleaner' = [pc |-> IF disk[d].exists /\ ~Essential(d) /\ disk[d].files = {} /\ UntouchedSince(d) THEN "remove" ELSE "walk",
                   todo |-> cleaner.todo \ {d}, at |-> d]
    /\ UNCHANGED <<clock, enabled, disk, saves>>

(* Faulty variant: remove_all() instead of remove(). *)
CleanupRemovesAll ==
    /\ cleaner.pc = "remove"
    /\ disk' = [disk EXCEPT ![cleaner.at] = NoDir]
    /\ cleaner' = [cleaner EXCEPT !.pc = "walk"]
    /\ UNCHANGED <<clock, enabled, saves>>

(* and removes it.  By now it may hold files: remove() refuses, and the    *)
(* cleanup ends with an error.                                             *)
CleanupRemoves ==
    /\ cleaner.pc = "remove"
    /\ IF disk[cleaner.at].files = {}
       THEN /\ disk' = [disk EXCEPT ![cleaner.at] = NoDir]
            /\ cleaner' = [cleaner EXCEPT !.pc = "walk"]
       ELSE /\ cleaner' = Resting /\ UNCHANGED disk
    /\ UNCHANGED <<clock, enabled, saves>>

CleanupEnds ==
    /\ cleaner.pc = "walk" /\ cleaner.todo = {}
    /\ cleaner' = Resting
    /\ UNCHANGED <<clock, enabled, disk, saves>>

ArtifactNext ==
    \/ ClockTicks \/ CleanupBegins \/ CleanupRemoves \/ CleanupEnds
    \/ \E d \in Dirs : CleanupLooks(d)
    \/ \E s \in ArtifactSavers :
          \/ WriteText(s) \/ CreateOperationDir(s) \/ WriteNext(s) \/ SaveFails(s) \/ SaveEnds(s)
          \/ \E have \in {{}, {"ledger.log", "copies"}} : SaveIntentResult(s, have)
          \/ \E d \in Dirs, have \in {{}, {"transaction.mn", "transaction.hex"}} : SaveBuildResult(s, d, have)
-----------------------------------------------------------------------------
(* Every file a save has listed, whether the save succeeded, failed later  *)
(* or is still under way, is in its directory, although a cleanup started  *)
(* at any moment may have found that directory empty and old.              *)
ArtifactsKept == \A s \in ArtifactSavers : saves[s].listed \subseteq disk[saves[s].dir].files
=============================================================================
