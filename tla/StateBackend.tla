---------------------------- MODULE StateBackend ----------------------------
(***************************************************************************)
(* The ledger state a transaction is built from: LocalStateBackend and     *)
(* ManagedStateBackend (src/src/production/state_backend.cpp) and the      *)
(* operations of MidnightClient on them, build, sync_ledger_state,         *)
(* refresh_state, ensure_state_fresh, export_state_snapshot and            *)
(* import_state_snapshot (src/src/production/midnight_client.cpp).         *)
(*                                                                         *)
(* Several processes work on the same files (an application and the        *)
(* operator's tools), each in the middle of at most one operation, and may *)
(* crash anywhere.  The fetch cache and the ledger-state DB are            *)
(* represented by the block height they reach, 0 when they hold no data.   *)
(* The ledger backend behind the FFI and the state service are external.   *)
(***************************************************************************)
EXTENDS Naturals, FiniteSets, TLC

CONSTANTS Procs,    \* processes
          MaxTip,   \* bound: height of the chain
          MaxLag,   \* option max_lag_blocks
          Sources   \* the SourceConfigs callers use, see SourceConfig

Modes == {"Auto", "LocalCache", "ColdSync", "Bounded"}

(* source_mode; src_files given; from_block and to_block: "none", "half"   *)
(* (one of them) or "both"; fetch_only_cached; require_ledger_state_cache; *)
(* ledger_state_db is a local path (or a URL).                             *)
SourceConfig ==
    [mode : Modes, files : BOOLEAN, bounds : {"none", "half", "both"},
     cached : BOOLEAN, require : BOOLEAN, local : BOOLEAN]

ASSUME StateAssumption ==
    /\ Sources \subseteq SourceConfig
    /\ MaxTip \in Nat \ {0} /\ MaxLag \in Nat

VARIABLES
    backend,    \* "local" or "managed"
    tip,        \* external: height of the node's chain
    fetch,      \* height of the fetch cache
    state,      \* height of the ledger-state DB
    snap,       \* the snapshot directory
    service,    \* external: height of the state service
    op,         \* op[p]: the operation process p is in
    vouched,    \* history: the DB was reported ready and not lost since
    torn        \* history: a copy was disturbed, cut short or incomplete

cacheVars == <<fetch, state, snap>>
backendVars == <<backend, tip, cacheVars, service, op, vouched, torn>>

NoSource == [mode |-> "Auto", files |-> FALSE, bounds |-> "none",
             cached |-> FALSE, require |-> FALSE, local |-> TRUE]

(* The sources of the run: one of every kind that the code tells apart. *)
SourceKinds ==
    {[NoSource EXCEPT !.require = TRUE],                                    \* Auto, RPC
     [NoSource EXCEPT !.files = TRUE],                                      \* Auto, files
     [NoSource EXCEPT !.bounds = "half"],                                   \* refused
     [NoSource EXCEPT !.bounds = "both"],                                   \* becomes Bounded
     [NoSource EXCEPT !.mode = "LocalCache", !.require = TRUE, !.local = FALSE],
     [NoSource EXCEPT !.mode = "ColdSync", !.cached = TRUE]}

(* The run takes the processes to be interchangeable. *)
ProcSymmetry == Permutations(Procs)

(* asked: the source mode a build was called with; src: the source in use; *)
(* cp, seen: checkpoint and tip of the status; fetched: the build fetched  *)
(* the history of the chain from RPC.                                      *)
Idle == [kind |-> "none", at |-> "idle", asked |-> "Auto", src |-> NoSource,
         force |-> FALSE, allow |-> FALSE, cp |-> 0, seen |-> 0,
         skipped |-> FALSE, fetched |-> FALSE, error |-> "none"]

BackendInit ==
    /\ backend \in {"local", "managed"}
    /\ tip = 1
    /\ fetch = 0 /\ state = 0
    /\ snap = [fetch |-> 0, state |-> 0]
    /\ service \in 0..1
    /\ op = [p \in Procs |-> Idle]
    /\ vouched = FALSE /\ torn = FALSE

Copying(p) == op[p].kind \in {"export", "import"} /\ op[p].at = "copy_state"

(* A process other than p is between the two copies of a snapshot. *)
Disturbs(p) == \E q \in Procs \ {p} : Copying(q)

Step(p, r) == op' = [op EXCEPT ![p] = r]
GoTo(p, at) == Step(p, [op[p] EXCEPT !.at = at])
BackendFail(p, e) == Step(p, [Idle EXCEPT !.kind = op[p].kind, !.at = "done", !.error = e])
BackendSucceed(p) == BackendFail(p, "none")
-----------------------------------------------------------------------------
(* Sources. *)

IsBoundedSource(s) == s.bounds # "none"

NormalizeKeepsAuto(s) ==
    IF s.mode = "LocalCache" THEN [s EXCEPT !.cached = TRUE]
    ELSE IF s.mode \in {"ColdSync", "Bounded"} THEN [s EXCEPT !.cached = FALSE]
    ELSE IF IsBoundedSource(s) THEN [s EXCEPT !.mode = "Bounded"]
    ELSE s

NormalizeSourceForTransactionBuild(s) ==
    IF s.mode = "LocalCache" THEN [s EXCEPT !.cached = TRUE]
    ELSE IF s.mode \in {"ColdSync", "Bounded"} THEN [s EXCEPT !.cached = FALSE]
    ELSE IF IsBoundedSource(s) THEN [s EXCEPT !.mode = "Bounded"]
    ELSE IF ~s.files THEN [s EXCEPT !.mode = "LocalCache", !.cached = TRUE]
    ELSE s

NormalizeSourceForSync(s) ==
    IF s.mode = "LocalCache" THEN [s EXCEPT !.cached = TRUE]
    ELSE IF s.mode = "ColdSync" THEN [s EXCEPT !.cached = FALSE]
    ELSE s

(* cache_path_has_data(): a URL is taken to have data. *)
CachePathHasData(s) == ~s.local \/ state > 0

(* validate_source() *)
SourceInvalid(s) == s.bounds = "half" \/ (s.mode = "Bounded" /\ s.bounds # "both")
CacheMissing(s) == s.require /\ s.cached /\ s.mode = "LocalCache" /\ ~CachePathHasData(s)

(* LocalStateBackend::status(): a URL is never ready. *)
ReadyByFetchCache(s) == s.local /\ fetch > 0
Ready(s) == s.local /\ state > 0
-----------------------------------------------------------------------------
(* Building a transaction. *)

(* validate_source(), the cache check in it included, and the proof server *)
(* probe.                                                                  *)
StartBuild(p) ==
    /\ op[p].at = "idle"
    /\ \E s \in Sources :
          LET n == NormalizeSourceForTransactionBuild(s)
              o == [Idle EXCEPT !.kind = "build"]
              Refused(e) == Step(p, [o EXCEPT !.at = "done", !.error = e])
          IN  \/ SourceInvalid(n) /\ Refused("source")
              \/ ~SourceInvalid(n) /\ CacheMissing(n) /\ Refused("no_cache")
              \/ /\ ~SourceInvalid(n) /\ ~CacheMissing(n)
                 /\ \/ Step(p, [o EXCEPT !.at = "build", !.asked = s.mode, !.src = n])
                    \/ Refused("proof_server")
    /\ UNCHANGED <<backend, tip, cacheVars, service, vouched, torn>>

(* The FFI builds from the caches if fetch_only_cached; from the files or  *)
(* the bounded range; and else fetches the history of the chain first.     *)
FfiBuild(p) ==
    /\ op[p].at = "build"
    /\ LET s == op[p].src
           fetches == ~s.cached /\ ~s.files /\ s.bounds = "none"
       IN  /\ Step(p, [Idle EXCEPT !.kind = "build", !.at = "done", !.asked = op[p].asked,
                                    !.fetched = fetches])
           /\ IF fetches THEN fetch' = tip /\ state' = (IF s.local THEN tip ELSE state)
                         ELSE UNCHANGED <<fetch, state>>
           /\ torn' = (torn \/ (fetches /\ Disturbs(p)))
    /\ UNCHANGED <<backend, tip, snap, service, vouched>>

FfiBuildFails(p) ==
    /\ op[p].at = "build"
    /\ BackendFail(p, "ledger")
    /\ UNCHANGED <<backend, tip, cacheVars, service, vouched, torn>>
-----------------------------------------------------------------------------
(* sync_ledger_state, refresh_state and ensure_state_fresh.                *)

(* What they use of a source. *)
SyncSource(s) == [NoSource EXCEPT !.mode = s.mode, !.cached = s.cached, !.local = s.local]

StartSync(p) ==
    /\ op[p].at = "idle"
    /\ \E s \in Sources :
          LET n == NormalizeSourceForSync(s)
              o == [Idle EXCEPT !.kind = "sync"]
          IN  Step(p, IF s.bounds = "half" THEN [o EXCEPT !.at = "done", !.error = "source"]
                                           ELSE [o EXCEPT !.at = "fetch", !.src = SyncSource(n)])
    /\ UNCHANGED <<backend, tip, cacheVars, service, vouched, torn>>

(* What a managed backend is asked, it passes on to the service. *)
StartRefresh(p) ==
    /\ op[p].at = "idle"
    /\ \E s \in Sources, k \in {"refresh", "ensure"}, f \in BOOLEAN, a \in BOOLEAN :
          Step(p, [Idle EXCEPT !.kind = k, !.force = f, !.allow = a,
                               !.src = IF backend = "local" THEN SyncSource(s) ELSE NoSource,
                               !.at = IF k = "ensure" THEN "check" ELSE "refresh"])
    /\ UNCHANGED <<backend, tip, cacheVars, service, vouched, torn>>

(* ensure_state_fresh() on a local backend, which never has a checkpoint:  *)
(* a DB with data is fresh enough, however old.                            *)
EnsureLocal(p) ==
    /\ op[p].at = "check" /\ backend = "local"
    /\ LET skip == ~op[p].force /\ Ready(op[p].src)
       IN  IF skip THEN Step(p, [Idle EXCEPT !.kind = "ensure", !.at = "done", !.skipped = TRUE])
                   ELSE GoTo(p, "refresh")
    /\ vouched' = (vouched \/ Ready(op[p].src))
    /\ UNCHANGED <<backend, tip, cacheVars, service, torn>>

(* The same on a managed backend: the service's status, with or without a  *)
(* checkpoint and with the tip it knows of, if any.                        *)
EnsureManagedAsks(p) ==
    /\ op[p].at = "check" /\ backend = "managed" /\ service > 0
    /\ \E cp \in {0, service}, t \in {0} \cup service..tip :
          Step(p, [op[p] EXCEPT !.cp = cp, !.seen = t,
                                !.at = IF cp > 0 /\ t = 0 THEN "ask_tip" ELSE "decide"])
    /\ UNCHANGED <<backend, tip, cacheVars, service, vouched, torn>>

(* Not ready, or no answer. *)
EnsureManagedUnready(p) ==
    /\ op[p].at = "check" /\ backend = "managed"
    /\ GoTo(p, "refresh")
    /\ UNCHANGED <<backend, tip, cacheVars, service, vouched, torn>>

(* best_effort_remote_tip(): unknown when the node does not answer. *)
AskTip(p) ==
    /\ op[p].at = "ask_tip"
    /\ \E t \in {0, tip} : Step(p, [op[p] EXCEPT !.seen = t, !.at = "decide"])
    /\ UNCHANGED <<backend, tip, cacheVars, service, vouched, torn>>

LagReversed(o) == IF o.cp > o.seen THEN o.cp - o.seen ELSE 0

Lag(o) == IF o.seen > o.cp THEN o.seen - o.cp ELSE 0

(* Without a tip the lag is what the service said, taken as any value. *)
EnsureDecides(p) ==
    /\ op[p].at = "decide"
    /\ \E lag \in IF op[p].cp > 0 /\ op[p].seen > 0 THEN {Lag(op[p])} ELSE 0..MaxTip :
          LET skip == ~op[p].force /\ (op[p].cp = 0 \/ lag <= MaxLag)
          IN  IF skip THEN Step(p, [op[p] EXCEPT !.at = "done", !.skipped = TRUE])
                      ELSE Step(p, [op[p] EXCEPT !.at = "refresh", !.cp = 0, !.seen = 0])
    /\ UNCHANGED <<backend, tip, cacheVars, service, vouched, torn>>

(* LocalStateBackend::refresh() *)
RefreshLocal(p) ==
    /\ op[p].at = "refresh" /\ backend = "local"
    /\ LET o == op[p]
           ready == Ready(o.src)
       IN  \/ /\ ~o.force /\ ready /\ ~o.allow
              /\ Step(p, [Idle EXCEPT !.kind = o.kind, !.at = "done", !.skipped = TRUE])
           \/ /\ ~o.allow /\ ~ready
              /\ BackendFail(p, "not_ready")
           \/ /\ o.allow \/ (o.force /\ ready)
              /\ Step(p, [Idle EXCEPT !.kind = o.kind, !.at = "fetch",
                     !.src = IF o.src.mode \in {"Auto", "LocalCache"}
                               THEN [o.src EXCEPT !.mode = "ColdSync", !.cached = FALSE] ELSE o.src])
    /\ vouched' = (vouched \/ Ready(op[p].src))
    /\ UNCHANGED <<backend, tip, cacheVars, service, torn>>

(* ManagedStateBackend::refresh(): the service catches up, or the request  *)
(* fails, possibly after it did.                                           *)
RefreshManaged(p) ==
    /\ op[p].at = "refresh" /\ backend = "managed"
    /\ \E h \in service..tip : service' = h
    /\ BackendSucceed(p) \/ BackendFail(p, "service")
    /\ UNCHANGED <<backend, tip, cacheVars, vouched, torn>>

(* ILedgerBackend::sync_ledger_state(), external: it fetches as far as it  *)
(* gets, then brings the DB up to the fetch cache.                         *)
SyncFetches(p) ==
    /\ op[p].at = "fetch"
    /\ \E h \in (IF op[p].src.cached THEN {fetch} ELSE fetch..tip) : fetch' = h
    /\ GoTo(p, "apply") \/ BackendFail(p, "ledger")
    /\ torn' = (torn \/ Disturbs(p))
    /\ UNCHANGED <<backend, tip, state, snap, service, vouched>>

SyncApplies(p) ==
    /\ op[p].at = "apply"
    /\ \/ state' = (IF op[p].src.local /\ fetch > state THEN fetch ELSE state) /\ BackendSucceed(p)
       \/ state' = state /\ BackendFail(p, "ledger")
    /\ torn' = (torn \/ Disturbs(p))
    /\ UNCHANGED <<backend, tip, fetch, snap, service, vouched>>
-----------------------------------------------------------------------------
(* Snapshots: the fetch cache is copied first, then the DB.  copy_path()   *)
(* skips what is not there, leaving the destination as it is.              *)

CopyPathSkipsExisting(from, to) == IF to > 0 THEN to ELSE from

CopyPath(from, to) == IF from > 0 THEN from ELSE to

StartSnapshot(p) ==
    /\ op[p].at = "idle"
    /\ \E k \in {"export", "import"} :
          LET o == [Idle EXCEPT !.kind = k]
          IN  Step(p, IF backend = "managed" THEN [o EXCEPT !.at = "done", !.error = "unsupported"]
                                             ELSE [o EXCEPT !.at = "copy_fetch"])
    /\ UNCHANGED <<backend, tip, cacheVars, service, vouched, torn>>

ExportFetch(p) ==
    /\ op[p].kind = "export" /\ op[p].at = "copy_fetch"
    /\ snap' = [snap EXCEPT !.fetch = CopyPath(fetch, @)]
    /\ GoTo(p, "copy_state")
    /\ torn' = (torn \/ Disturbs(p))
    /\ UNCHANGED <<backend, tip, fetch, state, service, vouched>>

ExportState(p) ==
    /\ op[p].kind = "export" /\ op[p].at = "copy_state"
    /\ snap' = [snap EXCEPT !.state = CopyPath(state, @)]
    /\ BackendSucceed(p)
    /\ torn' = (torn \/ Disturbs(p))
    /\ UNCHANGED <<backend, tip, fetch, state, service, vouched>>

ImportFetch(p) ==
    /\ op[p].kind = "import" /\ op[p].at = "copy_fetch"
    /\ fetch' = CopyPath(snap.fetch, fetch)
    /\ GoTo(p, "copy_state")
    /\ torn' = (torn \/ Disturbs(p) \/ (snap.fetch = 0) # (snap.state = 0))
    /\ UNCHANGED <<backend, tip, state, snap, service, vouched>>

ImportState(p) ==
    /\ op[p].kind = "import" /\ op[p].at = "copy_state"
    /\ state' = CopyPath(snap.state, state)
    /\ BackendSucceed(p)
    /\ torn' = (torn \/ Disturbs(p))
    /\ UNCHANGED <<backend, tip, fetch, snap, service, vouched>>

(* A copy that ends in the middle: the file it was overwriting may have    *)
(* been truncated, and its content is then lost.                           *)
CutShort(p) ==
    LET o == op[p]
        fetching == o.at = "copy_fetch"
    IN  \/ /\ UNCHANGED <<cacheVars, vouched>>
           /\ torn' = (torn \/ Copying(p))
        \/ /\ o.kind = "export" /\ (IF fetching THEN fetch ELSE state) > 0
           /\ snap' = IF fetching THEN [snap EXCEPT !.fetch = 0] ELSE [snap EXCEPT !.state = 0]
           /\ torn' = TRUE
           /\ UNCHANGED <<fetch, state, vouched>>
        \/ /\ o.kind = "import" /\ fetching /\ snap.fetch > 0
           /\ fetch' = 0 /\ torn' = TRUE
           /\ UNCHANGED <<state, snap, vouched>>
        \/ /\ o.kind = "import" /\ ~fetching /\ snap.state > 0
           /\ state' = 0 /\ vouched' = FALSE /\ torn' = TRUE
           /\ UNCHANGED <<fetch, snap>>

CopyFails(p) ==
    /\ op[p].at \in {"copy_fetch", "copy_state"}
    /\ BackendFail(p, "artifact")
    /\ CutShort(p)
    /\ UNCHANGED <<backend, tip, service>>
-----------------------------------------------------------------------------
BackendReturn(p) ==
    /\ op[p].at = "done"
    /\ Step(p, Idle)
    /\ UNCHANGED <<backend, tip, cacheVars, service, vouched, torn>>

BackendCrash(p) ==
    /\ op[p].at \notin {"idle", "done"}
    /\ Step(p, Idle)
    /\ IF op[p].at \in {"copy_fetch", "copy_state"} THEN CutShort(p)
                                                  ELSE UNCHANGED <<cacheVars, vouched, torn>>
    /\ UNCHANGED <<backend, tip, service>>

(* The chain grows, the service follows, an operator deletes the DB. *)
TipGrows ==
    /\ tip < MaxTip /\ tip' = tip + 1
    /\ UNCHANGED <<backend, cacheVars, service, op, vouched, torn>>

ServiceFollows ==
    /\ service < tip /\ service' = service + 1
    /\ UNCHANGED <<backend, tip, cacheVars, op, vouched, torn>>

StateDeleted ==
    /\ state > 0 /\ state' = 0
    /\ vouched' = FALSE
    /\ torn' = (torn \/ \E p \in Procs : Copying(p))
    /\ UNCHANGED <<backend, tip, fetch, snap, service, op>>

BackendNext ==
    \/ \E p \in Procs :
          \/ StartBuild(p) \/ FfiBuild(p) \/ FfiBuildFails(p)
          \/ StartSync(p) \/ StartRefresh(p)
          \/ EnsureLocal(p) \/ EnsureManagedAsks(p) \/ EnsureManagedUnready(p)
          \/ AskTip(p) \/ EnsureDecides(p)
          \/ RefreshLocal(p) \/ RefreshManaged(p) \/ SyncFetches(p) \/ SyncApplies(p)
          \/ StartSnapshot(p) \/ ExportFetch(p) \/ ExportState(p)
          \/ ImportFetch(p) \/ ImportState(p) \/ CopyFails(p)
          \/ BackendReturn(p) \/ BackendCrash(p)
    \/ TipGrows \/ ServiceFollows \/ StateDeleted

BackendSpec == BackendInit /\ [][BackendNext]_backendVars
-----------------------------------------------------------------------------
Operation ==
    [kind : {"none", "build", "sync", "refresh", "ensure", "export", "import"},
     at : {"idle", "build", "fetch", "apply", "check", "ask_tip", "decide",
           "refresh", "copy_fetch", "copy_state", "done"},
     asked : Modes, src : SourceConfig, force : BOOLEAN, allow : BOOLEAN,
     cp : 0..MaxTip, seen : 0..MaxTip, skipped : BOOLEAN, fetched : BOOLEAN,
     error : {"none", "source", "no_cache", "proof_server", "ledger", "not_ready",
              "service", "unsupported", "artifact"}]

(* Types. *)
BackendTypeOK ==
    /\ backend \in {"local", "managed"}
    /\ tip \in 1..MaxTip /\ service \in 0..tip
    /\ fetch \in 0..tip /\ state \in 0..tip
    /\ snap \in [fetch : 0..tip, state : 0..tip]
    /\ op \in [Procs -> Operation]
    /\ vouched \in BOOLEAN /\ torn \in BOOLEAN

(* A build never fetches the history of the chain unless its caller asked  *)
(* for ColdSync by name: not for Auto, not because the cache is missing,   *)
(* and not with a fetch_only_cached left over from another mode.           *)
NoSilentColdSync ==
    \A p \in Procs : (op[p].kind = "build" /\ op[p].fetched) => op[p].asked = "ColdSync"

(* Once a refresh or ensure_state_fresh() found the local DB ready, no     *)
(* build is refused for a missing cache until the DB is deleted, by an     *)
(* operator or by an import cut short: the two readiness checks, of the    *)
(* state backend and of validate_source(), agree, whatever snapshots are   *)
(* imported and however syncs fail in between.                             *)
ReadyMeansBuildable ==
    [][\A p \in Procs : (op'[p].error = "no_cache" /\ op[p].error # "no_cache") => ~vouched]_backendVars

(* When ensure_state_fresh() skips on the strength of a checkpoint and a   *)
(* tip, the state service is within max_lag_blocks of that tip, although   *)
(* status and tip were asked for at different moments.                     *)
SkippedMeansFresh ==
    \A p \in Procs :
        (op[p].kind = "ensure" /\ op[p].skipped /\ op[p].cp > 0 /\ op[p].seen > 0)
          => service + MaxLag >= op[p].seen

(* The wallet's ledger state is never ahead of the source blocks it is     *)
(* replayed against, here and in the snapshot, as long as no snapshot copy *)
(* was disturbed by another process, cut short, or imported incomplete;    *)
(* failed syncs, crashes during one and imports of old snapshots included. *)
StateNotAheadOfSource ==
    (~torn /\ \A p \in Procs : ~Copying(p)) => (state <= fetch /\ snap.state <= snap.fetch)
=============================================================================
