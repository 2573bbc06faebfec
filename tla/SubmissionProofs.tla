-------------------------- MODULE SubmissionProofs --------------------------
(***************************************************************************)
(* Proofs about what stands between a wallet and the pool of a node, for   *)
(* every set of transactions, coins, builders, keys and threads, for       *)
(* amounts, orders and purses of any size, and for each of the parts that  *)
(* MCNodeSubmission runs.                                                  *)
(***************************************************************************)
EXTENDS MCNodeSubmission, TLAPS, FiniteSetTheorems, SequenceTheorems

-----------------------------------------------------------------------------
(***************************************************************************)
(* Submitters: what each of them tells its caller.                         *)
(***************************************************************************)

(* TransactionSubmitter: a transaction the node took is on record as       *)
(* submitted or as lost, and the one being submitted is not on record yet. *)
SubmitterInv ==
    /\ subResult \in [PoolTxs -> {"none", "SUBMITTED", "FAILED"}]
    /\ submitting \in [tx : PoolTxs \cup {NoTx}, path : RpcPaths]
    /\ txPool \subseteq PoolTxs
    /\ poolThread \in [state : {"none", "poll", "report"}, last : SUBSET PoolTxs, current : SUBSET PoolTxs]
    /\ submitting.tx # NoTx =>
          submitting.tx \in PoolTxs /\ subResult[submitting.tx] # "SUBMITTED"
    /\ \A t \in PoolTxs : t \in held /\ t \notin lost => subResult[t] = "SUBMITTED"
    /\ SubmitterViewsHonest

LEMMA SubmitterInitial == SubmitterInit => SubmitterInv
  BY DEF SubmitterInit, SubmitterInv, SubmitterViewsHonest, NotSubmitting, NoThread, RpcPaths

LEMMA SubmitterStep == SubmitterInv /\ SubmitterNext => SubmitterInv'
  <1> SUFFICES ASSUME SubmitterInv, SubmitterNext PROVE SubmitterInv'
    OBVIOUS
  <1> USE DEF SubmitterInv, SubmitterViewsHonest
  <1>1. CASE \E t \in PoolTxs : Submit(t)
    BY <1>1 DEF Submit, NotSubmitting, RpcPaths
  <1>2. CASE \E t \in PoolTxs : PoolLoses(t) \/ PoolWaitStart(t)
    BY <1>2 DEF PoolLoses, PoolWaitStart
  <1>3. CASE \E keys \in {{"own"}, {"node", "own"}} : SubmissionAccepted(keys)
    <2>1. PICK keys \in {{"own"}, {"node", "own"}} : SubmissionAccepted(keys)
      BY <1>3
    <2>2. /\ subCache' = subCache \cup ({submitting.tx} \X keys)
          /\ held' = held \cup {submitting.tx}
      BY <2>1 DEF SubmissionAccepted, Takes
    <2>3. \A key \in subCache' : key[1] \in held'
      BY <2>2
    <2> QED BY <2>1, <2>3 DEF SubmissionAccepted, Takes, NotSubmitting, RpcPaths
  <1>4. CASE SubmissionRefused
    BY <1>4 DEF SubmissionRefused, NotSubmitting, RpcPaths
  <1>5. CASE WaitTurn \/ (\E b \in BOOLEAN : PoolPoll(b) \/ PoolWaitTurn(b))
             \/ (\E key \in CacheKeys : WaitForInclusion(key))
    BY <1>5, ZenonT(60) DEF WaitTurn, PoolPoll, PoolWaitTurn, WaitForInclusion
  <1>6. CASE MonitorMempool \/ PoolReport \/ PoolThreadEnds
    <2>1. CASE MonitorMempool
      <3>1. UNCHANGED <<held, txPool, submitting, lost, subResult, subCache>>
        BY <2>1 DEF MonitorMempool
      <3>2. /\ poolThread' \in [state : {"none", "poll", "report"}, last : SUBSET PoolTxs, current : SUBSET PoolTxs]
            /\ poolThread'.last \subseteq heard'
        BY <2>1 DEF MonitorMempool, NoThread
      <3> QED BY <3>1, <3>2
    <2>2. CASE PoolReport
      BY <2>2 DEF PoolReport
    <2>3. CASE PoolThreadEnds
      BY <2>3 DEF PoolThreadEnds, NoThread
    <2> QED BY <1>6, <2>1, <2>2, <2>3
  <1>7. CASE \E b \in BOOLEAN : PostThrows(b)
    BY <1>7 DEF PostThrows, Takes, NotSubmitting, RpcPaths
  <1> QED BY <1>1, <1>2, <1>3, <1>4, <1>5, <1>6, <1>7 DEF SubmitterNext

(* Contracts: the indexer follows the chain. *)
ContractsInv ==
    /\ indexed \subseteq chain
    /\ call \in [by : {"none", "manager", "interactor"}, kind : {"none", "deploy", "call"},
                 tx : ContractTxs \cup {NoBytes}, pc : {"idle", "inspect", "submit", "done", "threw"},
                 address : ContractTxs \cup {NoBytes}, answer : {"none"} \cup NodeAnswers,
                 success : BOOLEAN, error : BOOLEAN]
    /\ call.pc # "done" => ~call.success /\ call.answer = "none"
    /\ SubmissionsHonest

LEMMA ContractsInitial == ContractInit => ContractsInv
  <1> SUFFICES ASSUME ContractInit PROVE ContractsInv
    OBVIOUS
  <1>1. reading.says # "state"
    BY DEF ContractInit, NoReading
  <1>2. call = NoCall /\ indexed \subseteq chain
    BY DEF ContractInit
  <1> QED BY <1>1, <1>2 DEF ContractsInv, SubmissionsHonest, NoCall

LEMMA ContractsStep == ContractsInv /\ ContractNext => ContractsInv'
  <1> SUFFICES ASSUME ContractsInv, ContractNext PROVE ContractsInv'
    OBVIOUS
  <1> USE DEF ContractsInv, SubmissionsHonest
  <1>1. CASE \E tx \in ContractTxs : BlockIncludes(tx) \/ IndexerFollows(tx)
    BY <1>1 DEF BlockIncludes, IndexerFollows
  <1>2. CASE \E seed \in WalletSeeds \cup {""}, derives \in BOOLEAN : SetSeedHex(seed, derives)
    BY <1>2 DEF SetSeedHex
  <1>3. CASE \E by \in {"manager", "interactor"}, kind \in {"deploy", "call"}, tx \in ContractTxs \cup {NoBytes} :
                StartSubmission(by, kind, tx)
    <2>1. PICK by \in {"manager", "interactor"}, kind \in {"deploy", "call"}, tx \in ContractTxs \cup {NoBytes} :
             StartSubmission(by, kind, tx)
      BY <1>3
    <2>2. call' = [by |-> by, kind |-> kind, tx |-> tx, pc |-> IF kind = "deploy" THEN "inspect" ELSE "submit",
                   address |-> NoBytes, answer |-> "none", success |-> FALSE, error |-> FALSE]
      BY <2>1 DEF StartSubmission, NoCall
    <2>3. UNCHANGED <<taken, chain, indexed, reading>>
      BY <2>1 DEF StartSubmission
    <2> QED BY <2>2, <2>3
  <1>4. CASE \E outcome \in {"skipped", "named", "unnamed", "throws"} : InspectDeployment(outcome)
    BY <1>4, ZenonT(60) DEF InspectDeployment
  <1>5. CASE \E answer \in NodeAnswers : SubmitBytes(answer)
    <2>1. PICK answer \in NodeAnswers : SubmitBytes(answer)
      BY <1>5
    <2> QED BY <2>1, ZenonT(60) DEF SubmitBytes, Reported, NodeAnswers, NodeTakes
  <1>6. CASE \E kind \in ContractReads, tx \in ContractTxs, isHex, answered \in BOOLEAN :
                ReadContract(kind, tx, isHex, answered)
    BY <1>6 DEF ReadContract, ContractReads, Throwing
  <1>7. CASE \E kind \in WalletReads, answered \in BOOLEAN : ReadWallet(kind, answered)
    <2>1. UNCHANGED <<taken, chain, indexed, call>> /\ reading'.kind \notin ContractReads
      <3>1. PICK kind \in WalletReads, answered \in BOOLEAN : ReadWallet(kind, answered)
        BY <1>7
      <3>2. reading'.kind = kind
        BY <3>1 DEF ReadWallet
      <3>3. kind \notin ContractReads
        BY DEF WalletReads, ContractReads
      <3> QED BY <3>1, <3>2, <3>3 DEF ReadWallet
    <2> QED BY <2>1
  <1>8. CASE \E up \in SUBSET {"node", "proof_server", "indexer"} : HealthCheck(up)
    BY <1>8 DEF HealthCheck, ContractReads
  <1> QED BY <1>1, <1>2, <1>3, <1>4, <1>5, <1>6, <1>7, <1>8 DEF ContractNext

-----------------------------------------------------------------------------
(* WalletServices. *)

LEMMA Ranks == Rank("Submitted") = 1 /\ Rank("InBlock") = 2 /\ Rank("Finalized") = 3
  BY DEF Rank, Tags

(* What the callbacks were told about an entry whose status is now: ever   *)
(* more, and nothing beyond it.                                            *)
Statuses == {"Submitted", "InBlock", "Finalized"}
Told(s, now) ==
    /\ \A i, j \in 1..Len(s) : i < j => Rank(s[i]) < Rank(s[j])
    /\ \A i \in 1..Len(s) : Rank(s[i]) <= Rank(now)

(* i is the only entry of transaction t. *)
OnlyEntry(s, t, i) == i \in 1..Len(s) /\ \A j \in 1..Len(s) : s[j].tx = t <=> j = i
NoEntryOf(s, t) == \A j \in 1..Len(s) : s[j].tx # t

ServicesInv ==
    /\ onChain \in [ServiceTxs -> Statuses \cup {"unknown"}]
    /\ pending \in Seq([tx : ServiceTxs, status : Statuses])
    /\ polling \in 0..Len(pending)
    /\ callbacks \in [ServiceTxs -> Seq(Statuses)]
    /\ \A i \in 1..Len(pending) : pending[i].status = "Finalized" => onChain[pending[i].tx] = "Finalized"
    /\ \A t \in ServiceTxs : NoEntryOf(pending, t) => callbacks[t] = << >>
    /\ \A t \in ServiceTxs : \A i \in 1..Len(pending) :
          OnlyEntry(pending, t, i) => Told(callbacks[t], pending[i].status)

LEMMA ServicesInitial == ServicesInit => ServicesInv
  <1> SUFFICES ASSUME ServicesInit PROVE ServicesInv
    OBVIOUS
  <1>1. pending = << >> /\ polling = 0 /\ pending \in Seq([tx : ServiceTxs, status : Statuses])
    BY DEF ServicesInit
  <1>2. << >> \in Seq(Statuses)
    OBVIOUS
  <1>3. /\ callbacks = [t \in ServiceTxs |-> << >>]
        /\ onChain = [t \in ServiceTxs |-> "unknown"]
    BY DEF ServicesInit
  <1> QED BY <1>1, <1>2, <1>3 DEF ServicesInv, Statuses

(* As many places as entries stay, in increasing order: each entry that    *)
(* stays has one of them.                                                  *)
PlacesOf(was, stay) ==
    /\ was \in [1..Cardinality(stay) -> stay]
    /\ \A i, j \in 1..Cardinality(stay) : i < j => was[i] < was[j]

LEMMA AllStay ==
    ASSUME NEW stay, IsFiniteSet(stay), stay \in SUBSET Nat, NEW was, PlacesOf(was, stay)
    PROVE  /\ Cardinality(stay) \in Nat
           /\ \A k \in stay : \E i \in 1..Cardinality(stay) : was[i] = k
           /\ \A i, j \in 1..Cardinality(stay) : was[i] = was[j] => i = j
  <1> USE DEF PlacesOf
  <1>1. IsFiniteSet(stay) /\ Cardinality(stay) \in Nat
    BY FS_CardinalityType
  <1> DEFINE n == Cardinality(stay)
  <1>2. IsFiniteSet(1..n) /\ Cardinality(1..n) = n
    BY <1>1, FS_Interval
  <1>3. ASSUME NEW i \in 1..n, NEW j \in 1..n, was[i] = was[j] PROVE i = j
    <2>1. was[i] \in Nat /\ was[j] \in Nat
      OBVIOUS
    <2>2. ~ (i < j) /\ ~ (j < i)
      BY <1>3, <2>1
    <2> QED BY <1>1, <2>2
  <1>4. was \in Injection(1..n, stay)
    BY <1>3 DEF Injection, IsInjective
  <1>5. was \in Surjection(1..n, stay)
    BY <1>1, <1>2, <1>4, FS_Injection
  <1> QED BY <1>1, <1>3, <1>5 DEF Surjection

LEMMA ClearPendingKeeps ==
    ASSUME ServicesInv, NEW t \in ServiceTxs, ClearPending(t)
    PROVE  ServicesInv'
  <1> DEFINE stay == {i \in 1..Len(pending) : pending[i].tx # t}
             n == Cardinality(stay)
  <1>1. PICK was \in [1..n -> stay] :
            /\ \A i, j \in 1..n : i < j => was[i] < was[j]
            /\ pending' = [i \in 1..n |-> pending[was[i]]]
    BY DEF ClearPending
  <1>2. /\ pending \in Seq([tx : ServiceTxs, status : Statuses])
        /\ Len(pending) \in Nat
    BY DEF ServicesInv
  <1>3. /\ n \in Nat
        /\ \A k \in stay : \E i \in 1..n : was[i] = k
        /\ \A i, j \in 1..n : was[i] = was[j] => i = j
    <2>1. stay \in SUBSET Nat /\ IsFiniteSet(stay)
      <3>1. IsFiniteSet(1..Len(pending))
        BY <1>2, FS_Interval
      <3> QED BY <1>2, <3>1, FS_Subset
    <2> HIDE DEF stay
    <2>2. PlacesOf(was, stay)
      BY <1>1 DEF PlacesOf
    <2> QED BY <2>1, <2>2, AllStay
  <1>4. /\ UNCHANGED onChain /\ polling = 0 /\ polling' = 0
        /\ callbacks' = [callbacks EXCEPT ![t] = << >>]
        /\ callbacks \in [ServiceTxs -> Seq(Statuses)]
    BY DEF ClearPending, ServicesInv
  <1> HIDE DEF n, stay
  <1>5. \A i \in 1..n : was[i] \in 1..Len(pending) /\ pending[was[i]].tx # t
    BY DEF stay
  <1>6. /\ pending' \in Seq([tx : ServiceTxs, status : Statuses])
        /\ Len(pending') = n
        /\ \A i \in 1..n : pending'[i] = pending[was[i]]
    <2>1. pending' = [i \in 1..n |-> pending[was[i]]]
      BY <1>1
    <2>2. \A i \in 1..n : pending[was[i]] \in [tx : ServiceTxs, status : Statuses]
      BY <1>2, <1>5, ElementOfSeq
    <2>3. PICK R : R = [tx : ServiceTxs, status : Statuses]
      OBVIOUS
    <2>4. pending' \in [1..n -> R]
      BY <2>1, <2>2, <2>3
    <2>5. pending' \in Seq(R) /\ Len(pending') = n
      BY <1>3, <2>4
    <2> QED BY <2>1, <2>3, <2>5
  <1>7. \A i \in 1..Len(pending') : pending'[i].status = "Finalized" => onChain'[pending'[i].tx] = "Finalized"
    <2> SUFFICES ASSUME NEW i \in 1..n, pending'[i].status = "Finalized" PROVE onChain[pending'[i].tx] = "Finalized"
      BY <1>4, <1>6
    <2>1. pending'[i] = pending[was[i]] /\ was[i] \in 1..Len(pending)
      BY <1>5, <1>6
    <2> QED BY <2>1 DEF ServicesInv
  <1>8. ASSUME NEW u \in ServiceTxs, NoEntryOf(pending', u) PROVE callbacks'[u] = << >>
    <2>1. CASE u = t
      BY <1>4, <2>1
    <2>2. CASE u # t
      <3>1. ASSUME NEW k \in 1..Len(pending), pending[k].tx = u PROVE FALSE
        <4>1. k \in stay
          BY <2>2, <3>1 DEF stay
        <4>2. PICK i \in 1..n : was[i] = k
          BY <1>3, <4>1
        <4> QED BY <1>6, <1>8, <3>1, <4>2 DEF NoEntryOf
      <3> QED BY <1>4, <2>2, <3>1 DEF ServicesInv, NoEntryOf
    <2> QED BY <2>1, <2>2
  <1>9. ASSUME NEW u \in ServiceTxs, NEW i \in 1..Len(pending'), OnlyEntry(pending', u, i)
        PROVE  Told(callbacks'[u], pending'[i].status)
    <2>1. u # t /\ pending[was[i]].tx = u
      BY <1>5, <1>6, <1>9 DEF OnlyEntry
    <2>2. OnlyEntry(pending, u, was[i])
      <3>1. ASSUME NEW k \in 1..Len(pending), pending[k].tx = u PROVE k = was[i]
        <4>1. PICK j \in 1..n : was[j] = k
          BY <1>3, <2>1, <3>1 DEF stay
        <4>2. j = i
          BY <1>6, <1>9, <3>1, <4>1 DEF OnlyEntry
        <4> QED BY <4>1, <4>2
      <3> QED BY <1>5, <1>6, <2>1, <3>1 DEF OnlyEntry
    <2>3. callbacks'[u] = callbacks[u]
      BY <1>4, <2>1
    <2> QED BY <1>5, <1>6, <2>2, <2>3 DEF ServicesInv
  <1>10. callbacks' \in [ServiceTxs -> Seq(Statuses)]
    BY <1>4
  <1> QED BY <1>4, <1>6, <1>7, <1>8, <1>9, <1>10 DEF ServicesInv

LEMMA ServicesStep == ServicesInv /\ ServicesNext => ServicesInv'
  <1> SUFFICES ASSUME ServicesInv, ServicesNext PROVE ServicesInv'
    OBVIOUS
  <1>0. /\ pending \in Seq([tx : ServiceTxs, status : Statuses])
        /\ Len(pending) \in Nat
        /\ onChain \in [ServiceTxs -> Statuses \cup {"unknown"}]
        /\ callbacks \in [ServiceTxs -> Seq(Statuses)]
    BY DEF ServicesInv
  <1>a. \A i \in 1..Len(pending) :
           /\ pending[i] \in [tx : ServiceTxs, status : Statuses]
           /\ pending[i].tx \in ServiceTxs /\ pending[i].status \in Statuses
    <2> SUFFICES ASSUME NEW i \in 1..Len(pending)
                 PROVE  /\ pending[i] \in [tx : ServiceTxs, status : Statuses]
                        /\ pending[i].tx \in ServiceTxs /\ pending[i].status \in Statuses
      OBVIOUS
    <2>1. pending[i] \in [tx : ServiceTxs, status : Statuses]
      BY <1>0, ElementOfSeq
    <2> QED BY <2>1
  <1>1. CASE \E t \in ServiceTxs : ServiceChainMoves(t) \/ \E w \in {"Submitted", "InBlock", "Finalized"} : ServiceSubmits(t, w)
    <2>1. /\ UNCHANGED <<pending, polling, callbacks>>
          /\ onChain' \in [ServiceTxs -> Statuses \cup {"unknown"}]
          /\ \A t \in ServiceTxs : onChain[t] = "Finalized" => onChain'[t] = "Finalized"
      BY <1>0, <1>1 DEF ServiceChainMoves, ServiceSubmits, Statuses
    <2> QED BY <1>a, <2>1 DEF ServicesInv
  <1>2. CASE \E t \in ServiceTxs : AddPending(t)
    <2>1. PICK t \in ServiceTxs : AddPending(t)
      BY <1>2
    <2> DEFINE p == [tx |-> t, status |-> "Submitted"]
    <2>2. /\ pending' = Append(pending, p)
          /\ UNCHANGED <<onChain, callbacks>> /\ polling = 0 /\ polling' = 0
      BY <2>1 DEF AddPending
    <2>3. p \in [tx : ServiceTxs, status : Statuses] /\ p.tx = t /\ p.status = "Submitted"
      BY DEF Statuses
    <2> HIDE DEF p
    <2>4. /\ pending' \in Seq([tx : ServiceTxs, status : Statuses])
          /\ Len(pending') = Len(pending) + 1
          /\ \A i \in 1..Len(pending) : pending'[i] = pending[i]
          /\ pending'[Len(pending) + 1] = p
      BY <1>0, <2>2, <2>3
    <2>5. ASSUME NEW u \in ServiceTxs, NoEntryOf(pending', u) PROVE NoEntryOf(pending, u)
      BY <1>0, <2>4, <2>5 DEF NoEntryOf
    <2>6. ASSUME NEW u \in ServiceTxs, NEW i \in 1..Len(pending'), OnlyEntry(pending', u, i)
          PROVE  Told(callbacks[u], pending'[i].status)
      <3>1. CASE i = Len(pending) + 1
        <4>1. NoEntryOf(pending, u)
          BY <1>0, <2>4, <2>6, <3>1 DEF NoEntryOf, OnlyEntry
        <4>2. callbacks[u] = << >>
          BY <4>1 DEF ServicesInv
        <4> QED BY <4>2 DEF Told
      <3>2. CASE i \in 1..Len(pending)
        <4>1. OnlyEntry(pending, u, i)
          BY <1>0, <2>4, <2>6, <3>2, SMTT(30) DEF OnlyEntry
        <4> QED BY <2>4, <3>2, <4>1 DEF ServicesInv
      <3> QED BY <1>0, <2>4, <3>1, <3>2
    <2>7. \A i \in 1..Len(pending') : pending'[i].status = "Finalized" => onChain'[pending'[i].tx] = "Finalized"
      <3> SUFFICES ASSUME NEW i \in 1..Len(pending'), pending'[i].status = "Finalized"
                   PROVE  onChain'[pending'[i].tx] = "Finalized"
        OBVIOUS
      <3>1. i # Len(pending) + 1
        BY <2>3, <2>4
      <3>2. i \in 1..Len(pending) /\ pending'[i] = pending[i]
        BY <1>0, <2>4, <3>1
      <3> QED BY <2>2, <3>2 DEF ServicesInv
    <2> QED BY <1>0, <2>2, <2>4, <2>5, <2>6, <2>7 DEF ServicesInv
  <1>3. CASE \E t \in ServiceTxs : ClearPending(t)
    BY <1>3, ClearPendingKeeps
  <1>4. CASE CloseService \/ PollOnce \/ PollFails
    <2>1. UNCHANGED <<onChain, pending, callbacks>> /\ polling' \in 0..Len(pending)
      BY <1>0, <1>4 DEF CloseService, PollOnce, PollFails, ServicesInv
    <2> QED BY <2>1 DEF ServicesInv
  <1>5. CASE \E a \in {"Submitted", "InBlock", "Finalized"} : PollEntry(a)
    <2>1. PICK a \in Statuses : PollEntry(a)
      BY <1>5 DEF Statuses
    <2> DEFINE k == polling
               p == pending[k]
               next == NextStatus(p.status, a)
    <2>2. k \in 1..Len(pending) /\ p.tx \in ServiceTxs /\ p.status \in Statuses
      BY <1>0, <1>a, <2>1 DEF PollEntry, ServicesInv
    <2>3. /\ onChain[p.tx] # "unknown" /\ Rank(a) <= Rank(onChain[p.tx])
          /\ pending' = [pending EXCEPT ![k].status = next]
          /\ callbacks' = IF next # p.status THEN [callbacks EXCEPT ![p.tx] = Append(@, next)] ELSE callbacks
          /\ UNCHANGED onChain /\ polling' = AfterEntry
      BY <2>1 DEF PollEntry
    <2>4. next \in Statuses /\ (next # p.status => Rank(p.status) < Rank(next))
          /\ (next = "Finalized" => a = "Finalized" \/ p.status = "Finalized")
      BY <2>1, <2>2, Ranks DEF NextStatus, Statuses
    <2> HIDE DEF next
    <2>5. /\ pending' \in Seq([tx : ServiceTxs, status : Statuses])
          /\ Len(pending') = Len(pending)
          /\ \A i \in 1..Len(pending) : pending'[i].tx = pending[i].tx
          /\ \A i \in 1..Len(pending) : i # k => pending'[i] = pending[i]
          /\ pending'[k].status = next
      <3>1. pending' = [pending EXCEPT ![k] = [p EXCEPT !.status = next]]
        BY <2>3
      <3>2. [p EXCEPT !.status = next] \in [tx : ServiceTxs, status : Statuses]
        BY <1>a, <2>2, <2>4
      <3>3. [p EXCEPT !.status = next].tx = p.tx /\ [p EXCEPT !.status = next].status = next
        BY <1>a, <2>2
      <3> QED BY <1>0, <2>2, <3>1, <3>2, <3>3, ExceptSeq
    <2>6. a = "Finalized" => onChain[p.tx] = "Finalized"
      <3>1. onChain[p.tx] \in Statuses
        BY <1>0, <2>2, <2>3
      <3> DEFINE c == onChain[p.tx]
      <3>2. c \in Statuses /\ Rank(a) <= Rank(c)
        BY <2>3, <3>1
      <3> HIDE DEF c
      <3>3. a = "Finalized" => c = "Finalized"
        BY <3>2, Ranks DEF Statuses
      <3> QED BY <3>3 DEF c
    <2>7. \A i \in 1..Len(pending') : pending'[i].status = "Finalized" => onChain'[pending'[i].tx] = "Finalized"
      <3> SUFFICES ASSUME NEW i \in 1..Len(pending), pending'[i].status = "Finalized"
                   PROVE  onChain[pending[i].tx] = "Finalized"
        BY <2>3, <2>5
      <3>1. CASE i # k
        BY <2>5, <3>1 DEF ServicesInv
      <3>2. CASE i = k
        BY <2>2, <2>4, <2>5, <2>6, <3>2 DEF ServicesInv
      <3> QED BY <3>1, <3>2
    <2>8. ASSUME NEW u \in ServiceTxs, NoEntryOf(pending', u) PROVE callbacks'[u] = << >>
      <3>1. NoEntryOf(pending, u) /\ u # p.tx
        BY <2>2, <2>5, <2>8 DEF NoEntryOf
      <3> QED BY <1>0, <2>3, <3>1 DEF ServicesInv
    <2>9. ASSUME NEW u \in ServiceTxs, NEW i \in 1..Len(pending'), OnlyEntry(pending', u, i)
          PROVE  Told(callbacks'[u], pending'[i].status)
      <3>1. i \in 1..Len(pending) /\ OnlyEntry(pending, u, i)
        BY <2>5, <2>9 DEF OnlyEntry
      <3>2. Told(callbacks[u], pending[i].status) /\ callbacks[u] \in Seq(Statuses)
        BY <1>0, <3>1 DEF ServicesInv
      <3>3. CASE i # k
        <4>1. u # p.tx
          BY <2>2, <3>1, <3>3 DEF OnlyEntry
        <4> QED BY <1>0, <2>2, <2>3, <2>5, <3>1, <3>2, <3>3, <4>1
      <3>4. CASE i = k
        <4>1. u = p.tx /\ pending'[i].status = next
          BY <2>5, <3>1, <3>4 DEF OnlyEntry
        <4>2. CASE next = p.status
          BY <2>3, <3>2, <3>4, <4>1, <4>2
        <4>3. CASE next # p.status
          <5> DEFINE s == callbacks[u]
                     r == callbacks'[u]
          <5>1. r = Append(s, next)
            BY <1>0, <2>3, <4>1, <4>3
          <5>2. /\ Len(r) = Len(s) + 1 /\ Len(s) \in Nat
                /\ \A j \in 1..Len(s) : r[j] = s[j]
                /\ r[Len(s) + 1] = next
            BY <2>4, <3>2, <5>1
          <5>3. \A j \in 1..Len(s) : s[j] \in Statuses /\ Rank(s[j]) \in Nat
            BY <3>2, ElementOfSeq, Ranks DEF Statuses
          <5>4. Rank(next) \in Nat /\ Rank(p.status) \in Nat /\ Rank(p.status) < Rank(next)
            BY <2>2, <2>4, <4>3, Ranks DEF Statuses
          <5> HIDE DEF s, r
          <5>5. Told(s, p.status)
            BY <3>2, <3>4 DEF s
          <5>6. \A i1, i2 \in 1..Len(r) : i1 < i2 => Rank(r[i1]) < Rank(r[i2])
            <6> SUFFICES ASSUME NEW i1 \in 1..Len(r), NEW i2 \in 1..Len(r), i1 < i2
                         PROVE  Rank(r[i1]) < Rank(r[i2])
              OBVIOUS
            <6>1. i1 \in 1..Len(s) /\ r[i1] = s[i1] /\ Rank(s[i1]) <= Rank(p.status)
              BY <5>2, <5>5 DEF Told
            <6>2. CASE i2 \in 1..Len(s)
              <7>1. Rank(s[i1]) < Rank(s[i2])
                BY <5>5, <6>1, <6>2 DEF Told
              <7> QED BY <5>2, <6>1, <6>2, <7>1
            <6>3. CASE i2 = Len(s) + 1
              <7>1. Rank(s[i1]) \in Nat /\ r[i2] = next
                BY <5>2, <5>3, <6>1, <6>3
              <7> QED BY <5>4, <6>1, <7>1
            <6> QED BY <5>2, <6>2, <6>3
          <5>7. \A i1 \in 1..Len(r) : Rank(r[i1]) <= Rank(next)
            <6> SUFFICES ASSUME NEW i1 \in 1..Len(r) PROVE Rank(r[i1]) <= Rank(next)
              OBVIOUS
            <6>1. CASE i1 \in 1..Len(s)
              <7>1. Rank(s[i1]) <= Rank(p.status) /\ Rank(s[i1]) \in Nat /\ r[i1] = s[i1]
                BY <5>2, <5>3, <5>5, <6>1 DEF Told
              <7> QED BY <5>4, <7>1
            <6>2. CASE i1 = Len(s) + 1
              BY <5>2, <5>4, <6>2
            <6> QED BY <5>2, <6>1, <6>2
          <5>8. Told(r, next)
            BY <5>6, <5>7 DEF Told
          <5> QED BY <4>1, <5>8 DEF r
        <4> QED BY <4>2, <4>3
      <3> QED BY <3>3, <3>4
    <2>10. callbacks' \in [ServiceTxs -> Seq(Statuses)]
      BY <1>0, <2>2, <2>3, <2>4
    <2>11. polling' \in 0..Len(pending')
      BY <1>0, <2>2, <2>3, <2>5 DEF AfterEntry
    <2> QED BY <1>0, <2>3, <2>5, <2>7, <2>8, <2>9, <2>10, <2>11 DEF ServicesInv
  <1> QED BY <1>1, <1>2, <1>3, <1>4, <1>5 DEF ServicesNext

LEMMA ServicesHonest == ServicesInv => PendingStatusHonest
  <1> SUFFICES ASSUME ServicesInv PROVE PendingStatusHonest
    OBVIOUS
  <1>1. ASSUME NEW t \in ServiceTxs,
               \E i \in 1..Len(pending) : \A j \in 1..Len(pending) : pending[j].tx = t <=> j = i
        PROVE  \A i, j \in 1..Len(callbacks[t]) : i < j => Rank(callbacks[t][i]) < Rank(callbacks[t][j])
    <2>1. PICK i \in 1..Len(pending) : OnlyEntry(pending, t, i)
      BY <1>1 DEF OnlyEntry
    <2>2. Told(callbacks[t], pending[i].status)
      BY <2>1 DEF ServicesInv
    <2> QED BY <2>2 DEF Told
  <1> QED BY <1>1 DEF ServicesInv, PendingStatusHonest
-----------------------------------------------------------------------------
(***************************************************************************)
(* Reservations, validation and selection of UTXOs.                        *)
(***************************************************************************)

(* A grant that has not expired is backed by a reservation that lasts as   *)
(* long as it does.                                                        *)
Backed(g, t) == \A k \in g.keys : reserved[k].tx = t /\ reserved[k].expiry >= g.expiry

Reservation == [tx : Builders \cup {Nobody}, expiry : Nat]
ReservationsInv ==
    /\ tick \in Nat
    /\ reserved \in [Keys -> Reservation]
    /\ granted \in [Builders -> [keys : SUBSET Keys, expiry : Nat]]
    /\ \A t \in Builders :
          /\ granted[t].expiry <= tick + TTL
          /\ tick <= granted[t].expiry => Backed(granted[t], t)

(* Up to its d-th input a validation has found every output it began with  *)
(* unspent, or could not ask.                                              *)
Judged(v, d) ==
    /\ Len(v.all) = d + Len(v.todo)
    /\ \A i \in 1..Len(v.todo) : v.todo[i] = v.all[d + i]
    /\ \A i \in 1..d : v.all[i][1] \in v.spentThen => v.all[i][1] \in v.unseen

InputsInv ==
    /\ inputs \in [Builders -> Seq(Keys)]
    /\ \A t \in Builders : \A i, j \in 1..Len(inputs[t]) : inputs[t][i][1] = inputs[t][j][1] => i = j
    /\ validation \in [all : Seq(Keys), todo : Seq(Keys), spentThen : SUBSET Utxos, unseen : SUBSET Utxos,
                       verdict : {"none", "inputs valid", "valid", "refused"}]
    /\ utxoSpent \subseteq Utxos /\ validation.spentThen \subseteq utxoSpent
    /\ \E d \in Nat : Judged(validation, d)
    /\ validation.verdict \in {"inputs valid", "valid"} => validation.todo = << >>

UtxoInv == ReservationsInv /\ InputsInv

LEMMA NoValidationShape ==
    /\ NoValidation \in [all : Seq(Keys), todo : Seq(Keys), spentThen : SUBSET Utxos, unseen : SUBSET Utxos,
                         verdict : {"none", "inputs valid", "valid", "refused"}]
    /\ NoValidation.todo = << >> /\ NoValidation.spentThen = {} /\ NoValidation.verdict = "none"
    /\ Judged(NoValidation, 0)
  <1>1. << >> \in Seq(Keys)
    OBVIOUS
  <1> QED BY <1>1 DEF NoValidation, Judged

LEMMA UtxoInitial == UtxoInit => UtxoInv /\ SelectionPays
  <1> SUFFICES ASSUME UtxoInit PROVE UtxoInv /\ SelectionPays
    OBVIOUS
  <1>1. ReservationsInv
    BY UtxoSetAssumption DEF UtxoInit, ReservationsInv, Free, NoGrant, Reservation, Backed
  <1>2. InputsInv
    <2>1. << >> \in Seq(Keys) /\ 0 \in Nat
      OBVIOUS
    <2>2. /\ inputs = [t \in Builders |-> << >>] /\ validation = NoValidation /\ utxoSpent = {}
      BY DEF UtxoInit
    <2>3. inputs \in [Builders -> Seq(Keys)] /\ \A t \in Builders : inputs[t] = << >>
      BY <2>1, <2>2
    <2>4. Judged(validation, 0)
      BY <2>2, NoValidationShape
    <2>5. \A t \in Builders : Len(inputs[t]) = 0
      BY <2>3
    <2>6. \A t \in Builders : \A i, j \in 1..Len(inputs[t]) : inputs[t][i][1] = inputs[t][j][1] => i = j
      BY <2>5
    <2>7. \E d \in Nat : Judged(validation, d)
      BY <2>1, <2>4
    <2> QED BY <2>2, <2>3, <2>6, <2>7, NoValidationShape DEF InputsInv
  <1>3. SelectionPays
    BY DEF UtxoInit, NoSelection, SelectionPays
  <1> QED BY <1>1, <1>2, <1>3 DEF UtxoInv

LEMMA BackedGrantsHold ==
    ASSUME ReservationsInv, NEW t \in Builders, tick <= granted[t].expiry
    PROVE  \A k \in granted[t].keys : IsReserved(k, Nobody) /\ reserved[k].tx = t
  <1>1. Nobody \notin Builders
    BY UtxoSetAssumption DEF Nobody
  <1>2. Backed(granted[t], t)
    BY DEF ReservationsInv
  <1> SUFFICES ASSUME NEW k \in granted[t].keys
               PROVE  IsReserved(k, Nobody) /\ reserved[k].tx = t
    OBVIOUS
  <1>3. /\ reserved[k].tx = t /\ reserved[k].expiry >= granted[t].expiry
        /\ reserved[k].expiry \in Nat /\ granted[t].expiry \in Nat /\ tick \in Nat
    BY <1>2 DEF Backed, ReservationsInv, Reservation
  <1>4. ~ Expired(k)
    BY <1>3 DEF Expired
  <1> QED BY <1>1, <1>3, <1>4 DEF IsReserved, Free

(* Reservations that are dropped for having expired back no live grant. *)
LEMMA DroppingExpired ==
    ASSUME ReservationsInv, NEW drops \in SUBSET Keys, \A k \in drops : Expired(k),
           reserved' = [k \in Keys |-> IF k \in drops THEN Free ELSE reserved[k]],
           UNCHANGED <<tick, granted>>
    PROVE  ReservationsInv'
  <1>1. Free \in Reservation
    BY DEF Free, Reservation
  <1>2. reserved' \in [Keys -> Reservation]
    BY <1>1 DEF ReservationsInv
  <1>3. ASSUME NEW t \in Builders, tick <= granted[t].expiry PROVE Backed(granted[t], t)'
    <2> SUFFICES ASSUME NEW k \in granted[t].keys
                 PROVE  reserved'[k].tx = t /\ reserved'[k].expiry >= granted[t].expiry
      BY DEF Backed
    <2>1. k \in Keys /\ reserved[k].tx = t /\ reserved[k].expiry >= granted[t].expiry
          /\ reserved[k].expiry \in Nat /\ granted[t].expiry \in Nat /\ tick \in Nat
      BY <1>3 DEF Backed, ReservationsInv, Reservation
    <2>2. ~ Expired(k)
      BY <1>3, <2>1 DEF Expired
    <2> QED BY <2>1, <2>2
  <1> QED BY <1>2, <1>3 DEF ReservationsInv

LEMMA Reserving ==
    ASSUME ReservationsInv, NEW t \in Builders, NEW s \in Seq(Keys), ReserveUtxos(t, s)
    PROVE  ReservationsInv'
  <1> DEFINE refusal == {i \in 1..Len(s) : IsReserved(s[i], t)}
             drawn   == {s[i] : i \in {j \in 1..Len(s) : \A r \in refusal : j < r}}
             now     == [tx |-> t, expiry |-> tick + TTL]
             grant   == [keys |-> Range(s), expiry |-> tick + TTL]
  <1>1. /\ reserved' = [k \in Keys |-> IF k \in drawn THEN now ELSE reserved[k]]
        /\ granted' = IF refusal = {} THEN [granted EXCEPT ![t] = grant] ELSE granted
        /\ tick' = tick
    BY DEF ReserveUtxos
  <1>2. tick \in Nat /\ TTL \in Nat /\ tick + TTL \in Nat
    BY UtxoSetAssumption DEF ReservationsInv
  <1>3. Len(s) \in Nat /\ \A i \in 1..Len(s) : s[i] \in Keys
    BY ElementOfSeq
  <1>4. \A k \in Range(s) : k \in Keys /\ \E i \in 1..Len(s) : s[i] = k
    BY <1>3 DEF Range
  <1>5. now \in Reservation /\ grant \in [keys : SUBSET Keys, expiry : Nat]
        /\ now.tx = t /\ now.expiry = tick + TTL /\ grant.keys = Range(s) /\ grant.expiry = tick + TTL
    BY <1>2, <1>4 DEF Reservation
  <1> HIDE DEF now, grant
  <1>6. reserved' \in [Keys -> Reservation] /\ granted' \in [Builders -> [keys : SUBSET Keys, expiry : Nat]]
    BY <1>1, <1>5 DEF ReservationsInv
  <1>7. \A k \in drawn : \E j \in 1..Len(s) : s[j] = k /\ ~IsReserved(k, t)
    <2> SUFFICES ASSUME NEW j \in 1..Len(s), \A r \in refusal : j < r
                 PROVE  ~IsReserved(s[j], t)
      OBVIOUS
    <2>1. ~ (j < j)
      BY <1>3
    <2>2. j \notin refusal
      BY <2>1
    <2> QED BY <2>2
  <1>8. refusal = {} => Range(s) \subseteq drawn
    BY <1>4
  <1> HIDE DEF drawn, refusal
  <1>9. ASSUME NEW u \in Builders
        PROVE  /\ granted'[u].expiry <= tick + TTL
               /\ tick <= granted'[u].expiry => Backed(granted[u], u)'
    <2>1. CASE u = t /\ refusal = {}
      <3>1. granted'[u] = grant
        BY <1>1, <2>1 DEF ReservationsInv
      <3>2. \A k \in Range(s) : reserved'[k] = now
        BY <1>1, <1>4, <1>8, <2>1
      <3> QED BY <1>2, <1>5, <2>1, <3>1, <3>2 DEF Backed
    <2>2. CASE ~ (u = t /\ refusal = {})
      <3>1. granted'[u] = granted[u]
        BY <1>1, <2>2 DEF ReservationsInv
      <3>2. granted[u].expiry <= tick + TTL /\ granted[u].expiry \in Nat /\ granted[u].keys \in SUBSET Keys
        BY DEF ReservationsInv
      <3>3. ASSUME tick <= granted[u].expiry, NEW k \in granted[u].keys
            PROVE  reserved'[k].tx = u /\ reserved'[k].expiry >= granted[u].expiry
        <4>1. k \in Keys /\ reserved[k].tx = u /\ reserved[k].expiry >= granted[u].expiry
          BY <3>2, <3>3 DEF ReservationsInv, Backed
        <4>2. CASE k \notin drawn
          BY <1>1, <4>1, <4>2
        <4>3. CASE k \in drawn
          <5>1. ~IsReserved(k, t)
            BY <1>7, <4>3
          <5>2. IsReserved(k, Nobody)
            BY <3>3, BackedGrantsHold
          <5>3. u = t
            BY <4>1, <5>1, <5>2 DEF IsReserved
          <5>4. reserved'[k] = now
            BY <1>1, <4>1, <4>3
          <5> QED BY <1>2, <1>5, <3>2, <5>3, <5>4
        <4> QED BY <4>2, <4>3
      <3>4. tick <= granted[u].expiry => Backed(granted[u], u)'
        BY <3>1, <3>3 DEF Backed
      <3> QED BY <3>1, <3>2, <3>4
    <2> QED BY <2>1, <2>2
  <1> QED BY <1>1, <1>2, <1>6, <1>9 DEF ReservationsInv

LEMMA Releasing ==
    ASSUME ReservationsInv, NEW t \in Builders, ReleaseReservedUtxos(t)
    PROVE  ReservationsInv'
  <1>1. /\ reserved' = [k \in Keys |-> IF reserved[k].tx = t THEN Free ELSE reserved[k]]
        /\ granted' = [granted EXCEPT ![t] = NoGrant]
        /\ tick' = tick /\ tick \in Nat /\ TTL \in Nat
    BY UtxoSetAssumption DEF ReleaseReservedUtxos, ReservationsInv
  <1>2. /\ Free \in Reservation /\ NoGrant \in [keys : SUBSET Keys, expiry : Nat]
        /\ NoGrant.keys = {} /\ NoGrant.expiry = 0
    BY DEF Free, Reservation, NoGrant
  <1>3. reserved' \in [Keys -> Reservation] /\ granted' \in [Builders -> [keys : SUBSET Keys, expiry : Nat]]
    BY <1>1, <1>2 DEF ReservationsInv
  <1>4. ASSUME NEW u \in Builders
        PROVE  /\ granted'[u].expiry <= tick + TTL
               /\ tick <= granted'[u].expiry => Backed(granted[u], u)'
    <2>1. CASE u = t
      <3>1. granted'[u] = NoGrant
        BY <1>1, <2>1 DEF ReservationsInv
      <3> QED BY <1>1, <1>2, <3>1 DEF Backed
    <2>2. CASE u # t
      <3>1. granted'[u] = granted[u] /\ granted[u].keys \in SUBSET Keys
        BY <1>1, <2>2 DEF ReservationsInv
      <3>2. ASSUME tick <= granted[u].expiry, NEW k \in granted[u].keys
            PROVE  reserved'[k].tx = u /\ reserved'[k].expiry >= granted[u].expiry
        BY <1>1, <2>2, <3>1, <3>2 DEF ReservationsInv, Backed
      <3> QED BY <1>1, <3>1, <3>2 DEF ReservationsInv, Backed
    <2> QED BY <2>1, <2>2
  <1> QED BY <1>1, <1>3, <1>4 DEF ReservationsInv

LEMMA ReservationsStay ==
    ReservationsInv /\ UNCHANGED <<tick, reserved, granted>> => ReservationsInv'
  BY DEF ReservationsInv, Backed

LEMMA InputsStay ==
    InputsInv /\ UNCHANGED <<inputs, validation, utxoSpent>> => InputsInv'
  BY DEF InputsInv

ValidationShape == [all : Seq(Keys), todo : Seq(Keys), spentThen : SUBSET Utxos, unseen : SUBSET Utxos,
                    verdict : {"none", "inputs valid", "valid", "refused"}]

LEMMA FreshValidation ==
    ASSUME InputsInv, UNCHANGED <<inputs, utxoSpent>>, NEW v \in ValidationShape, validation' = v,
           v.spentThen \subseteq utxoSpent, NEW d \in Nat, Judged(v, d),
           v.verdict \in {"inputs valid", "valid"} => v.todo = << >>
    PROVE  InputsInv'
  BY DEF InputsInv, ValidationShape

LEMMA AddingInput ==
    ASSUME InputsInv, NEW t \in Builders, NEW k \in Keys, NEW seen \in BOOLEAN, AddInput(t, k, seen)
    PROVE  InputsInv'
  <1>1. /\ inputs' = [inputs EXCEPT ![t] = Append(inputs[t], k)]
        /\ UNCHANGED <<validation, utxoSpent>>
        /\ \A i \in 1..Len(inputs[t]) : inputs[t][i][1] # k[1]
    BY DEF AddInput, HasDuplicateInput
  <1>2. inputs \in [Builders -> Seq(Keys)]
    BY DEF InputsInv
  <1>3. inputs[t] \in Seq(Keys) /\ Append(inputs[t], k) \in Seq(Keys)
    BY <1>2
  <1> DEFINE s == inputs[t]
             r == Append(s, k)
  <1>4. /\ Len(s) \in Nat /\ Len(r) = Len(s) + 1 /\ r[Len(s) + 1] = k
        /\ \A i \in 1..Len(s) : r[i] = s[i]
    BY <1>3
  <1>5. \A i, j \in 1..Len(s) : s[i][1] = s[j][1] => i = j
    BY DEF InputsInv
  <1>6. \A i \in 1..Len(s) : s[i][1] # k[1]
    BY <1>1
  <1> HIDE DEF r, s
  <1>7. \A i, j \in 1..Len(r) : r[i][1] = r[j][1] => i = j
    <2> SUFFICES ASSUME NEW i \in 1..Len(r), NEW j \in 1..Len(r), r[i][1] = r[j][1] PROVE i = j
      OBVIOUS
    <2>1. CASE i \in 1..Len(s) /\ j \in 1..Len(s)
      BY <1>4, <1>5, <2>1
    <2>2. CASE i \in 1..Len(s) /\ j = Len(s) + 1
      BY <1>4, <1>6, <2>2
    <2>3. CASE i = Len(s) + 1 /\ j \in 1..Len(s)
      BY <1>4, <1>6, <2>3
    <2>4. CASE i = Len(s) + 1 /\ j = Len(s) + 1
      BY <2>4
    <2> QED BY <1>4, <2>1, <2>2, <2>3, <2>4
  <1>8. /\ inputs' \in [Builders -> Seq(Keys)] /\ inputs'[t] = r
        /\ \A u \in Builders : u # t => inputs'[u] = inputs[u]
    BY <1>1, <1>2, <1>3 DEF r, s
  <1>9. \A u \in Builders : \A i, j \in 1..Len(inputs'[u]) : inputs'[u][i][1] = inputs'[u][j][1] => i = j
    <2> SUFFICES ASSUME NEW u \in Builders
                 PROVE  \A i, j \in 1..Len(inputs'[u]) : inputs'[u][i][1] = inputs'[u][j][1] => i = j
      OBVIOUS
    <2>1. CASE u = t
      BY <1>7, <1>8, <2>1
    <2>2. CASE u # t
      BY <1>8, <2>2 DEF InputsInv
    <2> QED BY <2>1, <2>2
  <1> QED BY <1>1, <1>8, <1>9 DEF InputsInv

LEMMA ValidatingInput ==
    ASSUME InputsInv, NEW seen \in BOOLEAN, ValidateInput(seen)
    PROVE  InputsInv'
  <1> DEFINE v == validation
             k == Head(v.todo)
             ok == PassesSpentCheck(k, seen) /\ ~IsReserved(k, Nobody)
             unseen == IF seen THEN v.unseen ELSE v.unseen \cup {k[1]}
             verdict == IF Tail(v.todo) = << >> THEN "inputs valid" ELSE v.verdict
             next == [v EXCEPT !.todo = Tail(v.todo), !.unseen = unseen, !.verdict = verdict]
  <1>1. v.todo # << >> /\ UNCHANGED <<inputs, utxoSpent>>
    BY DEF ValidateInput
  <1>2. v \in ValidationShape /\ v.todo \in Seq(Keys) /\ v.all \in Seq(Keys)
    BY DEF InputsInv, ValidationShape
  <1>3. CASE ~ok
    <2>1. validation' = [NoValidation EXCEPT !.verdict = "refused"]
      BY <1>3 DEF ValidateInput
    <2> DEFINE w == [NoValidation EXCEPT !.verdict = "refused"]
    <2>2. w \in ValidationShape /\ w.todo = << >> /\ w.all = << >> /\ w.spentThen = {} /\ w.verdict = "refused"
      <3>1. NoValidation \in ValidationShape
        BY NoValidationShape DEF ValidationShape
      <3>2. NoValidation.all = << >>
        BY DEF NoValidation
      <3> QED BY <3>1, <3>2, NoValidationShape DEF ValidationShape
    <2> HIDE DEF w
    <2>3. Judged(w, 0)
      BY <2>2 DEF Judged
    <2>4. validation' = w
      BY <2>1 DEF w
    <2> QED BY ONLY InputsInv, <1>1, <2>2, <2>3, <2>4, FreshValidation
  <1>4. CASE ok
    <2>1. validation' = next
      BY <1>4 DEF ValidateInput
    <2>2. PICK d \in Nat : Judged(v, d)
      BY DEF InputsInv
    <2>3. /\ Len(v.todo) \in Nat \ {0} /\ Tail(v.todo) \in Seq(Keys) /\ Len(Tail(v.todo)) = Len(v.todo) - 1
          /\ \A i \in 1..(Len(v.todo) - 1) : Tail(v.todo)[i] = v.todo[i + 1]
          /\ k = v.todo[1] /\ k \in Keys
      BY <1>1, <1>2
    <2>4. k[1] \in Utxos
      BY <2>3 DEF Keys
    <2>5. k[1] \in v.spentThen => k[1] \in unseen
      BY <1>4 DEF PassesSpentCheck, QueryUtxo, InputsInv
    <2>6. unseen \in SUBSET Utxos /\ v.unseen \subseteq unseen
      BY <1>2, <2>4 DEF ValidationShape
    <2>7. verdict \in {"none", "inputs valid", "valid", "refused"}
      BY <1>2 DEF ValidationShape
    <2>8. verdict \in {"inputs valid", "valid"} => Tail(v.todo) = << >>
      BY <1>1 DEF InputsInv
    <2> HIDE DEF unseen, verdict, k
    <2>9. /\ next \in ValidationShape /\ next.todo = Tail(v.todo) /\ next.unseen = unseen
          /\ next.all = v.all /\ next.spentThen = v.spentThen /\ next.verdict = verdict
      BY <1>2, <2>3, <2>6, <2>7 DEF ValidationShape
    <2> HIDE DEF next
    <2>10. Judged(next, d + 1)
      <3>1. /\ Len(v.all) = d + Len(v.todo)
            /\ \A i \in 1..Len(v.todo) : v.todo[i] = v.all[d + i]
            /\ \A i \in 1..d : v.all[i][1] \in v.spentThen => v.all[i][1] \in v.unseen
        BY <2>2 DEF Judged
      <3>2. k = v.all[d + 1]
        BY <2>3, <3>1
      <3>3. Len(v.all) = (d + 1) + Len(Tail(v.todo))
        <4>1. \A a, l \in Nat : a + l = (a + 1) + (l - 1)
          OBVIOUS
        <4>2. d \in Nat /\ Len(v.todo) \in Nat
          BY <2>2, <2>3
        <4>3. d + Len(v.todo) = (d + 1) + (Len(v.todo) - 1)
          BY ONLY <4>1, <4>2
        <4> QED BY <2>3, <3>1, <4>3
      <3>4. ASSUME NEW i \in 1..Len(Tail(v.todo)) PROVE Tail(v.todo)[i] = v.all[(d + 1) + i]
        <4>1. i \in 1..(Len(v.todo) - 1) /\ i + 1 \in 1..Len(v.todo)
          BY <2>3
        <4>2. Tail(v.todo)[i] = v.todo[i + 1] /\ v.todo[i + 1] = v.all[d + (i + 1)]
          BY <2>3, <3>1, <4>1
        <4>3. d + (i + 1) = (d + 1) + i
          BY <2>2, <4>1
        <4> QED BY <4>2, <4>3
      <3>5. ASSUME NEW i \in 1..(d + 1) PROVE v.all[i][1] \in v.spentThen => v.all[i][1] \in unseen
        <4>1. CASE i \in 1..d
          BY <2>6, <3>1, <4>1
        <4>2. CASE i = d + 1
          BY <2>5, <3>2, <4>2
        <4> QED BY <2>2, <4>1, <4>2
      <3> QED BY <2>9, <3>3, <3>4, <3>5 DEF Judged
    <2>11. v.spentThen \subseteq utxoSpent /\ d + 1 \in Nat
      <3>1. d + 1 \in Nat
        BY <2>2
      <3> QED BY <3>1 DEF InputsInv
    <2> QED BY ONLY InputsInv, <1>1, <2>1, <2>8, <2>9, <2>10, <2>11, FreshValidation
  <1> QED BY <1>3, <1>4

LEMMA UtxoStep == UtxoInv /\ UtxoNext => UtxoInv'
  <1> SUFFICES ASSUME UtxoInv, UtxoNext PROVE UtxoInv'
    OBVIOUS
  <1>0. ReservationsInv /\ InputsInv
    BY DEF UtxoInv
  <1>a. /\ validation \in ValidationShape /\ utxoSpent \subseteq Utxos /\ validation.spentThen \subseteq utxoSpent
        /\ inputs \in [Builders -> Seq(Keys)]
    BY <1>0 DEF InputsInv, ValidationShape
  <1>1. CASE TakeVerdict
    <2>1. validation' = NoValidation /\ UNCHANGED <<utxoSpent, tick, reserved, granted, inputs>>
      BY <1>1 DEF TakeVerdict
    <2>2. NoValidation \in ValidationShape /\ NoValidation.spentThen \subseteq utxoSpent
      BY NoValidationShape DEF ValidationShape
    <2>3. InputsInv'
      BY <1>0, <2>1, <2>2, NoValidationShape, FreshValidation
    <2> QED BY <1>0, <2>1, <2>3, ReservationsStay DEF UtxoInv
  <1>2. CASE \E u \in Utxos : Spend(u)
    <2>1. /\ utxoSpent \subseteq utxoSpent' /\ utxoSpent' \subseteq Utxos
          /\ UNCHANGED <<tick, reserved, granted, inputs, validation>>
      BY <1>2, <1>a DEF Spend
    <2>2. InputsInv'
      BY <1>0, <2>1 DEF InputsInv
    <2> QED BY <1>0, <2>1, <2>2, ReservationsStay DEF UtxoInv
  <1>3. CASE Tick
    <2>1. tick' = tick + 1 /\ UNCHANGED <<reserved, granted, inputs, validation, utxoSpent>>
      BY <1>3 DEF Tick
    <2>2. TTL \in Nat /\ tick \in Nat /\ \A t \in Builders : granted[t].expiry \in Nat
      BY <1>0, UtxoSetAssumption DEF ReservationsInv
    <2>3. \A t \in Builders : /\ granted[t].expiry <= tick' + TTL
                              /\ tick' <= granted[t].expiry => tick <= granted[t].expiry
      BY <1>0, <2>1, <2>2 DEF ReservationsInv
    <2>4. \A t \in Builders : tick' <= granted[t].expiry => Backed(granted[t], t)'
      BY <1>0, <2>1, <2>3 DEF ReservationsInv, Backed
    <2>5. tick' \in Nat
      BY <2>1, <2>2
    <2>6. ReservationsInv'
      BY <1>0, <2>1, <2>3, <2>4, <2>5 DEF ReservationsInv
    <2> QED BY <1>0, <2>1, <2>6, InputsStay DEF UtxoInv
  <1>4. CASE VerifyInputsUnspent
    <2> DEFINE drops == {k \in Keys : Expired(k)}
    <2>1. /\ reserved' = [k \in Keys |-> IF Expired(k) THEN Free ELSE reserved[k]]
          /\ UNCHANGED <<utxoSpent, tick, granted, inputs, validation>>
      BY <1>4 DEF VerifyInputsUnspent
    <2>2. reserved' = [k \in Keys |-> IF k \in drops THEN Free ELSE reserved[k]]
      BY <2>1
    <2>3. drops \in SUBSET Keys /\ \A k \in drops : Expired(k)
      OBVIOUS
    <2> HIDE DEF drops
    <2>4. ReservationsInv'
      BY ONLY <1>0, <2>1, <2>2, <2>3, DroppingExpired
    <2> QED BY <1>0, <2>1, <2>4, InputsStay DEF UtxoInv
  <1>5. CASE \E t \in Builders : ReserveUtxos(t, inputs[t])
    <2>1. PICK t \in Builders : ReserveUtxos(t, inputs[t])
      BY <1>5
    <2>2. inputs[t] \in Seq(Keys)
      BY <1>a
    <2>3. ReservationsInv'
      BY <1>0, <2>1, <2>2, Reserving
    <2>4. UNCHANGED <<inputs, validation, utxoSpent>>
      BY <2>1 DEF ReserveUtxos
    <2> QED BY <1>0, <2>3, <2>4, InputsStay DEF UtxoInv
  <1>6. CASE \E t \in Builders : ReleaseReservedUtxos(t)
    <2>1. PICK t \in Builders : ReleaseReservedUtxos(t)
      BY <1>6
    <2>2. UNCHANGED <<inputs, validation, utxoSpent>>
      BY <2>1 DEF ReleaseReservedUtxos
    <2> QED BY <1>0, <2>1, <2>2, Releasing, InputsStay DEF UtxoInv
  <1>7. CASE \E t \in Builders : StartValidation(t)
    <2>1. PICK t \in Builders : StartValidation(t)
      BY <1>7
    <2> DEFINE s == inputs[t]
               v == [NoValidation EXCEPT !.all = s, !.todo = s, !.spentThen = utxoSpent]
    <2>2. validation' = v /\ UNCHANGED <<utxoSpent, tick, reserved, granted, inputs>>
      BY <2>1 DEF StartValidation
    <2>3. s \in Seq(Keys) /\ Len(s) \in Nat
      BY <1>a
    <2> HIDE DEF s
    <2>4. v \in ValidationShape /\ v.all = s /\ v.todo = s /\ v.spentThen = utxoSpent /\ v.verdict = "none"
      BY <1>a, <2>3, NoValidationShape DEF ValidationShape
    <2> HIDE DEF v
    <2>5. Judged(v, 0)
      BY <2>3, <2>4 DEF Judged
    <2>6. InputsInv'
      BY <1>0, <2>2, <2>4, <2>5, FreshValidation
    <2> QED BY <1>0, <2>2, <2>6, ReservationsStay DEF UtxoInv
  <1>8. CASE \E t \in Builders, k \in Keys, seen \in BOOLEAN : AddInput(t, k, seen)
    <2>1. PICK t \in Builders, k \in Keys, seen \in BOOLEAN : AddInput(t, k, seen)
      BY <1>8
    <2>2. UNCHANGED <<tick, reserved, granted>>
      BY <2>1 DEF AddInput
    <2> QED BY <1>0, <2>1, <2>2, AddingInput, ReservationsStay DEF UtxoInv
  <1>9. CASE \E seen \in BOOLEAN : ValidateInput(seen)
    <2>1. PICK seen \in BOOLEAN : ValidateInput(seen)
      BY <1>9
    <2> DEFINE k == Head(validation.todo)
               drops == IF Expired(k) THEN {k} ELSE {}
    <2>2. /\ reserved' = IF Expired(k) THEN [reserved EXCEPT ![k] = Free] ELSE reserved
          /\ UNCHANGED <<tick, granted>> /\ validation.todo # << >>
      BY <2>1 DEF ValidateInput
    <2>3. k \in Keys
      <3>1. validation.todo \in Seq(Keys)
        BY <1>a DEF ValidationShape
      <3> QED BY <2>2, <3>1
    <2>4. reserved \in [Keys -> Reservation]
      BY <1>0 DEF ReservationsInv
    <2> HIDE DEF k
    <2>5. reserved' = [j \in Keys |-> IF j \in drops THEN Free ELSE reserved[j]]
      BY <2>2, <2>3, <2>4
    <2>6. drops \in SUBSET Keys /\ \A j \in drops : Expired(j)
      BY <2>3
    <2> HIDE DEF drops
    <2>7. ReservationsInv'
      BY ONLY <1>0, <2>2, <2>5, <2>6, DroppingExpired
    <2> QED BY <1>0, <2>1, <2>7, ValidatingInput DEF UtxoInv
  <1>10. CASE \E x \in TxShapes : ValidateRest(x)
    <2>1. PICK x \in TxShapes : ValidateRest(x)
      BY <1>10
    <2> DEFINE v == [validation EXCEPT !.verdict = "valid"]
               w == [NoValidation EXCEPT !.verdict = "refused"]
    <2>2. /\ validation' \in {v, w} /\ validation.verdict = "inputs valid"
          /\ UNCHANGED <<utxoSpent, tick, reserved, granted, inputs>>
      BY <2>1 DEF ValidateRest
    <2>3. PICK d \in Nat : Judged(validation, d)
      BY <1>0 DEF InputsInv
    <2>4. /\ v \in ValidationShape /\ v.all = validation.all /\ v.todo = validation.todo
          /\ v.spentThen = validation.spentThen /\ v.unseen = validation.unseen
      BY <1>a DEF ValidationShape
    <2>5. /\ w \in ValidationShape /\ w.all = << >> /\ w.todo = << >> /\ w.spentThen = {} /\ w.verdict = "refused"
      <3>1. NoValidation \in ValidationShape
        BY NoValidationShape DEF ValidationShape
      <3>2. NoValidation.all = << >>
        BY DEF NoValidation
      <3> QED BY <3>1, <3>2, NoValidationShape DEF ValidationShape
    <2> HIDE DEF v, w
    <2>a. Judged(v, d)
      BY <2>3, <2>4 DEF Judged
    <2>b. Judged(w, 0)
      BY <2>5 DEF Judged
    <2>6. Judged(v, d) /\ Judged(w, 0)
      BY <2>a, <2>b
    <2>7. validation.todo = << >>
      BY <1>0, <2>2 DEF InputsInv
    <2>8. CASE validation' = v
      <3>1. InputsInv'
        BY ONLY <1>0, <1>a, <2>2, <2>3, <2>4, <2>6, <2>7, <2>8, FreshValidation
      <3> QED BY <1>0, <2>2, <3>1, ReservationsStay DEF UtxoInv
    <2>9. CASE validation' = w
      <3>1. InputsInv'
        BY ONLY <1>0, <1>a, <2>2, <2>5, <2>6, <2>9, FreshValidation
      <3> QED BY <1>0, <2>2, <3>1, ReservationsStay DEF UtxoInv
    <2> QED BY <2>2, <2>8, <2>9
  <1> QED BY <1>1, <1>2, <1>3, <1>4, <1>5, <1>6, <1>7, <1>8, <1>9, <1>10 DEF UtxoNext

LEMMA UtxosHonest == UtxoInv => ReservationsExclusive /\ InputsSpendable
  <1> SUFFICES ASSUME UtxoInv PROVE ReservationsExclusive /\ InputsSpendable
    OBVIOUS
  <1>1. ReservationsExclusive
    BY BackedGrantsHold DEF UtxoInv, ReservationsExclusive
  <1>2. ASSUME validation.verdict = "valid", NEW k \in Range(validation.all), k[1] \in validation.spentThen
        PROVE  k[1] \in validation.unseen
    <2>1. PICK d \in Nat : Judged(validation, d)
      BY DEF UtxoInv, InputsInv
    <2>2. validation.todo = << >> /\ validation.all \in Seq(Keys)
      BY <1>2 DEF UtxoInv, InputsInv
    <2>3. d = Len(validation.all)
      BY <2>1, <2>2 DEF Judged
    <2>4. PICK i \in 1..Len(validation.all) : validation.all[i] = k
      BY <1>2, <2>2 DEF Range
    <2> QED BY <1>2, <2>1, <2>3, <2>4 DEF Judged
  <1> QED BY <1>1, <1>2 DEF UtxoInv, InputsInv, InputsSpendable

-----------------------------------------------------------------------------
(* select_utxos(). *)

LEMMA DustFacts ==
    ASSUME NEW outs \in Nat, NEW witnesses \in BOOLEAN
    PROVE  /\ \A n \in Nat : DustAvailable(n) \in Int
           /\ RequiredDust(outs, witnesses) \in Int
           /\ MinInputs(outs, witnesses) \in Nat \ {0}
  <1>1. \A n \in Nat : DustAvailable(n) \in Int
    BY DEF DustAvailable
  <1>2. MinInputs(outs, witnesses) \in Nat \ {0}
    BY DEF MinInputs
  <1>3. \A ins \in Nat, proof \in {0, 128} : EstimateFee(ins, outs, proof) \in Int
    <2> SUFFICES ASSUME NEW ins \in Nat, NEW proof \in {0, 128} PROVE EstimateFee(ins, outs, proof) \in Int
      OBVIOUS
    <2>1. EstimateTxSize(ins, outs, proof) \in Int
      BY DEF EstimateTxSize
    <2>2. CommitmentDust(outs) \in Int
      BY DEF CommitmentDust
    <2>3. ((proof + 127) \div 128) * (44 * 4) \in Int
      OBVIOUS
    <2> QED BY <2>1, <2>2, <2>3 DEF EstimateFee
  <1>4. RequiredDust(outs, witnesses) = EstimateFee(MinInputs(outs, witnesses), outs, IF witnesses THEN 128 ELSE 0)
    BY DEF RequiredDust
  <1>5. (IF witnesses THEN 128 ELSE 0) \in {0, 128}
    OBVIOUS
  <1>6. RequiredDust(outs, witnesses) \in Int
    BY <1>2, <1>3, <1>4, <1>5, ZenonT(60)
  <1> QED BY <1>1, <1>2, <1>6

LEMMA ChosenCountPays ==
    ASSUME NEW n \in Nat, NEW outs \in Nat, NEW witnesses \in BOOLEAN
    PROVE  LET c == ChosenCount(n, outs, witnesses)
           IN  /\ c \in 0..n
               /\ c > 0 => DustAvailable(c) >= RequiredDust(outs, witnesses)
               /\ c > MinInputs(outs, witnesses) => DustAvailable(c - 1) < RequiredDust(outs, witnesses)
  <1> DEFINE least == MinInputs(outs, witnesses)
             fee == RequiredDust(outs, witnesses)
             enough == {i \in 1..n : i >= least /\ DustAvailable(i) >= fee}
             c == ChosenCount(n, outs, witnesses)
             first == CHOOSE i \in enough : \A j \in enough : i <= j
  <1>1. fee \in Int /\ least \in Nat \ {0} /\ \A i \in Nat : DustAvailable(i) \in Int
    BY DustFacts
  <1>2. c = IF enough # {} THEN first ELSE IF DustAvailable(n) >= fee THEN n ELSE 0
    BY Zenon DEF ChosenCount
  <1> HIDE DEF fee, least, c
  <1>3. CASE enough # {}
    <2>1. enough \subseteq Nat
      OBVIOUS
    <2>2. first \in enough /\ \A j \in enough : first <= j
      <3> HIDE DEF enough
      <3>1. \E i \in enough : \A j \in enough : i <= j
        BY <1>3, <2>1, LeastElement
      <3> QED BY <3>1
    <2> HIDE DEF first
    <2>3. c = first
      BY <1>2, <1>3
    <2>4. ASSUME first > least PROVE DustAvailable(first - 1) < fee
      <3>1. first - 1 \in 1..n /\ first - 1 >= least /\ ~ (first <= first - 1)
        BY <1>1, <2>2, <2>4
      <3>2. first - 1 \notin enough
        BY <2>2, <3>1
      <3>3. DustAvailable(first - 1) \in Int
        BY <1>1, <3>1
      <3> QED BY <1>1, <3>1, <3>2, <3>3
    <2> QED BY <2>2, <2>3, <2>4 DEF c, fee, least
  <1>4. CASE enough = {} /\ DustAvailable(n) >= fee
    <2>1. c = n
      BY <1>2, <1>4
    <2>2. ~ (n > least)
      <3> SUFFICES ASSUME n > least PROVE FALSE
        OBVIOUS
      <3>1. n \in enough
        BY <1>1, <1>4
      <3> QED BY <1>4, <3>1
    <2> QED BY <1>4, <2>1, <2>2 DEF c, fee, least
  <1>5. CASE enough = {} /\ ~ (DustAvailable(n) >= fee)
    <2>1. c = 0
      BY <1>2, <1>5
    <2> QED BY <1>1, <2>1 DEF c, fee, least
  <1> QED BY <1>3, <1>4, <1>5

LEMMA CandidatesFinite == IsFiniteSet(Candidates)
  <1> DEFINE r(d, h) == [depth |-> d, height |-> h]
  <1>1. Candidates = ((({} \cup {r(0, 0)}) \cup {r(0, 1)}) \cup {r(1, 0)}) \cup {r(1, 1)}
    <2>1. ASSUME NEW x \in Candidates PROVE x \in {r(0, 0), r(0, 1), r(1, 0), r(1, 1)}
      <3>1. x = r(x.depth, x.height) /\ x.depth \in 0..1 /\ x.height \in 0..1
        BY <2>1, Zenon DEF Candidates
      <3>2. x.depth \in {0, 1} /\ x.height \in {0, 1}
        BY <3>1
      <3> HIDE DEF r
      <3> QED BY <3>1, <3>2
    <2>2. ASSUME NEW d \in {0, 1}, NEW h \in {0, 1} PROVE r(d, h) \in Candidates
      BY DEF Candidates
    <2> HIDE DEF r
    <2> QED BY <2>1, <2>2
  <1> HIDE DEF r
  <1>2. IsFiniteSet({} \cup {r(0, 0)})
    BY FS_EmptySet, FS_AddElement
  <1>3. IsFiniteSet(({} \cup {r(0, 0)}) \cup {r(0, 1)})
    BY ONLY <1>2, FS_AddElement
  <1>4. IsFiniteSet((({} \cup {r(0, 0)}) \cup {r(0, 1)}) \cup {r(1, 0)})
    BY ONLY <1>3, FS_AddElement
  <1> QED BY ONLY <1>1, <1>4, FS_AddElement

LEMMA SelectorStep == SelectorNext => SelectionPays'
  <1> SUFFICES ASSUME SelectorNext PROVE SelectionPays'
    OBVIOUS
  <1>1. PICK available \in SUBSET Candidates \ {{}}, outs \in 1..MaxOutputs, witnesses \in BOOLEAN :
           SelectUtxos(available, outs, witnesses)
    BY DEF SelectorNext
  <1>2. PICK ordered \in SetToSeqs(available) :
           selection' = [from |-> ordered, outputs |-> outs, witnesses |-> witnesses,
                         chosen |-> SubSeq(ordered, 1, ChosenCount(Len(ordered), outs, witnesses))]
    BY <1>1 DEF SelectUtxos
  <1>3. Cardinality(available) \in Nat
    BY CandidatesFinite, FS_Subset, FS_CardinalityType
  <1>4. ordered \in Seq(available) /\ Len(ordered) \in Nat
    <2>1. ordered \in [1..Cardinality(available) -> available]
      BY <1>2 DEF SetToSeqs
    <2> QED BY <1>3, <2>1
  <1> DEFINE c == ChosenCount(Len(ordered), outs, witnesses)
             n == Len(selection'.chosen)
  <1>5. outs \in Nat
    BY UtxoSetAssumption
  <1>6. /\ c \in 0..Len(ordered)
        /\ c > 0 => DustAvailable(c) >= RequiredDust(outs, witnesses)
        /\ c > MinInputs(outs, witnesses) => DustAvailable(c - 1) < RequiredDust(outs, witnesses)
    BY <1>4, <1>5, ChosenCountPays
  <1>7. /\ selection'.chosen = SubSeq(ordered, 1, c) /\ selection'.from = ordered
        /\ selection'.outputs = outs /\ selection'.witnesses = witnesses
    BY <1>2
  <1> HIDE DEF c
  <1>8. n = c
    BY <1>4, <1>6, <1>7
  <1> QED BY <1>6, <1>7, <1>8 DEF SelectionPays

LEMMA SelectionStays == SelectionPays /\ UNCHANGED selection => SelectionPays'
  BY DEF SelectionPays

LEMMA UtxoKeepsSelection == UtxoNext => UNCHANGED selection
  BY DEF UtxoNext, TakeVerdict, Spend, Tick, VerifyInputsUnspent, ReserveUtxos, ReleaseReservedUtxos, StartValidation,
         AddInput, ValidateInput, ValidateRest

LEMMA SelectorKeepsUtxos == UtxoInv /\ SelectorNext => UtxoInv'
  <1> SUFFICES ASSUME UtxoInv, SelectorNext PROVE UtxoInv'
    OBVIOUS
  <1>1. UNCHANGED <<utxoSpent, tick, reserved, granted, inputs, validation>>
    BY DEF SelectorNext, SelectUtxos
  <1> QED BY <1>1, ReservationsStay, InputsStay DEF UtxoInv
-----------------------------------------------------------------------------
(***************************************************************************)
(* Balancing, splitting and merging.                                       *)
(***************************************************************************)

LEMMA ModuloBelow ==
    ASSUME NEW x \in Nat, NEW w \in Nat \ {0}
    PROVE  x % w \in Nat /\ x % w <= x
  OBVIOUS

LEMMA TotalsAre ==
    /\ Total(<< >>) = 0
    /\ \A s \in Seq(Nat) : Total(s) \in Nat
    /\ \A s \in Seq(Nat), x \in Nat : Total(Append(s, x)) = Total(s) + x
  BY SumSeqEmpty, SumSeqNat, SumSeqAppend DEF Total

(* The shortest prefix that pays. *)
Pays(order, target, i) == Total(SubSeq(order, 1, i)) >= target + 96 * i + 80

LEMMA SelectedPays ==
    ASSUME NEW order \in Seq(Nat), NEW target \in Nat, NEW drawn, drawn = RandomImproveSelect(order, target)
    PROVE  /\ drawn \in Seq(Nat)
           /\ Len(drawn) > 0 => /\ Total(drawn) >= target + 96 * Len(drawn) + 80
                                /\ Len(drawn) > 1 =>
                                     Total(SubSeq(drawn, 1, Len(drawn) - 1)) < target + 96 * (Len(drawn) - 1) + 80
  <1> DEFINE enough == {i \in 1..Len(order) : Pays(order, target, i)}
             first == CHOOSE i \in enough : \A j \in enough : i <= j
  <1>1. drawn = IF enough = {} THEN << >> ELSE SubSeq(order, 1, first)
    BY Zenon DEF RandomImproveSelect, Pays
  <1>2. CASE enough = {}
    BY <1>1, <1>2
  <1>3. CASE enough # {}
    <2>1. enough \subseteq Nat
      OBVIOUS
    <2>2. first \in enough /\ \A j \in enough : first <= j
      <3> HIDE DEF enough
      <3>1. \E i \in enough : \A j \in enough : i <= j
        BY <1>3, <2>1, LeastElement
      <3> QED BY <3>1
    <2> HIDE DEF first
    <2>3. drawn = SubSeq(order, 1, first)
      BY <1>1, <1>3
    <2>4. first \in 1..Len(order) /\ Pays(order, target, first)
      BY <2>2
    <2>5. drawn \in Seq(Nat) /\ Len(drawn) = first /\ \A i \in 1..first : drawn[i] = order[i]
      BY <2>3, <2>4
    <2>6. ASSUME first > 1
          PROVE  Total(SubSeq(drawn, 1, first - 1)) < target + 96 * (first - 1) + 80
      <3>1. first - 1 \in 1..Len(order) /\ ~ (first <= first - 1)
        BY <2>4, <2>6
      <3>2. ~ Pays(order, target, first - 1)
        BY <2>2, <3>1
      <3>3. SubSeq(drawn, 1, first - 1) = SubSeq(order, 1, first - 1)
        BY <2>3, <2>4, <3>1
      <3>4. SubSeq(order, 1, first - 1) \in Seq(Nat)
        BY <3>1
      <3>5. Total(SubSeq(order, 1, first - 1)) \in Nat
        BY <3>4, TotalsAre
      <3>6. PICK m \in Nat : m = first - 1
        BY <3>1
      <3>7. ~ (Total(SubSeq(order, 1, m)) >= target + 96 * m + 80)
        BY <3>2, <3>6 DEF Pays
      <3>8. PICK t \in Nat : t = Total(SubSeq(order, 1, m))
        BY <3>5, <3>6
      <3>9. t < target + 96 * m + 80
        BY <3>7, <3>8
      <3> QED BY <3>3, <3>6, <3>8, <3>9
    <2>7. Total(drawn) >= target + 96 * first + 80
      BY <2>3, <2>4 DEF Pays
    <2> QED BY <2>4, <2>5, <2>6, <2>7
  <1> QED BY <1>2, <1>3

(* What a recipe of TxsToBalance starts from. *)
LEMMA ToBalance ==
    ASSUME NEW tx \in TxsToBalance
    PROVE  /\ tx.ins \in Seq(Nat) /\ tx.outs \in Seq(Nat) /\ Shortfall(tx) \in Nat
           /\ EstimateFeeFromTx(tx) = 240
  <1>1. PICK a \in Amounts, b \in Amounts : tx = Tx(<<a>>, <<b>>, 0)
    BY DEF TxsToBalance
  <1>2. a \in Nat /\ b \in Nat
    BY BalancerAssumption
  <1>3. tx.ins = <<a>> /\ tx.outs = <<b>>
    BY <1>1 DEF Tx
  <1>4. tx.ins \in Seq(Nat) /\ tx.outs \in Seq(Nat) /\ Len(tx.ins) = 1 /\ Len(tx.outs) = 1
    BY <1>2, <1>3
  <1>5. Total(tx.ins) \in Nat /\ Total(tx.outs) \in Nat
    BY <1>4, TotalsAre
  <1>6. Shortfall(tx) \in Nat
    BY <1>5 DEF Shortfall
  <1>7. EstimateFeeFromTx(tx) = 240
    BY <1>4 DEF EstimateFeeFromTx, CalculateFee
  <1> QED BY <1>4, <1>6, <1>7

LEMMA OrdersOfCoins == ASSUME NEW order \in Orders PROVE order \in Seq(Nat)
  <1>1. PICK p \in [1..Len(Coins) -> 1..Len(Coins)] : order = [i \in 1..Len(Coins) |-> Coins[p[i]]]
    BY DEF Orders
  <1>2. \A i \in 1..Len(Coins) : Coins[p[i]] \in Nat
    BY BalancerAssumption
  <1>3. Len(Coins) \in Nat
    BY BalancerAssumption
  <1> QED BY <1>1, <1>2, <1>3

LEMMA BalanceStep == BalanceNext => SelectionCoversFee'
  <1> SUFFICES ASSUME BalanceNext PROVE SelectionCoversFee'
    OBVIOUS
  <1>1. PICK tx \in TxsToBalance, order \in Orders :
          \/ BalanceFinalized(tx, order)
          \/ \E kinds \in SUBSET {"unshielded", "shielded", "dust"} :
                BalanceUnbound(tx, order, kinds) \/ BalanceUnproven(tx, order, kinds)
    BY DEF BalanceNext
  <1> DEFINE needed == Shortfall(tx) + EstimateFeeFromTx(tx)
             selected == RandomImproveSelect(order, needed)
  <1>2. Shortfall(tx) \in Nat /\ EstimateFeeFromTx(tx) = 240 /\ needed \in Nat
    BY ToBalance
  <1>3. order \in Seq(Nat)
    BY OrdersOfCoins
  <1>4. /\ selected \in Seq(Nat)
        /\ Len(selected) > 0 => /\ Total(selected) >= needed + 96 * Len(selected) + 80
                                /\ Len(selected) > 1 =>
                                     Total(SubSeq(selected, 1, Len(selected) - 1)) < needed + 96 * (Len(selected) - 1) + 80
    <2> HIDE DEF needed
    <2> QED BY <1>2, <1>3, SelectedPays
  <1>5. ASSUME NEW n \in Nat PROVE CalculateFee(n, 1, FALSE) = 144 + 96 * n
    BY <1>5 DEF CalculateFee
  <1>6. Len(selected) \in Nat /\ Total(selected) \in Nat
    <2> HIDE DEF selected
    <2> QED BY <1>4, TotalsAre
  <1> HIDE DEF selected, needed
  <1>7. ASSUME recipe'.taken \in {<< >>, selected},
               recipe'.taken # << >> => recipe'.needed = needed,
               recipe'.taken # << >> =>
                 \A i \in 1..Len(recipe'.txs) : \A j \in 1..Len(recipe'.txs[i].outs) :
                    recipe'.txs[i].outs[j] <= Total(recipe'.txs[i].ins) \/ recipe'.txs[i].outs = recipe'.of.outs
        PROVE  SelectionCoversFee'
    <2> DEFINE n == Len(recipe'.taken)
    <2> SUFFICES ASSUME n > 0
                 PROVE  /\ Total(recipe'.taken) >= recipe'.needed + CalculateFee(n, 1, FALSE) - 64
                        /\ n > 1 => Total(SubSeq(recipe'.taken, 1, n - 1)) < recipe'.needed + CalculateFee(n, 1, FALSE) - 64 - 96
                        /\ \A i \in 1..Len(recipe'.txs) : \A j \in 1..Len(recipe'.txs[i].outs) :
                              recipe'.txs[i].outs[j] <= Total(recipe'.txs[i].ins) \/ recipe'.txs[i].outs = recipe'.of.outs
      BY DEF SelectionCoversFee
    <2>1. recipe'.taken = selected /\ recipe'.taken # << >>
      BY <1>7
    <2>2. recipe'.needed = needed /\ n = Len(selected)
      BY <1>7, <2>1
    <2>3. CalculateFee(n, 1, FALSE) = 144 + 96 * n
      BY <1>5, <1>6, <2>2
    <2>4. Total(selected) >= needed + (144 + 96 * n) - 64
      BY <1>2, <1>4, <1>6, <2>2
    <2>5. ASSUME n > 1
          PROVE  Total(SubSeq(selected, 1, n - 1)) < needed + (144 + 96 * n) - 64 - 96
      BY <1>2, <1>4, <1>6, <2>2, <2>5
    <2> QED BY <1>7, <2>1, <2>2, <2>3, <2>4, <2>5
  <1>8. CASE BalanceFinalized(tx, order)
    <2> DEFINE fee == CalculateFee(Len(selected), 1, FALSE)
               outs == FinalizedOutputs(Total(selected), Shortfall(tx), fee)
               txs == <<tx, Tx(selected, outs, fee)>>
    <2>1. recipe' = IF selected = << >> /\ Shortfall(tx) > 0 THEN Failed("finalized", tx)
                     ELSE [kind |-> "finalized", of |-> tx, taken |-> selected, needed |-> needed,
                           txs |-> txs, fee |-> fee, proof |-> FALSE, success |-> TRUE]
      BY <1>8, Zenon DEF BalanceFinalized, selected, needed
    <2>2. CASE recipe' = Failed("finalized", tx)
      <3>1. recipe'.taken = << >>
        BY <2>2 DEF Failed, NoRecipe
      <3> QED BY <1>7, <3>1
    <2>3. CASE recipe' = [kind |-> "finalized", of |-> tx, taken |-> selected, needed |-> needed,
                           txs |-> txs, fee |-> fee, proof |-> FALSE, success |-> TRUE]
      <3>1. /\ recipe'.taken = selected /\ recipe'.needed = needed /\ recipe'.of = tx
            /\ recipe'.txs = txs
        BY <2>3
      <3>2. ASSUME selected # << >>, NEW j \in 1..Len(outs) PROVE outs[j] <= Total(selected)
        <4>1. PICK t \in Nat : t = Total(selected)
          BY <1>6
        <4>2. PICK f \in Nat : f = fee /\ f = 144 + 96 * Len(selected)
          <5>1. fee = 144 + 96 * Len(selected)
            BY <1>5, <1>6
          <5>2. 144 + 96 * Len(selected) \in Nat
            BY <1>6
          <5> HIDE DEF fee
          <5> QED BY <5>1, <5>2
        <4>3. Len(selected) > 0
          BY <1>4, <3>2
        <4>4. t - f \in Nat /\ t - (Shortfall(tx) + f) \in Nat
          <5>1. needed = Shortfall(tx) + 240
            BY <1>2 DEF needed
          <5>2. t >= needed + 96 * Len(selected) + 80
            BY <1>4, <4>1, <4>3
          <5>3. PICK s \in Nat, m \in Nat : s = Shortfall(tx) /\ m = Len(selected)
            BY <1>2, <1>6
          <5>4. t >= (s + 240) + 96 * m + 80
            BY <5>1, <5>2, <5>3
          <5>5. t - (144 + 96 * m) \in Nat /\ t - (s + (144 + 96 * m)) \in Nat
            BY ONLY <5>4, t \in Nat, s \in Nat, m \in Nat
          <5> QED BY <4>2, <5>3, <5>5
        <4>5. /\ Minus(t, f) \in Nat /\ Minus(t, f) <= t - f
              /\ Minus(t, Shortfall(tx) + f) \in Nat /\ Minus(t, Shortfall(tx) + f) <= t - (Shortfall(tx) + f)
          BY <4>4, ModuloBelow, BalancerAssumption DEF Minus
        <4>6. Minus(t, f) <= t /\ Minus(t, Shortfall(tx) + f) <= t
          BY <1>2, <4>4, <4>5
        <4>7. outs \in {<<Minus(t, f), Minus(t, Shortfall(tx) + f)>>, <<Minus(t, f)>>}
          BY <4>1, <4>2 DEF FinalizedOutputs
        <4> HIDE DEF outs
        <4> QED BY <3>2, <4>1, <4>6, <4>7
      <3>3. txs[1] = tx /\ txs[2].outs = outs /\ txs[2].ins = selected /\ Len(txs) = 2
        BY DEF Tx
      <3> HIDE DEF txs, outs, fee
      <3>4. ASSUME selected # << >>, NEW i \in 1..Len(txs), NEW j \in 1..Len(txs[i].outs)
            PROVE  txs[i].outs[j] <= Total(txs[i].ins) \/ txs[i].outs = tx.outs
        BY <3>2, <3>3, <3>4
      <3> QED BY <1>7, <3>1, <3>4
    <2> QED BY <2>1, <2>2, <2>3
  <1>9. ASSUME NEW kind, NEW txs, NEW fee, NEW proof, NEW drawn \in {<< >>, selected},
               \/ recipe' = Failed(kind, tx)
               \/ recipe' = [kind |-> kind, of |-> tx, taken |-> drawn, needed |-> needed,
                             txs |-> txs, fee |-> fee, proof |-> proof, success |-> TRUE],
               \A i \in 1..Len(txs) : txs[i].outs = tx.outs
        PROVE  SelectionCoversFee'
    <2>1. CASE recipe' = Failed(kind, tx)
      <3>1. recipe'.taken = << >>
        BY <2>1 DEF Failed, NoRecipe
      <3> QED BY <1>7, <3>1
    <2>2. CASE recipe' = [kind |-> kind, of |-> tx, taken |-> drawn, needed |-> needed,
                             txs |-> txs, fee |-> fee, proof |-> proof, success |-> TRUE]
      <3>1. recipe'.taken = drawn /\ recipe'.needed = needed /\ recipe'.of = tx /\ recipe'.txs = txs
        BY <2>2
      <3> QED BY <1>7, <1>9, <3>1
    <2> QED BY <1>9, <2>1, <2>2
  <1>10. ASSUME NEW kinds \in SUBSET {"unshielded", "shielded", "dust"}, BalanceUnbound(tx, order, kinds)
         PROVE  SelectionCoversFee'
    <2> DEFINE balances == "unshielded" \in kinds /\ Shortfall(tx) > 0
               drawn == IF balances THEN selected ELSE << >>
               fee == IF balances THEN CalculateFee(Len(drawn), 1, FALSE) ELSE 0
               one == <<Tx(tx.ins \o drawn, tx.outs, fee)>>
               two == IF "shielded" \in kinds THEN <<CreateBalancingTransaction(tx, TRUE)>> ELSE << >>
               three == IF "dust" \in kinds THEN <<CreateBalancingTransaction(tx, FALSE)>> ELSE << >>
               txs == one \o two \o three
    <2>1. \/ recipe' = Failed("unbound", tx)
          \/ recipe' = [kind |-> "unbound", of |-> tx, taken |-> drawn, needed |-> needed,
                        txs |-> txs, fee |-> fee, proof |-> "shielded" \in kinds, success |-> TRUE]
      BY <1>10, Zenon DEF BalanceUnbound, selected, needed
    <2>2. \A i \in 1..Len(txs) : txs[i].outs = tx.outs
      <3>1. PICK a, b, c : /\ a = Tx(tx.ins \o drawn, tx.outs, fee)
                           /\ b = CreateBalancingTransaction(tx, TRUE)
                           /\ c = CreateBalancingTransaction(tx, FALSE)
        OBVIOUS
      <3>2. a.outs = tx.outs /\ b.outs = tx.outs /\ c.outs = tx.outs
        BY <3>1 DEF Tx, CreateBalancingTransaction
      <3>3. one = <<a>> /\ two \in {<<b>>, << >>} /\ three \in {<<c>>, << >>}
        BY <3>1
      <3> HIDE DEF one, two, three
      <3>4. PICK S : S = {a, b, c}
        OBVIOUS
      <3>5. one \in Seq(S) /\ two \in Seq(S) /\ three \in Seq(S)
        <4>1. <<a>> \in Seq(S) /\ <<b>> \in Seq(S) /\ <<c>> \in Seq(S) /\ << >> \in Seq(S)
          BY <3>4
        <4> QED BY <3>3, <4>1
      <3>6. one \o two \in Seq(S)
        BY <3>5
      <3>7. txs \in Seq(S)
        BY <3>5, <3>6
      <3> HIDE DEF txs
      <3> SUFFICES ASSUME NEW i \in 1..Len(txs) PROVE txs[i].outs = tx.outs
        OBVIOUS
      <3>8. txs[i] \in S
        BY <3>7, ElementOfSeq
      <3> QED BY <3>2, <3>4, <3>8
    <2>3. drawn \in {<< >>, selected}
      OBVIOUS
    <2> HIDE DEF drawn, fee, txs
    <2> QED BY <1>9, <2>1, <2>2, <2>3
  <1>11. ASSUME NEW kinds \in SUBSET {"unshielded", "shielded", "dust"}, BalanceUnproven(tx, order, kinds)
         PROVE  SelectionCoversFee'
    <2> DEFINE balances == "unshielded" \in kinds /\ Shortfall(tx) > 0
               drawn == IF balances THEN selected ELSE << >>
               fee == (IF balances THEN CalculateFee(Len(drawn), 1, FALSE) ELSE 0)
                        + (IF "shielded" \in kinds THEN CalculateFee(1, 1, TRUE) ELSE 0)
                        + (IF "dust" \in kinds THEN CalculateFee(1, 1, FALSE) ELSE 0)
               txs == <<Tx(tx.ins \o drawn, tx.outs, fee)>>
    <2>1. \/ recipe' = Failed("unproven", tx)
          \/ recipe' = [kind |-> "unproven", of |-> tx, taken |-> drawn, needed |-> needed,
                        txs |-> txs, fee |-> fee, proof |-> "shielded" \in kinds, success |-> TRUE]
      BY <1>11, Zenon DEF BalanceUnproven, selected, needed
    <2>2. \A i \in 1..Len(txs) : txs[i].outs = tx.outs
      BY DEF Tx
    <2>3. drawn \in {<< >>, selected}
      OBVIOUS
    <2> HIDE DEF drawn, fee, txs
    <2> QED BY <1>9, <2>1, <2>2, <2>3
  <1> QED BY <1>1, <1>8, <1>10, <1>11

(***************************************************************************)
(* Change that is split and transactions that are merged: what is left and *)
(* what was made are the change, and the sums of the result are those of   *)
(* its parts.                                                              *)
(***************************************************************************)
Transactions == [ins : Seq(Nat), outs : Seq(Nat), fee : Nat]

Fees(parts) == [i \in 1..Len(parts) |-> parts[i].fee]
Inputs(parts) == [i \in 1..Len(parts) |-> Total(parts[i].ins)]

BalancerInv ==
    /\ split \in [change : Nat, remaining : Nat, outs : Seq(Nat)]
    /\ split.remaining + Total(split.outs) = split.change
    /\ split.change >= MinDust /\ split.remaining < MinDust => split.remaining = 0
    /\ \A i \in 1..Len(split.outs) : split.outs[i] >= MinDust
    /\ merged \in [result : Transactions, parts : Seq(Transactions)]
    /\ merged.result.fee = Total(Fees(merged.parts))
    /\ Total(merged.result.ins) = Total(Inputs(merged.parts))

LEMMA BalancerHonest == BalancerInv => ChangeConserved
  BY DEF BalancerInv, ChangeConserved, Fees, Inputs

LEMMA NothingMerged ==
    /\ NoTransaction \in Transactions
    /\ NoTransaction.fee = Total(Fees(<< >>)) /\ Total(NoTransaction.ins) = Total(Inputs(<< >>))
  <1>1. NoTransaction \in Transactions /\ NoTransaction.fee = 0 /\ NoTransaction.ins = << >>
    BY DEF NoTransaction, Tx, Transactions
  <1>2. Fees(<< >>) = << >> /\ Inputs(<< >>) = << >>
    BY DEF Fees, Inputs
  <1> QED BY <1>1, <1>2, TotalsAre

LEMMA BalancerInitial == BalancerInit => BalancerInv /\ SelectionCoversFee
  <1> SUFFICES ASSUME BalancerInit PROVE BalancerInv /\ SelectionCoversFee
    OBVIOUS
  <1>1. recipe = NoRecipe /\ split = [change |-> 0, remaining |-> 0, outs |-> << >>]
        /\ merged = [result |-> NoTransaction, parts |-> << >>]
    BY DEF BalancerInit
  <1>2. split \in [change : Nat, remaining : Nat, outs : Seq(Nat)]
        /\ split.remaining = 0 /\ split.change = 0 /\ split.outs = << >>
    BY <1>1
  <1>3. merged \in [result : Transactions, parts : Seq(Transactions)]
        /\ merged.result = NoTransaction /\ merged.parts = << >>
    BY <1>1, NothingMerged
  <1>4. BalancerInv
    BY <1>2, <1>3, NothingMerged, TotalsAre DEF BalancerInv
  <1>5. recipe.taken = << >>
    BY <1>1 DEF NoRecipe
  <1> QED BY <1>4, <1>5 DEF SelectionCoversFee

LEMMA SplitKeeps == BalancerInv /\ SplitNext => BalancerInv'
  <1> SUFFICES ASSUME BalancerInv, SplitNext PROVE BalancerInv'
    OBVIOUS
  <1>1. MinDust \in Nat \ {0} /\ Amounts \subseteq Nat
    BY BalancerAssumption
  <1>2. split \in [change : Nat, remaining : Nat, outs : Seq(Nat)]
    BY DEF BalancerInv
  <1>3. ASSUME split' \in [change : Nat, remaining : Nat, outs : Seq(Nat)],
               split'.remaining + Total(split'.outs) = split'.change,
               split'.change >= MinDust /\ split'.remaining < MinDust => split'.remaining = 0,
               \A i \in 1..Len(split'.outs) : split'.outs[i] >= MinDust
        PROVE  BalancerInv'
    <2>1. UNCHANGED merged
      BY DEF SplitNext, SplitStep, SplitChange
    <2> QED BY <1>3, <2>1 DEF BalancerInv
  <1>4. ASSUME NEW change \in Amounts, SplitChange(change) PROVE BalancerInv'
    <2>1. split' = [change |-> change, remaining |-> change, outs |-> << >>]
      BY <1>4 DEF SplitChange
    <2>2. change \in Nat
      BY <1>1
    <2>3. /\ split' \in [change : Nat, remaining : Nat, outs : Seq(Nat)]
          /\ split'.change = change /\ split'.remaining = change /\ split'.outs = << >>
      BY <2>1, <2>2
    <2>4. split'.remaining + Total(split'.outs) = split'.change
      BY <2>2, <2>3, TotalsAre
    <2>5. split'.change >= MinDust /\ split'.remaining < MinDust => split'.remaining = 0
      BY <1>1, <2>2, <2>3
    <2>6. \A i \in 1..Len(split'.outs) : split'.outs[i] >= MinDust
      BY <2>3
    <2> QED BY <1>3, <2>3, <2>4, <2>5, <2>6
  <1>5. ASSUME SplitStep PROVE BalancerInv'
    <2> DEFINE amount == SplitAmount(split.remaining)
    <2>1. PICK r \in Nat, o \in Seq(Nat), c \in Nat : r = split.remaining /\ o = split.outs /\ c = split.change
      BY <1>2
    <2>2. r >= MinDust
      BY <1>5, <2>1 DEF SplitStep
    <2>3. /\ amount \in Nat /\ amount >= MinDust /\ r - amount \in Nat
          /\ r - amount < MinDust => r - amount = 0
      BY <1>1, <2>1, <2>2 DEF SplitAmount
    <2>4. split' = [change |-> c, remaining |-> r - amount, outs |-> Append(o, amount)]
      BY <1>5, <2>1 DEF SplitStep
    <2> HIDE DEF amount
    <2>5. /\ split' \in [change : Nat, remaining : Nat, outs : Seq(Nat)]
          /\ split'.change = c /\ split'.remaining = r - amount /\ split'.outs = Append(o, amount)
      BY <2>1, <2>3, <2>4
    <2>6. Total(Append(o, amount)) = Total(o) + amount /\ Total(o) \in Nat
      BY <2>1, <2>3, TotalsAre
    <2>7. r + Total(o) = c
      BY <2>1 DEF BalancerInv
    <2>8. (r - amount) + (Total(o) + amount) = c
      BY <2>1, <2>3, <2>6, <2>7
    <2>9. \A i \in 1..Len(Append(o, amount)) : Append(o, amount)[i] >= MinDust
      <3>1. \A i \in 1..Len(o) : o[i] >= MinDust
        BY <2>1 DEF BalancerInv
      <3> QED BY <2>1, <2>3, <3>1
    <2> QED BY <1>3, <2>3, <2>5, <2>6, <2>8, <2>9
  <1> QED BY <1>4, <1>5 DEF SplitNext

LEMMA MergeKeeps == BalancerInv /\ MergeNext => BalancerInv'
  <1> SUFFICES ASSUME BalancerInv, MergeNext PROVE BalancerInv'
    OBVIOUS
  <1>1. PICK a \in Amounts, b \in Amounts : MergeInto(Tx(<<a>>, << >>, b))
    BY DEF MergeNext
  <1>2. a \in Nat /\ b \in Nat
    BY BalancerAssumption
  <1>3. PICK source \in Transactions : /\ source = Tx(<<a>>, << >>, b)
                                       /\ source.ins = <<a>> /\ source.outs = << >> /\ source.fee = b
    <2>1. <<a>> \in Seq(Nat) /\ << >> \in Seq(Nat)
      BY <1>2
    <2>2. PICK source : source = Tx(<<a>>, << >>, b)
      OBVIOUS
    <2>3. source = [ins |-> <<a>>, outs |-> << >>, fee |-> b]
      BY <2>2 DEF Tx
    <2>4. source \in Transactions
      BY <1>2, <2>1, <2>3 DEF Transactions
    <2> QED BY <2>2, <2>3, <2>4
  <1>4. PICK was \in Transactions, parts \in Seq(Transactions) : was = merged.result /\ parts = merged.parts
    BY DEF BalancerInv
  <1>5. was.ins \in Seq(Nat) /\ was.outs \in Seq(Nat) /\ was.fee \in Nat
    BY DEF Transactions
  <1>6. ASSUME NEW result \in Transactions, NEW new \in Seq(Transactions),
               merged' = [result |-> result, parts |-> new],
               result.fee = Total(Fees(new)), Total(result.ins) = Total(Inputs(new))
        PROVE  BalancerInv'
    <2>1. merged' \in [result : Transactions, parts : Seq(Transactions)]
          /\ merged'.result = result /\ merged'.parts = new
      BY <1>6
    <2>2. UNCHANGED split
      BY <1>1 DEF MergeInto
    <2> QED BY <1>6, <2>1, <2>2 DEF BalancerInv
  <1>7. CASE merged' = [result |-> NoTransaction, parts |-> << >>]
    <2>1. << >> \in Seq(Transactions)
      OBVIOUS
    <2> QED BY <1>6, <1>7, <2>1, NothingMerged
  <1>8. CASE merged' = [result |-> Tx(was.ins \o source.ins, was.outs \o source.outs, was.fee + source.fee),
                        parts |-> Append(parts, source)]
    <2> DEFINE result == Tx(was.ins \o source.ins, was.outs \o source.outs, was.fee + source.fee)
               new == Append(parts, source)
    <2>1. /\ result.ins = Append(was.ins, a) /\ result.outs = was.outs /\ result.fee = was.fee + b
          /\ result \in Transactions
      <3>1. was.ins \o <<a>> = Append(was.ins, a) /\ was.outs \o << >> = was.outs
        BY <1>2, <1>5
      <3> QED BY <1>2, <1>3, <1>5, <3>1 DEF Tx, Transactions
    <2>2. /\ new \in Seq(Transactions)
          /\ Fees(new) = Append(Fees(parts), b) /\ Inputs(new) = Append(Inputs(parts), Total(<<a>>))
      <3>1. /\ new \in Seq(Transactions) /\ Len(new) = Len(parts) + 1 /\ new[Len(parts) + 1] = source
            /\ \A i \in 1..Len(parts) : new[i] = parts[i]
        BY <1>3, <1>4
      <3> HIDE DEF new
      <3>2. PICK n \in Nat : n = Len(parts)
        BY <1>4
      <3>3. Fees(new) = [i \in 1..(n + 1) |-> IF i = n + 1 THEN b ELSE parts[i].fee]
        BY <1>3, <3>1, <3>2 DEF Fees
      <3>4. Inputs(new) = [i \in 1..(n + 1) |-> IF i = n + 1 THEN Total(<<a>>) ELSE Total(parts[i].ins)]
        BY <1>3, <3>1, <3>2 DEF Inputs
      <3>5. Append(Fees(parts), b) = [i \in 1..(n + 1) |-> IF i = n + 1 THEN b ELSE parts[i].fee]
        BY <3>2 DEF Fees
      <3>6. Append(Inputs(parts), Total(<<a>>)) = [i \in 1..(n + 1) |-> IF i = n + 1 THEN Total(<<a>>) ELSE Total(parts[i].ins)]
        BY <3>2 DEF Inputs
      <3> QED BY <3>1, <3>3, <3>4, <3>5, <3>6
    <2>3. Total(<<a>>) = a
      <3>1. <<a>> = Append(<< >>, a) /\ << >> \in Seq(Nat)
        BY <1>2
      <3>2. Total(Append(<< >>, a)) = Total(<< >>) + a
        BY <1>2, <3>1, TotalsAre
      <3> QED BY <1>2, <3>1, <3>2, TotalsAre
    <2>4. Fees(parts) \in Seq(Nat) /\ Inputs(parts) \in Seq(Nat)
      <3>1. ASSUME NEW i \in 1..Len(parts) PROVE parts[i].fee \in Nat /\ parts[i].ins \in Seq(Nat)
        <4>1. parts[i] \in Transactions
          BY <1>4, ElementOfSeq
        <4> QED BY <4>1 DEF Transactions
      <3>2. ASSUME NEW i \in 1..Len(parts) PROVE Total(parts[i].ins) \in Nat
        BY <3>1, TotalsAre
      <3>3. Len(parts) \in Nat
        BY <1>4
      <3> QED BY <3>1, <3>2, <3>3 DEF Fees, Inputs
    <2>5. was.fee = Total(Fees(parts)) /\ Total(was.ins) = Total(Inputs(parts))
      BY <1>4 DEF BalancerInv
    <2>6. result.fee = Total(Fees(new))
      BY <1>2, <2>1, <2>2, <2>4, <2>5, TotalsAre
    <2>7. Total(result.ins) = Total(Inputs(new))
      BY <1>2, <1>5, <2>1, <2>2, <2>3, <2>4, <2>5, TotalsAre, ZenonT(60)
    <2> HIDE DEF result, new
    <2>8. merged' = [result |-> result, parts |-> new]
      BY <1>8 DEF result, new
    <2> QED BY <1>6, <2>1, <2>2, <2>6, <2>7, <2>8
  <1>9. \/ merged' = [result |-> NoTransaction, parts |-> << >>]
        \/ merged' = [result |-> Tx(was.ins \o source.ins, was.outs \o source.outs, was.fee + source.fee),
                      parts |-> Append(parts, source)]
    BY <1>1, <1>3, <1>4, Zenon DEF MergeInto
  <1> QED BY <1>7, <1>8, <1>9

LEMMA BalancingApart ==
    /\ BalanceNext => UNCHANGED <<split, merged>>
    /\ SplitNext \/ MergeNext => UNCHANGED recipe
    /\ BalancerInv /\ UNCHANGED <<split, merged>> => BalancerInv'
    /\ SelectionCoversFee /\ UNCHANGED recipe => SelectionCoversFee'
  <1>1. BalanceNext => UNCHANGED <<split, merged>>
    <2>1. ASSUME NEW tx, NEW order, NEW kinds,
                 BalanceFinalized(tx, order) \/ BalanceUnbound(tx, order, kinds) \/ BalanceUnproven(tx, order, kinds)
          PROVE  UNCHANGED <<split, merged>>
      BY <2>1, Zenon DEF BalanceFinalized, BalanceUnbound, BalanceUnproven
    <2> QED BY <2>1, Zenon DEF BalanceNext
  <1>2. SplitNext \/ MergeNext => UNCHANGED recipe
    BY DEF SplitNext, SplitStep, SplitChange, MergeNext, MergeInto
  <1>3. BalancerInv /\ UNCHANGED <<split, merged>> => BalancerInv'
    BY DEF BalancerInv
  <1>4. SelectionCoversFee /\ UNCHANGED recipe => SelectionCoversFee'
    BY DEF SelectionCoversFee
  <1> QED BY <1>1, <1>2, <1>3, <1>4
-----------------------------------------------------------------------------
(***************************************************************************)
(* The facade's selection of coins.                                        *)
(***************************************************************************)

Weights == [c \in 1..Len(Purse) |-> Purse[c].amount]
Among(token) == {c \in 1..Len(Purse) : Purse[c].token = token}
ValueOf(coins) == [i \in 1..Len(coins) |-> Purse[coins[i]].amount]

LEMMA PurseValues ==
    /\ Len(Purse) \in Nat /\ IsFiniteSet(1..Len(Purse))
    /\ \A c \in 1..Len(Purse) : Weights[c] = Purse[c].amount /\ Weights[c] \in Nat
  <1>1. Len(Purse) \in Nat
    BY WalletFacadeAssumption
  <1>2. IsFiniteSet(1..Len(Purse))
    BY <1>1, FS_Interval
  <1>3. ASSUME NEW c \in 1..Len(Purse) PROVE Purse[c].amount \in Nat
    <2>1. Purse[c] \in [token : {Purse[d].token : d \in 1..Len(Purse)}, amount : Nat]
      BY WalletFacadeAssumption, ElementOfSeq
    <2> QED BY <2>1
  <1> QED BY <1>1, <1>2, <1>3 DEF Weights

(* A shuffle has each coin of its token once. *)
LEMMA ShuffleOf ==
    ASSUME NEW token, NEW strategy, NEW order \in Shuffles(token, strategy)
    PROVE  /\ Len(order) = Cardinality(Among(token)) /\ Len(order) \in Nat
           /\ order \in [1..Len(order) -> Among(token)]
           /\ \A i, j \in 1..Len(order) : order[i] = order[j] => i = j
           /\ Firsts(order, Len(order)) = Among(token)
           /\ strategy = "LargestFirst" =>
                \A i, j \in 1..Len(order) : i < j => Purse[order[i]].amount >= Purse[order[j]].amount
  <1>1. IsFiniteSet(Among(token)) /\ Cardinality(Among(token)) \in Nat
    <2>1. Among(token) \in SUBSET (1..Len(Purse))
      BY DEF Among
    <2> QED BY <2>1, PurseValues, FS_Subset, FS_CardinalityType
  <1>2. PICK D, n : D = Among(token) /\ n = Cardinality(D)
    OBVIOUS
  <1>3. order \in SetToSeqs(D)
    BY <1>2 DEF Shuffles, Among
  <1>4. order \in [1..n -> D] /\ \A i, j \in 1..n : order[i] = order[j] => i = j
    BY <1>2, <1>3 DEF SetToSeqs
  <1>5. n \in Nat /\ Len(order) = n
    BY <1>1, <1>2, <1>4
  <1>6. Firsts(order, n) = D
    <2>1. PICK P : P = Firsts(order, n)
      OBVIOUS
    <2>2. P \in SUBSET D
      BY <1>4, <2>1 DEF Firsts
    <2>3. Cardinality(P) = n
      <3>1. PICK w : w = [d \in D |-> 0]
        OBVIOUS
      <3>2. IsFiniteSet(D) /\ \A d \in D : w[d] \in Nat
        BY <1>1, <1>2, <3>1
      <3>3. \A k \in 0..n : Cardinality(Firsts(order, k)) = k
        BY <1>4, <1>5, <3>1, <3>2, SumOfDistinct
      <3> QED BY <1>5, <2>1, <3>3
    <2> QED BY <1>1, <1>2, <2>1, <2>2, <2>3, FS_Subset
  <1>7. ASSUME strategy = "LargestFirst", NEW i \in 1..n, NEW j \in 1..n, i < j
        PROVE  Purse[order[i]].amount >= Purse[order[j]].amount
    BY <1>5, <1>7 DEF Shuffles
  <1> QED BY <1>2, <1>4, <1>5, <1>6, <1>7

(* What a prefix of a shuffle is worth. *)
LEMMA PrefixWorth ==
    ASSUME NEW token, NEW strategy, NEW order \in Shuffles(token, strategy), NEW k \in 0..Len(order)
    PROVE  /\ Firsts(order, k) \in SUBSET Among(token)
           /\ IsFiniteSet(Firsts(order, k)) /\ Cardinality(Firsts(order, k)) = k
           /\ Worth(SubSeq(order, 1, k)) = SumOver(Weights, Firsts(order, k))
           /\ Worth(SubSeq(order, 1, k)) \in Nat
  <1> DEFINE P == Firsts(order, k)
  <1>1. PICK n \in Nat : n = Len(order)
    BY ShuffleOf
  <1>2. /\ order \in [1..n -> Among(token)]
        /\ \A i, j \in 1..n : order[i] = order[j] => i = j
    BY <1>1, ShuffleOf
  <1>3. Among(token) \in SUBSET (1..Len(Purse))
    BY DEF Among
  <1>4. IsFiniteSet(Among(token)) /\ \A d \in Among(token) : Weights[d] \in Nat
    BY <1>3, PurseValues, FS_Subset
  <1>5. PICK v : v = Along(Weights, order, n)
    OBVIOUS
  <1>6. /\ IsFiniteSet(P) /\ Cardinality(P) = k /\ SumOver(v, 1..k) = SumOver(Weights, P)
    <2>1. k \in 0..n
      BY <1>1
    <2> QED BY <1>2, <1>4, <1>5, <2>1, SumOfDistinct
  <1>7. P \in SUBSET Among(token)
    BY <1>1, <1>2 DEF Firsts
  <1>8. SumOver(Weights, P) \in Nat
    <2>1. \A d \in P : Weights[d] \in Nat
      BY <1>4, <1>7
    <2> HIDE DEF P
    <2> QED BY <1>6, <2>1, SumUnfolds
  <1>9. Worth(SubSeq(order, 1, k)) = SumOver(v, 1..k)
    <2>1. PICK s : s = SubSeq(order, 1, k)
      OBVIOUS
    <2>2. Len(s) = k /\ k \in Nat /\ \A i \in 1..k : s[i] = order[i] /\ i \in 1..n
      BY <1>1, <1>2, <2>1
    <2>3. PICK u : u = [i \in 1..k |-> Purse[s[i]].amount]
      OBVIOUS
    <2>4. Worth(s) = SumOver(u, 1..k)
      BY <2>2, <2>3 DEF Worth, SumSeq
    <2>5. \A i \in 1..k : u[i] = v[i] /\ u[i] \in Nat
      <3> SUFFICES ASSUME NEW i \in 1..k PROVE u[i] = v[i] /\ u[i] \in Nat
        OBVIOUS
      <3>1. order[i] \in Among(token) /\ i \in 1..n
        BY <1>2, <2>2
      <3>2. Weights[order[i]] = Purse[order[i]].amount /\ Weights[order[i]] \in Nat
        BY <1>3, <3>1, PurseValues
      <3> QED BY <1>5, <2>2, <2>3, <3>1, <3>2 DEF Along
    <2>6. IsFiniteSet(1..k)
      BY <2>2, FS_Interval
    <2> QED BY <2>1, <2>4, <2>5, <2>6, SumSame
  <1> QED BY <1>6, <1>7, <1>8, <1>9

LEMMA WholeShuffle ==
    ASSUME NEW token, NEW strategy, NEW order \in Shuffles(token, strategy)
    PROVE  SubSeq(order, 1, Len(order)) = order
  BY ShuffleOf

(* Coins are taken up to the first prefix that reaches the target, or all. *)
LEMMA Accumulated ==
    ASSUME NEW token, NEW strategy, NEW order \in Shuffles(token, strategy), NEW target \in Nat
    PROVE  \E k \in 0..Len(order) :
              /\ Accumulate(order, target) = SubSeq(order, 1, k)
              /\ k = 0 => Len(order) = 0
              /\ k > 1 => Worth(SubSeq(order, 1, k - 1)) < target
              /\ k < Len(order) => Worth(SubSeq(order, 1, k)) >= target
  <1> DEFINE enough == {n \in 1..Len(order) : Worth(SubSeq(order, 1, n)) >= target}
             first == CHOOSE n \in enough : \A m \in enough : n <= m
  <1>1. Accumulate(order, target) = IF enough = {} THEN order ELSE SubSeq(order, 1, first)
    BY Zenon DEF Accumulate
  <1>2. Len(order) \in Nat /\ SubSeq(order, 1, Len(order)) = order
    BY ShuffleOf, WholeShuffle
  <1>3. ASSUME NEW n \in 1..Len(order), n \notin enough PROVE Worth(SubSeq(order, 1, n)) < target
    <2>1. n \in 0..Len(order)
      BY <1>2
    <2>2. Worth(SubSeq(order, 1, n)) \in Nat
      BY <2>1, PrefixWorth
    <2> QED BY <1>3, <2>2
  <1>4. CASE enough = {}
    <2>1. Len(order) \in 0..Len(order)
      BY <1>2
    <2>2. ASSUME Len(order) > 1 PROVE Worth(SubSeq(order, 1, Len(order) - 1)) < target
      <3>1. Len(order) - 1 \in 1..Len(order)
        BY <1>2, <2>2
      <3> QED BY <1>3, <1>4, <3>1
    <2>3. Accumulate(order, target) = SubSeq(order, 1, Len(order))
      BY <1>1, <1>2, <1>4
    <2>4. ~ (Len(order) < Len(order))
      BY <1>2
    <2> QED BY <2>1, <2>2, <2>3, <2>4
  <1>5. CASE enough # {}
    <2>1. enough \subseteq Nat
      OBVIOUS
    <2>2. first \in enough /\ \A m \in enough : first <= m
      <3> HIDE DEF enough
      <3>1. \E n \in enough : \A m \in enough : n <= m
        BY <1>5, <2>1, LeastElement
      <3> QED BY <3>1
    <2> HIDE DEF first
    <2>3. first \in 1..Len(order) /\ first \in 0..Len(order) /\ Worth(SubSeq(order, 1, first)) >= target
      BY <1>2, <2>2
    <2>4. ASSUME first > 1 PROVE Worth(SubSeq(order, 1, first - 1)) < target
      <3>1. first - 1 \in 1..Len(order) /\ ~ (first <= first - 1)
        BY <1>2, <2>3, <2>4
      <3>2. first - 1 \notin enough
        <4> HIDE DEF enough
        <4> QED BY <2>2, <3>1
      <3> HIDE DEF enough
      <3> QED BY <1>3, <3>1, <3>2
    <2>5. Accumulate(order, target) = SubSeq(order, 1, first)
      BY <1>1, <1>5
    <2> QED BY <2>3, <2>4, <2>5
  <1> QED BY <1>4, <1>5

(* The sum that ChoiceCovers takes over a set of coins.                    *)
LEMMA WorthOfSet ==
    ASSUME NEW S \in SUBSET (1..Len(Purse))
    PROVE  SumOver([c \in S |-> Purse[c].amount], S) = SumOver(Weights, S) /\ SumOver(Weights, S) \in Nat
  <1>1. PICK u : u = [c \in S |-> Purse[c].amount]
    OBVIOUS
  <1>2. IsFiniteSet(S)
    BY PurseValues, FS_Subset
  <1>3. \A c \in S : u[c] = Weights[c] /\ Weights[c] \in Nat /\ u[c] \in Nat
    BY <1>1, PurseValues
  <1>4. SumOver(u, S) = SumOver(Weights, S)
    BY <1>2, <1>3, SumSame
  <1>5. SumOver(Weights, S) \in Nat
    BY <1>2, <1>3, SumUnfolds
  <1> QED BY <1>1, <1>4, <1>5

(* Fewer coins than the largest that were needed do not reach the target.  *)
LEMMA NoFewerReach ==
    ASSUME NEW token, NEW order \in Shuffles(token, "LargestFirst"), NEW target \in Nat,
           NEW k \in 0..Len(order), k > 1, Worth(SubSeq(order, 1, k - 1)) < target,
           NEW S \in SUBSET Among(token), SumOver(Weights, S) >= target
    PROVE  Cardinality(S) >= k
  <1> DEFINE P == Firsts(order, k - 1)
  <1>1. PICK n \in Nat : n = Len(order)
    BY ShuffleOf
  <1>2. k \in Nat /\ k - 1 \in 0..Len(order) /\ k <= n
    BY <1>1
  <1>3. /\ P \in SUBSET Among(token) /\ Cardinality(P) = k - 1
        /\ SumOver(Weights, P) \in Nat /\ SumOver(Weights, P) < target
    BY <1>2, PrefixWorth
  <1>4. Among(token) \in SUBSET (1..Len(Purse))
    BY DEF Among
  <1>5. IsFiniteSet(Among(token)) /\ \A d \in Among(token) : Weights[d] \in Nat
    BY <1>4, PurseValues, FS_Subset
  <1>6. Cardinality(S) \in Nat /\ SumOver(Weights, S) \in Nat
    BY <1>4, <1>5, FS_Subset, FS_CardinalityType, WorthOfSet
  <1>7. ASSUME NEW a \in Among(token) \ P, NEW b \in P PROVE Weights[a] <= Weights[b]
    <2>1. PICK j \in 1..n : order[j] = a
      BY <1>1, ShuffleOf DEF Firsts
    <2>2. PICK i \in 1..(k - 1) : order[i] = b
      BY DEF Firsts
    <2>3. ~ (j \in 1..(k - 1))
      BY <1>7, <2>1 DEF Firsts
    <2>4. i \in 1..Len(order) /\ j \in 1..Len(order) /\ i < j
      BY <1>1, <1>2, <2>1, <2>2, <2>3
    <2>5. Purse[order[i]].amount >= Purse[order[j]].amount
      BY <2>4, ShuffleOf
    <2>6. /\ Weights[a] = Purse[a].amount /\ Weights[b] = Purse[b].amount
          /\ Weights[a] \in Nat /\ Weights[b] \in Nat
      BY <1>3, <1>4, PurseValues
    <2> QED BY <2>1, <2>2, <2>5, <2>6
  <1> SUFFICES ASSUME ~ (Cardinality(S) >= k) PROVE FALSE
    OBVIOUS
  <1>8. Cardinality(S) <= Cardinality(P)
    BY <1>2, <1>3, <1>6
  <1> HIDE DEF P
  <1>9. SumOver(Weights, S) <= SumOver(Weights, P)
    BY <1>3, <1>5, <1>7, <1>8, SumOfGreatest
  <1> QED BY <1>3, <1>6, <1>9

(* Coins of one token, each of them once. *)
Distinct(coins, token) ==
    /\ coins \in Seq(Among(token))
    /\ \A i, j \in 1..Len(coins) : coins[i] = coins[j] => i = j

LEMMA PrefixDistinct ==
    ASSUME NEW token, NEW strategy, NEW order \in Shuffles(token, strategy), NEW k \in 0..Len(order)
    PROVE  Distinct(SubSeq(order, 1, k), token) /\ Len(SubSeq(order, 1, k)) = k
  <1>1. PICK n \in Nat : n = Len(order)
    BY ShuffleOf
  <1>2. /\ order \in [1..n -> Among(token)]
        /\ \A i, j \in 1..n : order[i] = order[j] => i = j
    BY <1>1, ShuffleOf
  <1>3. PICK s : s = SubSeq(order, 1, k)
    OBVIOUS
  <1>4. /\ s \in Seq(Among(token)) /\ Len(s) = k /\ k \in 0..n
        /\ \A i \in 1..k : s[i] = order[i]
    BY <1>1, <1>2, <1>3
  <1>5. ASSUME NEW i \in 1..k, NEW j \in 1..k, s[i] = s[j] PROVE i = j
    BY <1>2, <1>4, <1>5
  <1> QED BY <1>3, <1>4, <1>5 DEF Distinct

LEMMA ImproveDistinct ==
    ASSUME NEW token, NEW strategy, NEW order \in Shuffles(token, strategy),
           NEW selected, Distinct(selected, token), NEW target
    PROVE  Distinct(Improve(order, selected, target), token) /\ Len(Improve(order, selected, target)) = Len(selected)
  <1> DEFINE amount(c) == Purse[c].amount
             largest == CHOOSE i \in 1..Len(selected) :
                           \A j \in 1..Len(selected) : \/ amount(selected[j]) < amount(selected[i])
                                                       \/ amount(selected[j]) = amount(selected[i]) /\ i <= j
             after(c) == Worth(selected) - amount(selected[largest]) + amount(c)
             better == {i \in 1..Len(order) : /\ order[i] \notin {selected[j] : j \in 1..Len(selected)}
                                              /\ Waste(after(order[i]), target) < Waste(Worth(selected), target)}
             next == CHOOSE i \in better : \A j \in better : i <= j
             improved == Improve(order, selected, target)
  <1>1. improved = IF better = {} THEN selected ELSE [selected EXCEPT ![largest] = order[next]]
    BY Zenon DEF Improve
  <1>2. \A i \in better : i \in 1..Len(order) /\ order[i] \notin {selected[j] : j \in 1..Len(selected)}
    OBVIOUS
  <1>3. better \subseteq 1..Len(order)
    OBVIOUS
  <1> HIDE DEF better, largest, improved
  <1>4. selected \in Seq(Among(token)) /\ \A i, j \in 1..Len(selected) : selected[i] = selected[j] => i = j
    BY DEF Distinct
  <1>5. CASE better = {}
    BY <1>1, <1>5 DEF improved
  <1>6. CASE better # {}
    <2>1. better \subseteq Nat
      BY <1>3, ShuffleOf
    <2>2. next \in better
      <3>1. \E i \in better : \A j \in better : i <= j
        BY <1>6, <2>1, LeastElement
      <3> QED BY <3>1
    <2>3. PICK x \in Among(token) : x = order[next] /\ x \notin {selected[j] : j \in 1..Len(selected)}
      <3> HIDE DEF next
      <3>1. next \in 1..Len(order)
        BY <1>2, <2>2
      <3>2. order[next] \in Among(token)
        BY <3>1, ShuffleOf
      <3> QED BY <1>2, <2>2, <3>2
    <2> HIDE DEF next
    <2>4. improved = [selected EXCEPT ![largest] = x]
      BY <1>1, <1>6, <2>3
    <2>5. PICK m \in Nat : m = Len(selected) /\ selected \in [1..m -> Among(token)]
      BY <1>4
    <2>6. /\ improved \in [1..m -> Among(token)]
          /\ \A i \in 1..m : improved[i] = IF i = largest THEN x ELSE selected[i]
      BY <2>3, <2>4, <2>5
    <2>7. improved \in Seq(Among(token)) /\ Len(improved) = m
      BY <2>6
    <2>8. ASSUME NEW i \in 1..m, NEW j \in 1..m, improved[i] = improved[j] PROVE i = j
      BY <1>4, <2>3, <2>5, <2>6, <2>8
    <2> QED BY <2>5, <2>7, <2>8 DEF Distinct, improved
  <1> QED BY <1>5, <1>6

LEMMA ChoiceInitial == FacadeInit => ChoiceCovers
  BY DEF FacadeInit, ChoiceCovers

LEMMA ChooseCovers ==
    ASSUME NEW token \in {Purse[c].token : c \in 1..Len(Purse)}, NEW target \in Targets, Choose(token, target)
    PROVE  ChoiceCovers'
  <1>1. PICK order \in Shuffles(token, facade.strategy) :
           choice' = [strategy |-> facade.strategy, target |-> target, token |-> token,
                      coins |-> SelectCoins(order, facade.strategy, target)]
    BY DEF Choose
  <1> DEFINE strategy == facade.strategy
             first == Accumulate(order, target)
             improves == strategy = "RandomImprove" /\ Worth(first) > target
             selected == IF improves THEN Improve(order, first, target) ELSE first
             coins == SelectCoins(order, strategy, target)
  <1>2. target \in Nat
    BY WalletFacadeAssumption
  <1>3. PICK k \in 0..Len(order) :
              /\ first = SubSeq(order, 1, k)
              /\ k = 0 => Len(order) = 0
              /\ k > 1 => Worth(SubSeq(order, 1, k - 1)) < target
              /\ k < Len(order) => Worth(SubSeq(order, 1, k)) >= target
    BY <1>1, <1>2, Accumulated
  <1>4. coins = IF Worth(selected) >= target THEN selected ELSE << >>
    BY Zenon DEF SelectCoins
  <1> HIDE DEF first
  <1>5. Distinct(first, token) /\ Len(first) = k /\ Len(order) \in Nat /\ Len(order) > 0
    <2>1. Distinct(first, token) /\ Len(first) = k
      BY <1>1, <1>3, PrefixDistinct
    <2>2. Len(order) \in Nat /\ Firsts(order, Len(order)) = Among(token)
      BY <1>1, ShuffleOf
    <2>3. Among(token) # {}
      BY DEF Among
    <2>4. Len(order) # 0
      BY <2>2, <2>3 DEF Firsts
    <2> QED BY <2>1, <2>2, <2>4
  <1>6. Distinct(selected, token) /\ Len(selected) = k
    BY <1>1, <1>5, ImproveDistinct
  <1>7. k > 0 /\ k \in Nat
    BY <1>3, <1>5
  <1> HIDE DEF coins, selected, improves
  <1>8. Distinct(coins, token)
    <2>1. Distinct(<< >>, token)
      BY DEF Distinct
    <2> QED BY <1>4, <1>6, <2>1
  <1>9. /\ choice'.strategy = strategy /\ choice'.target = target /\ choice'.token = token
        /\ choice'.coins = coins
    BY <1>1 DEF coins
  <1> DEFINE n == Len(coins)
             worth(S) == SumOver([c \in S |-> Purse[c].amount], S)
  <1>10. n > 0 => Worth(coins) >= target
    BY <1>4
  <1>11. {coins[i] : i \in 1..n} \subseteq Among(token) /\ IsInjective(coins)
    <2>1. coins \in Seq(Among(token)) /\ \A i, j \in 1..n : coins[i] = coins[j] => i = j
      BY <1>8 DEF Distinct
    <2>2. \A i \in 1..n : coins[i] \in Among(token)
      BY <2>1, ElementOfSeq
    <2>3. DOMAIN coins = 1..n
      BY <2>1
    <2> QED BY <2>1, <2>2, <2>3 DEF IsInjective
  <1>12. ASSUME n = 0, strategy # "RandomImprove" PROVE worth(Among(token)) < target
    <2>1. selected = first
      BY <1>12 DEF selected, improves
    <2>2. ~ (Worth(first) >= target)
      BY <1>4, <1>5, <1>7, <1>12, <2>1
    <2>3. k = Len(order)
      BY <1>3, <1>5, <2>2
    <2>4. /\ Worth(first) = SumOver(Weights, Firsts(order, k)) /\ Worth(first) \in Nat
      BY <1>1, <1>3, PrefixWorth
    <2>5. Firsts(order, k) = Among(token)
      BY <1>1, <2>3, ShuffleOf
    <2>6. worth(Among(token)) = SumOver(Weights, Among(token))
      BY WorthOfSet DEF Among
    <2> QED BY <1>2, <2>2, <2>4, <2>5, <2>6
  <1>13. ASSUME strategy = "LargestFirst", NEW S \in SUBSET Among(token), worth(S) >= target, n > 1
         PROVE  Cardinality(S) >= n
    <2>1. selected = first
      BY <1>13 DEF selected, improves
    <2>2. coins = first /\ n = k
      <3>1. coins \in {selected, << >>}
        BY <1>4
      <3>2. Len(<< >>) = 0
        OBVIOUS
      <3> QED BY <1>5, <1>13, <2>1, <3>1, <3>2
    <2>3. SumOver(Weights, S) >= target
      <3>1. S \in SUBSET (1..Len(Purse))
        BY DEF Among
      <3> QED BY <1>13, <3>1, WorthOfSet
    <2>4. order \in Shuffles(token, "LargestFirst")
      BY <1>1, <1>13
    <2>5. k > 1 /\ Worth(SubSeq(order, 1, k - 1)) < target
      BY <1>3, <1>13, <2>2
    <2> QED BY <1>2, <2>2, <2>3, <2>4, <2>5, NoFewerReach
  <1> HIDE DEF n, worth
  <1>14. Among(token) = {c \in 1..Len(Purse) : Purse[c].token = token}
    BY DEF Among
  <1>15. ChoiceCovers' = (choice' # NotChosen =>
            /\ n > 0 => Worth(coins) >= target
            /\ {coins[i] : i \in 1..n} \subseteq Among(token) /\ IsInjective(coins)
            /\ n = 0 /\ strategy # "RandomImprove" => worth(Among(token)) < target
            /\ strategy = "LargestFirst" =>
                 \A S \in SUBSET Among(token) : worth(S) >= target /\ n > 1 => Cardinality(S) >= n)
    BY <1>9, <1>14, Zenon DEF ChoiceCovers, n, worth
  <1> HIDE DEF strategy
  <1> QED BY <1>10, <1>11, <1>12, <1>13, <1>15

LEMMA ChoosingCovers == ChoiceCovers /\ ChoosingNext => ChoiceCovers'
  <1>1. ASSUME NEW s, SetCoinSelectionStrategy(s) PROVE ChoiceCovers'
    BY <1>1 DEF SetCoinSelectionStrategy, Becomes, ChoiceCovers
  <1> QED BY <1>1, ChooseCovers DEF ChoosingNext

LEMMA FacadeKeepsChoice == FacadeNext => UNCHANGED choice
  BY DEF FacadeNext, MakeLocal, FromMnemonic, FromMnemonicWithConfig, Start, Stop, Clear, SignData,
         RestoreFromEncrypted, SerializeEncrypted, Becomes
-----------------------------------------------------------------------------
(***************************************************************************)
(* Keys, signatures and the facade that holds them.                        *)
(***************************************************************************)

(* Keys: in the hand or in the file, a private half is that of its public  *)
(* half, unless one of the two is not there.                               *)
Halves(k) == k.priv \in {k.pub, Garbage} \/ k.pub = NoPublic

KeyShape == [type : AllSchemes, scheme : AllSchemes, pub : Nat, priv : Nat]

SigningInv ==
    /\ keypair \in KeyShape /\ Halves(keypair)
    /\ keyfile \in [state : FileStates \cup {"absent"}, key : KeyShape, password : Passwords \cup {""}]
    /\ Halves(keyfile.key)
    /\ saving \in Passwords \cup {""}
    /\ born \in Nat

LEMMA NoKeyShape == NoKey \in KeyShape /\ NoKey.pub = NoPublic
  <1>1. /\ Keypair("BIP340", "BIP340", Garbage) \in KeyShape
        /\ NoPublic \in Nat
    BY SigningAssumption DEF Keypair, KeyShape, AllSchemes, NoPublic, Garbage
  <1> QED BY <1>1 DEF NoKey, KeyShape

LEMMA NoFileShape ==
    NoFile \in [state : FileStates \cup {"absent"}, key : KeyShape, password : Passwords \cup {""}]
    /\ NoFile.key.pub = NoPublic
  BY NoKeyShape DEF NoFile

LEMMA SigningInitial == SigningInit => SigningInv
  <1> SUFFICES ASSUME SigningInit PROVE SigningInv
    OBVIOUS
  <1>1. keypair = NoKey /\ keyfile = NoFile /\ saving = "" /\ born = 0
    BY DEF SigningInit
  <1> QED BY <1>1, NoKeyShape, NoFileShape DEF SigningInv, Halves

LEMMA MadeKeyShape ==
    ASSUME NEW t \in Schemes, NEW s \in AllSchemes, NEW m \in Nat
    PROVE  Keypair(t, s, m) \in KeyShape /\ Halves(Keypair(t, s, m))
  BY SigningAssumption DEF Keypair, KeyShape, Halves

LEMMA SigningStep == SigningInv /\ SigningNext => SigningInv'
  <1> SUFFICES ASSUME SigningInv, SigningNext PROVE SigningInv'
    OBVIOUS
  <1>0. MaxKeys \in Nat /\ Schemes \subseteq AllSchemes /\ "ED25519" \in AllSchemes /\ SeedKey \in Nat
    BY SigningAssumption DEF AllSchemes, SeedKey
  <1>b. born \in Nat
    BY DEF SigningInv
  <1>1. CASE \E s \in Schemes : GenerateKey(s)
    <2>1. PICK s \in Schemes : GenerateKey(s)
      BY <1>1
    <2>2. keypair' = Keypair(s, s, born + 1) /\ born' = born + 1 /\ UNCHANGED <<keyfile, saving>>
      BY <2>1 DEF GenerateKey
    <2>3. Keypair(s, s, born + 1) \in KeyShape /\ Halves(Keypair(s, s, born + 1))
      <3>1. born + 1 \in Nat /\ s \in AllSchemes
        BY <1>0, <1>b
      <3> QED BY ONLY <3>1, <2>1, MadeKeyShape
    <2>4. keypair' \in KeyShape /\ Halves(keypair')
      BY <2>2, <2>3
    <2>5. born' \in Nat
      BY <1>b, <2>2
    <2> QED BY <2>2, <2>4, <2>5 DEF SigningInv, Halves
  <1>2. CASE \E t \in Schemes : ImportFromSeed(t)
    <2>1. PICK t \in Schemes : ImportFromSeed(t)
      BY <1>2
    <2>2. keypair' = Keypair(t, "ED25519", SeedKey) /\ UNCHANGED <<born, keyfile, saving>>
      BY <2>1 DEF ImportFromSeed
    <2>3. Keypair(t, "ED25519", SeedKey) \in KeyShape /\ Halves(Keypair(t, "ED25519", SeedKey))
      BY <1>0, MadeKeyShape
    <2>4. keypair' \in KeyShape /\ Halves(keypair')
      BY <2>2, <2>3
    <2> QED BY <2>2, <2>4 DEF SigningInv, Halves
  <1>3. CASE \E p \in Passwords : OpenKeyFile(p)
    <2>1. PICK p \in Passwords : OpenKeyFile(p)
      BY <1>3
    <2>2. saving' = p /\ keyfile' = NoFile /\ UNCHANGED <<keypair, born>>
      BY <2>1 DEF OpenKeyFile
    <2>3. Halves(keyfile'.key)
      BY <2>2, NoFileShape DEF Halves
    <2> QED BY <2>2, <2>3, NoFileShape DEF SigningInv, Halves
  <1>4. CASE \E f \in FileStates : WriteKeyFile(f)
    <2>1. PICK f \in FileStates : WriteKeyFile(f)
      BY <1>4
    <2>2. /\ keyfile' = [state |-> f, key |-> keypair, password |-> saving]
          /\ saving' = "" /\ UNCHANGED <<keypair, born>>
      BY <2>1 DEF WriteKeyFile
    <2> QED BY <2>2 DEF SigningInv, Halves
  <1>5. CASE \E p \in Passwords \cup {WrongPassword} : LoadKey(p)
    <2>1. PICK p \in Passwords \cup {WrongPassword} : LoadKey(p)
      BY <1>5
    <2> DEFINE type == IF keyfile.state = "no type" THEN "SR25519" ELSE keyfile.key.type
               pub == IF keyfile.state = "whole" THEN keyfile.key.pub ELSE NoPublic
               priv == Decrypt(p)
    <2>2. /\ keypair' = [type |-> type, scheme |-> keyfile.key.scheme, pub |-> pub, priv |-> priv]
          /\ UNCHANGED <<born, keyfile, saving>>
      BY <2>1 DEF LoadKey
    <2>3. keyfile.key \in KeyShape
      BY DEF SigningInv
    <2>4. type \in AllSchemes /\ pub \in Nat /\ priv \in Nat /\ keyfile.key.scheme \in AllSchemes
      <3>1. NoPublic \in Nat /\ "SR25519" \in AllSchemes /\ Garbage \in Nat
        BY <1>0 DEF NoPublic, AllSchemes, Garbage
      <3>2. /\ keyfile.key.type \in AllSchemes /\ keyfile.key.scheme \in AllSchemes
            /\ keyfile.key.pub \in Nat /\ keyfile.key.priv \in Nat
        BY <2>3 DEF KeyShape
      <3> QED BY <3>1, <3>2 DEF Decrypt
    <2>5. priv \in {pub, Garbage} \/ pub = NoPublic
      BY DEF SigningInv, Halves, Decrypt
    <2> HIDE DEF type, pub, priv
    <2>6. keypair' \in KeyShape /\ Halves(keypair')
      BY <2>2, <2>4, <2>5 DEF KeyShape, Halves
    <2> QED BY <2>2, <2>6 DEF SigningInv, Halves
  <1>6. CASE EndProcess
    <2>1. keypair' = NoKey /\ saving' = "" /\ UNCHANGED <<born, keyfile>>
      BY <1>6 DEF EndProcess
    <2> QED BY <2>1, NoKeyShape DEF SigningInv, Halves
  <1>7. CASE NewSigner \/ (\E batch \in SUBSET Payloads : SignBatch(batch))
             \/ (\E p \in Payloads : SignTransaction(p) \/ CreateVote(p))
    <2>1. UNCHANGED <<keypair, born, keyfile, saving>>
      BY <1>7 DEF NewSigner, SignBatch, SignTransaction, CreateVote
    <2> QED BY <2>1 DEF SigningInv, Halves
  <1> QED BY <1>1, <1>2, <1>3, <1>4, <1>5, <1>6, <1>7 DEF SigningNext

LEMMA SignaturesHonest == SigningInv => KeyHalvesBelong /\ SignaturesGenuine
  <1> SUFFICES ASSUME SigningInv PROVE KeyHalvesBelong /\ SignaturesGenuine
    OBVIOUS
  <1>1. KeyHalvesBelong
    BY DEF SigningInv, Halves, KeyHalvesBelong
  <1>2. ASSUME NEW p \in Payloads, NEW s \in made, Verifies(p, s)
        PROVE  s.by = signer.key.pub /\ s.about \in {p, signer.last}
    BY <1>2 DEF Verifies
  <1>3. ASSUME NEW p \in Payloads, signer.last = p, signer.key.scheme = "BIP340",
               signer.key.priv = signer.key.pub
        PROVE  Verifies(p, Signature("BIP340", signer.key, p))
    <2> DEFINE s == Signature("BIP340", signer.key, p)
    <2>1. s.alg = "BIP340" /\ s.scheme = "BIP340" /\ s.by = signer.key.pub /\ s.about = p
      BY <1>3 DEF Signature
    <2>2. PublicBytes(signer.key.scheme) = 32
      BY <1>3 DEF PublicBytes
    <2> HIDE DEF s
    <2>3. Verifies(p, s)
      BY <1>3, <2>1, <2>2 DEF Verifies
    <2> QED BY <2>3 DEF s
  <1>4. ASSUME NEW p \in Payloads, NEW s \in made, VerifiesVote(keypair, p, s)
        PROVE  s.by = keypair.pub /\ s.about = p
    BY <1>4 DEF VerifiesVote
  <1> QED BY <1>1, <1>2, <1>3, <1>4 DEF SignaturesGenuine

-----------------------------------------------------------------------------
(* Base64. *)

Byte == 0..255

LEMMA CharOfFacts ==
    /\ \A v \in 0..63 : CharOf(v) \in Nat /\ CharOf(v) # Padding /\ CharOf(v) \in 43..122
    /\ \A v \in 0..63 : CharOf(v) % 64 # v
    /\ \A v, w \in 0..63 : CharOf(v) = CharOf(w) => v = w
  BY DEF CharOf, Padding

LEMMA TableInverts == \A v \in 0..63 : Table[CharOf(v)] = v
  <1> SUFFICES ASSUME NEW v \in 0..63 PROVE Table[CharOf(v)] = v
    OBVIOUS
  <1>1. Table[CharOf(v)] = CHOOSE w \in 0..63 : CharOf(w) = CharOf(v)
    BY DEF Table
  <1> QED BY <1>1, CharOfFacts

LEMMA GroupInverts ==
    ASSUME NEW x \in Byte, NEW y \in Byte, NEW z \in Byte
    PROVE  /\ \A j \in 1..4 : Sextets(<<x, y, z>>)[j] \in 0..63
           /\ Sextets(<<x, y, z>>)[1] = x \div 4
           /\ \A v : (\A j \in 1..4 : v[j] = Sextets(<<x, y, z>>)[j]) => Octets(v) = <<x, y, z>>
  <1> DEFINE a == x \div 4
             b == (x % 4) * 16 + y \div 16
             c == (y % 16) * 4 + z \div 64
             d == z % 64
  <1>1. Sextets(<<x, y, z>>) = <<a, b, c, d>>
    BY DEF Sextets
  <1>2. a \in 0..63 /\ b \in 0..63 /\ c \in 0..63 /\ d \in 0..63
    BY DEF Byte
  <1>3. /\ a * 4 + b \div 16 = x
        /\ (b % 16) * 16 + c \div 4 = y
        /\ (c % 4) * 64 + d = z
    <2>1. /\ b \div 16 = x % 4 /\ b % 16 = y \div 16
      BY DEF Byte
    <2>2. c \div 4 = y % 16 /\ c % 4 = z \div 64
      BY DEF Byte
    <2> QED BY <2>1, <2>2 DEF Byte
  <1> HIDE DEF a, b, c, d
  <1>4. ASSUME NEW v, \A j \in 1..4 : v[j] = <<a, b, c, d>>[j]
        PROVE  Octets(v) = <<x, y, z>>
    <2>1. v[1] = a /\ v[2] = b /\ v[3] = c /\ v[4] = d
      BY <1>4
    <2> QED BY <1>3, <2>1 DEF Octets
  <1> QED BY <1>1, <1>2, <1>4 DEF a

(* What base64_encode() writes: position 4 g + j holds the j-th group of   *)
(* bytes 3 g + 1 to 3 g + 3, or padding.                                   *)
ByteAt(b, k) == IF k > Len(b) THEN 0 ELSE b[k]
GroupAt(b, g) == <<ByteAt(b, 3 * g + 1), ByteAt(b, 3 * g + 2), ByteAt(b, 3 * g + 3)>>

LEMMA EncodedShape ==
    ASSUME NEW b \in Seq(Byte)
    PROVE  /\ Len(base64_encode(b)) = 4 * ((Len(b) + 2) \div 3)
           /\ Len(base64_encode(b)) \in Nat
           /\ \A g \in Nat, j \in 1..4 : 4 * g + j <= 4 * ((Len(b) + 2) \div 3) =>
                 base64_encode(b)[4 * g + j] =
                    IF 3 * g + j - 1 > Len(b) THEN Padding ELSE CharOf(Sextets(GroupAt(b, g))[j])
  <1> DEFINE n == 4 * ((Len(b) + 2) \div 3)
             e(k) == LET g == (k - 1) \div 4
                         j == ((k - 1) % 4) + 1
                     IN  IF 3 * g + j - 1 > Len(b) THEN Padding ELSE CharOf(Sextets(GroupAt(b, g))[j])
  <1>1. Len(b) \in Nat
    OBVIOUS
  <1>2. n \in Nat
    BY <1>1
  <1>3. base64_encode(b) = [k \in 1..n |-> e(k)]
    BY Zenon DEF base64_encode, GroupAt, ByteAt
  <1> HIDE DEF n
  <1>4. Len(base64_encode(b)) = n
    BY <1>2, <1>3
  <1>5. ASSUME NEW g \in Nat, NEW j \in 1..4, 4 * g + j <= n
        PROVE  base64_encode(b)[4 * g + j] =
                    IF 3 * g + j - 1 > Len(b) THEN Padding ELSE CharOf(Sextets(GroupAt(b, g))[j])
    <2>1. (4 * g + j - 1) \div 4 = g /\ ((4 * g + j - 1) % 4) + 1 = j /\ 4 * g + j \in 1..n
      BY <1>2, <1>5
    <2>2. base64_encode(b)[4 * g + j] = e(4 * g + j)
      BY <1>3, <2>1
    <2> QED BY <2>1, <2>2
  <1> QED BY <1>2, <1>4, <1>5 DEF n

(* The full groups of a text, and the rest of rest characters after them.  *)
FullGroups(text, full) ==
    [k \in 1..(3 * full) |->
        Octets([j \in 1..4 |-> Table[text[4 * ((k - 1) \div 3) + j]]])[((k - 1) % 3) + 1]]
RestOf(text, full, rest) ==
    [k \in 1..(IF rest = 0 THEN 0 ELSE rest - 1) |->
        (4 * text[4 * full + k] + ((text[4 * full + (k + 1)] \div 16) % 4)) % 256]

(* base64_decode() of a text whose paddings are all at its end.            *)
LEMMA DecodedShape ==
    ASSUME NEW text, NEW len \in Nat, Len(text) = len, NEW n \in Nat, n <= len,
           \A k \in 1..len : text[k] = Padding <=> k > n
    PROVE  base64_decode(text) = FullGroups(text, n \div 4) \o RestOf(text, n \div 4, n % 4)
  <1> DEFINE ends == {k \in 1..Len(text) : text[k] = Padding}
             first == CHOOSE k \in ends : \A e \in ends : k <= e
             end == IF ends = {} THEN Len(text) ELSE first - 1
  <1>1. end = n
    <2>1. CASE n = len
      BY <2>1
    <2>2. CASE n < len
      <3>1. ends = (n + 1)..len
        BY <2>2
      <3>2. n + 1 \in ends /\ \A e \in ends : n + 1 <= e
        BY <2>2, <3>1
      <3>3. \A k \in ends : (\A e \in ends : k <= e) => k = n + 1
        BY <3>1, <3>2
      <3> HIDE DEF ends
      <3>4. first = n + 1
        BY <3>2, <3>3
      <3>5. ends # {}
        BY <3>2
      <3> HIDE DEF first
      <3> QED BY <3>4, <3>5
    <2> QED BY <2>1, <2>2
  <1>2. base64_decode(text) = FullGroups(text, end \div 4) \o RestOf(text, end \div 4, end % 4)
    BY Zenon DEF base64_decode, FullGroups, RestOf
  <1> HIDE DEF end
  <1> QED BY <1>1, <1>2, Zenon

(* Base64 brings back what came in threes.  Of another length, the first   *)
(* byte of the group that is not full is made of a character code where    *)
(* the value belongs, and no character has its own value's last six bits.  *)
LEMMA RoundTrip ==
    ASSUME NEW b \in Seq(Byte)
    PROVE  base64_decode(base64_encode(b)) = b <=> Len(b) % 3 = 0
  <1> DEFINE n == Len(b)
             m == n \div 3
             r == n % 3
             t == base64_encode(b)
             len == 4 * ((n + 2) \div 3)
             N == IF r = 0 THEN 4 * m ELSE 4 * m + r + 1
  <1>0. n \in Nat /\ m \in Nat /\ r \in 0..2 /\ n = 3 * m + r
    OBVIOUS
  <1>1. /\ len \in Nat /\ N \in Nat /\ N <= len
        /\ r = 0 => len = 4 * m
        /\ r # 0 => len = 4 * m + 4
    BY <1>0
  <1>2. Len(t) = len
    BY EncodedShape
  <1>3. ASSUME NEW g \in Nat
        PROVE  /\ \A j \in 1..4 : Sextets(GroupAt(b, g))[j] \in 0..63
               /\ Sextets(GroupAt(b, g))[1] = ByteAt(b, 3 * g + 1) \div 4
               /\ \A v : (\A j \in 1..4 : v[j] = Sextets(GroupAt(b, g))[j]) => Octets(v) = GroupAt(b, g)
    <2>1. \A k \in Nat \ {0} : ByteAt(b, k) \in Byte
      <3> SUFFICES ASSUME NEW k \in Nat \ {0} PROVE ByteAt(b, k) \in Byte
        OBVIOUS
      <3>1. 0 \in Byte
        BY DEF Byte
      <3>2. k <= n => b[k] \in Byte
        BY ElementOfSeq
      <3> QED BY <3>1, <3>2 DEF ByteAt
    <2>2. ByteAt(b, 3 * g + 1) \in Byte /\ ByteAt(b, 3 * g + 2) \in Byte /\ ByteAt(b, 3 * g + 3) \in Byte
      BY <2>1
    <2> QED BY <2>2, GroupInverts DEF GroupAt
  <1>4. ASSUME NEW g \in Nat, NEW j \in 1..4, 4 * g + j <= len
        PROVE  t[4 * g + j] = IF 3 * g + j - 1 > n THEN Padding ELSE CharOf(Sextets(GroupAt(b, g))[j])
    BY <1>4, EncodedShape
  <1> HIDE DEF t
  <1>5. ASSUME NEW k \in 1..len PROVE t[k] = Padding <=> k > N
    <2> DEFINE g == (k - 1) \div 4
               j == ((k - 1) % 4) + 1
    <2>1. g \in Nat /\ j \in 1..4 /\ k = 4 * g + j
      BY <1>1
    <2>2. 3 * g + j - 1 > n <=> k > N
      <3> HIDE DEF g, j
      <3>1. CASE r = 0
        BY <1>0, <1>1, <2>1, <3>1
      <3>2. CASE r # 0
        BY <1>0, <1>1, <2>1, <3>2
      <3> QED BY <3>1, <3>2
    <2> HIDE DEF g, j, n, N, len
    <2>5. 4 * g + j <= len
      BY <1>1, <2>1
    <2>3. t[k] = IF 3 * g + j - 1 > n THEN Padding ELSE CharOf(Sextets(GroupAt(b, g))[j])
      BY <1>4, <2>1, <2>5
    <2>4. CharOf(Sextets(GroupAt(b, g))[j]) # Padding
      BY <1>3, <2>1, CharOfFacts
    <2> QED BY <2>2, <2>3, <2>4
  <1> DEFINE full == N \div 4
             rest == N % 4
             head == FullGroups(t, full)
             tail == RestOf(t, full, rest)
  <1>6. base64_decode(t) = head \o tail
    <2> HIDE DEF n, N, len, t
    <2>1. \A k \in 1..len : t[k] = Padding <=> k > N
      BY <1>5
    <2>2. len \in Nat /\ N \in Nat /\ N <= len
      BY <1>1
    <2> QED BY <1>2, <2>1, <2>2, DecodedShape
  <1>7. full = m /\ (r = 0 => rest = 0) /\ (r # 0 => rest = r + 1)
    <2> HIDE DEF m, r, n
    <2>1. CASE r = 0
      BY <1>0, <2>1
    <2>2. CASE r = 1
      BY <1>0, <2>2
    <2>3. CASE r = 2
      BY <1>0, <2>3
    <2> QED BY <1>0, <2>1, <2>2, <2>3
  <1>8. CASE r = 0
    <2>1. ASSUME NEW k \in 1..n
          PROVE  Octets([j \in 1..4 |-> Table[t[4 * ((k - 1) \div 3) + j]]])[((k - 1) % 3) + 1] = b[k]
      <3> DEFINE g == (k - 1) \div 3
                 i == ((k - 1) % 3) + 1
                 v == [j \in 1..4 |-> Table[t[4 * g + j]]]
      <3>1. g \in Nat /\ g < m /\ i \in 1..3 /\ k = 3 * g + i
        BY <1>0, <1>8
      <3> HIDE DEF g, i, n, m
      <3>2. ASSUME NEW j \in 1..4 PROVE v[j] = Sextets(GroupAt(b, g))[j]
        <4>1. 4 * g + j <= len /\ ~ (3 * g + j - 1 > n)
          BY <1>0, <1>1, <1>8, <3>1
        <4>2. t[4 * g + j] = CharOf(Sextets(GroupAt(b, g))[j])
          BY <1>4, <3>1, <4>1
        <4> QED BY <1>3, <3>1, <4>2, TableInverts, ZenonT(60)
      <3> HIDE DEF v
      <3>3. Octets(v) = GroupAt(b, g)
        BY <1>3, <3>1, <3>2
      <3>4. GroupAt(b, g)[i] = ByteAt(b, 3 * g + i)
        BY <3>1 DEF GroupAt
      <3>5. ByteAt(b, k) = b[k]
        BY <1>0 DEF ByteAt, n
      <3> QED BY <3>1, <3>3, <3>4, <3>5 DEF v, g, i
    <2>2. head = [k \in 1..n |-> b[k]]
      <3>1. 3 * full = n
        BY <1>0, <1>7, <1>8
      <3> HIDE DEF n, full
      <3> QED BY <2>1, <3>1, Zenon DEF FullGroups
    <2>3. [k \in 1..n |-> b[k]] = b
      OBVIOUS
    <2>4. Len(tail) = 0 /\ tail \in Seq(Byte)
      BY <1>7, <1>8 DEF RestOf
    <2> HIDE DEF tail, head, t
    <2>5. head = b /\ tail = << >>
      BY <2>2, <2>3, <2>4, EmptySeq
    <2>6. head \o tail = b
      BY <2>5, ConcatEmptySeq
    <2> QED BY <1>6, <1>8, <2>6 DEF t
  <1>9. CASE r # 0
    <2> DEFINE v == ByteAt(b, 3 * m + 1) \div 4
               w == t[4 * m + 2]
    <2>1. b[3 * m + 1] \in Byte /\ ByteAt(b, 3 * m + 1) = b[3 * m + 1]
      BY <1>0, <1>9, ElementOfSeq DEF ByteAt
    <2>2. v \in 0..63
      <3>1. \A x \in Byte : x \div 4 \in 0..63
        BY DEF Byte
      <3>2. ByteAt(b, 3 * m + 1) \in Byte
        BY <2>1
      <3> HIDE DEF m
      <3> QED BY <3>1, <3>2
    <2>3. t[4 * m + 1] = CharOf(v)
      <3>1. 4 * m + 1 <= len /\ ~ (3 * m + 1 - 1 > n)
        BY <1>0, <1>1, <1>9
      <3> HIDE DEF n, m, len, v
      <3>2. t[4 * m + 1] = CharOf(Sextets(GroupAt(b, m))[1])
        BY <1>0, <1>4, <3>1
      <3> QED BY <1>0, <1>3, <3>2 DEF v
    <2>4. w \in Nat
      <3>1. 4 * m + 2 <= len /\ ~ (3 * m + 2 - 1 > n)
        BY <1>0, <1>1, <1>9
      <3> HIDE DEF n, m, len
      <3>2. t[4 * m + 2] = CharOf(Sextets(GroupAt(b, m))[2])
        BY <1>0, <1>4, <3>1
      <3>3. Sextets(GroupAt(b, m))[2] \in 0..63
        BY <1>0, <1>3
      <3> QED BY <3>2, <3>3, CharOfFacts
    <2>5. Len(head) = 3 * m /\ Len(tail) = r
      BY <1>0, <1>7, <1>9 DEF FullGroups, RestOf
    <2>6. tail[1] = (4 * CharOf(v) + ((w \div 16) % 4)) % 256
      <3>1. 1 \in 1..(IF rest = 0 THEN 0 ELSE rest - 1)
        BY <1>0, <1>7, <1>9
      <3>2. tail[1] = (4 * t[4 * m + 1] + ((t[4 * m + (1 + 1)] \div 16) % 4)) % 256
        BY <1>7, <3>1 DEF RestOf
      <3> HIDE DEF tail
      <3> QED BY <2>3, <3>2
    <2> HIDE DEF w, v
    <2>7. tail[1] \div 4 = CharOf(v) % 64
      <3>1. CharOf(v) \in Nat
        BY <2>2, CharOfFacts
      <3>2. ASSUME NEW c \in Nat, NEW x \in Nat PROVE ((4 * c + (x % 4)) % 256) \div 4 = c % 64
        <4> DEFINE q == c \div 64
                   y == c % 64
                   u == x % 4
        <4>1. q \in Nat /\ y \in 0..63 /\ u \in 0..3 /\ c = 64 * q + y
          OBVIOUS
        <4> HIDE DEF q, y, u
        <4>2. 4 * c + u = 256 * q + (4 * y + u) /\ 4 * y + u \in 0..255
          BY <4>1
        <4>3. (4 * c + u) % 256 = 4 * y + u
          BY <4>1, <4>2
        <4>4. (4 * y + u) \div 4 = y
          BY <4>1
        <4> QED BY <4>3, <4>4 DEF y, u
      <3>3. w \div 16 \in Nat
        BY <2>4
      <3> HIDE DEF tail
      <3>4. ((4 * CharOf(v) + ((w \div 16) % 4)) % 256) \div 4 = CharOf(v) % 64
        BY ONLY <3>1, <3>2, <3>3, ZenonT(60)
      <3> QED BY ONLY <2>6, <3>4
    <2>8. (head \o tail)[3 * m + 1] = tail[1]
      <3>1. \A s1, s2 : Len(s1) = 3 * m /\ Len(s2) = r => (s1 \o s2)[3 * m + 1] = s2[1]
        BY <1>0, <1>9
      <3> HIDE DEF head, tail
      <3> QED BY <2>5, <3>1
    <2> HIDE DEF head, tail
    <2>9. b[3 * m + 1] \div 4 = v
      BY <2>1 DEF v
    <2> QED BY <1>6, <1>9, <2>2, <2>7, <2>8, <2>9, CharOfFacts DEF t
  <1> QED BY <1>8, <1>9

-----------------------------------------------------------------------------
(* WalletFacade: kept is what serialize_encrypted() made; a facade has the *)
(* keys of its addresses or none, and none once it is cleared.             *)
FacadeKeysInv ==
    /\ facade.keys \in {0, facade.addr}
    /\ facade.cleared => facade.keys = 0 /\ ~facade.running
    /\ kept # NothingKept => kept.bytes \in Seq(Byte) /\ kept.text = base64_encode(kept.bytes)
    /\ signature.key = signature.addr
    /\ opened.ok => opened.authentic
    /\ opened.authentic => (opened.ok <=> opened.size % 3 = 0)

FacadeShape == [keys : Nat, addr : Nat, official : BOOLEAN, cleared : BOOLEAN, running : BOOLEAN,
                services : SUBSET {"submission", "proving", "pending"}, strategy : Strategies]
FacadeInv == facade \in FacadeShape /\ kept.addr \in Nat /\ kept.official \in BOOLEAN /\ FacadeKeysInv

LEMMA NoFacadeShape ==
    NoFacade \in FacadeShape /\ NoFacade.keys = 0 /\ NoFacade.addr = 0 /\ ~NoFacade.cleared /\ ~NoFacade.running
  BY DEF NoFacade, FacadeShape, Strategies

LEMMA FacadeInitial == FacadeInit => FacadeInv
  <1> SUFFICES ASSUME FacadeInit PROVE FacadeInv
    OBVIOUS
  <1>1. facade = NoFacade /\ kept = NothingKept /\ opened = NotOpened /\ signature = NotSigned
    BY DEF FacadeInit
  <1>2. kept.addr = 0 /\ kept.official = FALSE /\ signature.key = signature.addr
    BY <1>1 DEF NothingKept, NotSigned
  <1>3. ~opened.ok /\ ~opened.authentic
    BY <1>1 DEF NotOpened
  <1>5. kept.addr \in Nat /\ kept.official \in BOOLEAN
    <2>1. kept.official \in BOOLEAN
      BY <1>2, Zenon
    <2> QED BY <1>2, <2>1
  <1>4. FacadeKeysInv
    BY <1>1, <1>2, <1>3, NoFacadeShape DEF FacadeKeysInv
  <1> QED BY <1>1, <1>4, <1>5, NoFacadeShape DEF FacadeInv

LEMMA BecomesKeeps ==
    ASSUME FacadeInv, NEW f \in FacadeShape, Becomes(f), f.keys \in {0, f.addr},
           f.cleared => f.keys = 0 /\ ~f.running
    PROVE  FacadeInv'
  <1>1. facade' = f /\ opened' = NotOpened /\ signature' = NotSigned /\ UNCHANGED kept
    BY DEF Becomes
  <1>2. ~opened'.ok /\ ~opened'.authentic
    BY <1>1 DEF NotOpened
  <1>3. signature'.key = signature'.addr
    BY <1>1 DEF NotSigned
  <1> QED BY <1>1, <1>2, <1>3 DEF FacadeInv, FacadeKeysInv

LEMMA FacadeStep == FacadeInv /\ FacadeNext => FacadeInv'
  <1> SUFFICES ASSUME FacadeInv, FacadeNext PROVE FacadeInv'
    OBVIOUS
  <1>0. facade \in FacadeShape /\ FacadeSeeds \subseteq Nat \ {0} /\ StateBytes \subseteq Seq(Byte)
    BY WalletFacadeAssumption DEF FacadeInv, Byte
  <1>a. /\ facade.keys \in {0, facade.addr} /\ facade.cleared \in BOOLEAN
        /\ facade.cleared => facade.keys = 0 /\ ~facade.running
    BY DEF FacadeInv, FacadeKeysInv, FacadeShape
  <1>b. ASSUME NEW seed \in FacadeSeeds
        PROVE  FromWallet(seed) \in FacadeShape /\ FromWallet(seed).keys = seed /\ FromWallet(seed).addr = seed
               /\ FromWallet(seed).cleared = FALSE
    BY <1>0, NoFacadeShape DEF FromWallet, FacadeShape
  <1>1. CASE \E seed \in FacadeSeeds : MakeLocal(seed)
    <2>1. PICK seed \in FacadeSeeds : MakeLocal(seed)
      BY <1>1
    <2> QED BY <1>b, <2>1, BecomesKeeps DEF MakeLocal
  <1>2. CASE \E seed \in FacadeSeeds, outcome \in LibraryAnswers : FromMnemonic(seed, outcome)
    <2>1. PICK seed \in FacadeSeeds, outcome \in LibraryAnswers : FromMnemonic(seed, outcome)
      BY <1>2
    <2> DEFINE f == [FromWallet(seed) EXCEPT !.official = TRUE]
    <2>2. f \in FacadeShape /\ f.keys = seed /\ f.addr = seed /\ f.cleared = FALSE
      BY <1>b DEF FacadeShape
    <2>3. Becomes(f)
      BY <2>1 DEF FromMnemonic
    <2> HIDE DEF f
    <2> QED BY <2>2, <2>3, BecomesKeeps
  <1>3. CASE \E seed \in FacadeSeeds, outcome \in LibraryAnswers, required \in BOOLEAN,
                services \in {{}, {"submission", "proving"}} :
                FromMnemonicWithConfig(seed, outcome, required, services)
    <2>1. PICK seed \in FacadeSeeds, outcome \in LibraryAnswers, required \in BOOLEAN,
               services \in {{}, {"submission", "proving"}} :
               FromMnemonicWithConfig(seed, outcome, required, services)
      BY <1>3
    <2> DEFINE official == outcome = "derives"
               all == services \cup {"pending"}
               f == [FromWallet(seed) EXCEPT !.official = official, !.services = all]
    <2>2. official \in BOOLEAN /\ all \in SUBSET {"submission", "proving", "pending"}
      OBVIOUS
    <2>3. Becomes(f)
      BY <2>1 DEF FromMnemonicWithConfig
    <2> HIDE DEF official, all
    <2>4. f \in FacadeShape /\ f.keys = seed /\ f.addr = seed /\ f.cleared = FALSE
      <3> DEFINE r == FromWallet(seed)
                 facadeOf(x) == [r EXCEPT !.official = x, !.services = all]
      <3>1. r \in FacadeShape /\ r.keys = seed /\ r.addr = seed /\ r.cleared = FALSE
        BY <1>b
      <3> HIDE DEF r
      <3>2. ASSUME NEW x \in BOOLEAN
            PROVE  facadeOf(x) \in FacadeShape /\ facadeOf(x).keys = seed /\ facadeOf(x).addr = seed /\ facadeOf(x).cleared = FALSE
        BY <2>2, <3>1 DEF FacadeShape
      <3>3. f = facadeOf(official)
        BY DEF r
      <3> HIDE DEF facadeOf
      <3>4. facadeOf(official) \in FacadeShape /\ facadeOf(official).keys = seed /\ facadeOf(official).addr = seed
            /\ facadeOf(official).cleared = FALSE
        BY <2>2, <3>2, Zenon
      <3> HIDE DEF f
      <3> QED BY <3>3, <3>4
    <2> HIDE DEF f
    <2> QED BY <2>3, <2>4, BecomesKeeps
  <1>4. CASE Start
    <2> DEFINE f == [facade EXCEPT !.running = TRUE]
    <2>1. f \in FacadeShape /\ f.keys = facade.keys /\ f.addr = facade.addr /\ f.cleared = facade.cleared
      BY <1>0 DEF FacadeShape
    <2>2. Becomes(f) /\ ~facade.cleared
      BY <1>4 DEF Start, EnsureNotCleared
    <2> HIDE DEF f
    <2> QED BY <1>a, <2>1, <2>2, BecomesKeeps
  <1>5. CASE Stop
    <2> DEFINE f == [facade EXCEPT !.running = FALSE]
    <2>1. f \in FacadeShape /\ f.keys = facade.keys /\ f.addr = facade.addr /\ f.cleared = facade.cleared
          /\ f.running = FALSE
      BY <1>0 DEF FacadeShape
    <2>2. Becomes(f)
      BY <1>5 DEF Stop
    <2> HIDE DEF f
    <2> QED BY <1>a, <2>1, <2>2, BecomesKeeps
  <1>6. CASE Clear
    <2> DEFINE f == [facade EXCEPT !.keys = 0, !.cleared = TRUE, !.running = FALSE]
    <2>1. f \in FacadeShape /\ f.keys = 0 /\ f.running = FALSE
      BY <1>0 DEF FacadeShape
    <2>2. Becomes(f)
      BY <1>6 DEF Clear
    <2> HIDE DEF f
    <2> QED BY <2>1, <2>2, BecomesKeeps
  <1>7. CASE SignData
    <2>1. /\ signature' = [key |-> facade.keys, addr |-> facade.addr] /\ opened' = NotOpened
          /\ UNCHANGED <<facade, kept>> /\ facade.keys # 0
      BY <1>7 DEF SignData
    <2>2. signature'.key = signature'.addr /\ ~opened'.ok /\ ~opened'.authentic
      BY <1>a, <2>1 DEF NotOpened
    <2> QED BY <2>1, <2>2 DEF FacadeInv, FacadeKeysInv
  <1>8. CASE \E p \in StatePasswords, b \in StateBytes : SerializeEncrypted(p, b)
    <2>1. PICK p \in StatePasswords, b \in StateBytes : SerializeEncrypted(p, b)
      BY <1>8
    <2>2. /\ kept' = [addr |-> facade.addr, official |-> facade.official, password |-> p,
                      bytes |-> b, text |-> base64_encode(b)]
          /\ opened' = NotOpened /\ signature' = NotSigned /\ UNCHANGED facade
      BY <2>1 DEF SerializeEncrypted
    <2>3. /\ kept'.bytes = b /\ kept'.text = base64_encode(b)
          /\ kept'.addr = facade.addr /\ kept'.official = facade.official
      BY <2>2
    <2>4. signature'.key = signature'.addr /\ ~opened'.ok /\ ~opened'.authentic
      BY <2>2 DEF NotOpened, NotSigned
    <2>5. b \in Seq(Byte) /\ facade.addr \in Nat /\ facade.official \in BOOLEAN
      BY <1>0, <2>1 DEF FacadeShape
    <2>6. UNCHANGED facade
      BY <2>2
    <2> QED BY ONLY FacadeInv, <2>3, <2>4, <2>5, <2>6 DEF FacadeInv, FacadeKeysInv
  <1>9. CASE \E p \in StatePasswords : RestoreFromEncrypted(p)
    <2>1. PICK p \in StatePasswords : RestoreFromEncrypted(p)
      BY <1>9
    <2> DEFINE ok == Decrypts(base64_decode(kept.text), p)
               auth == p = kept.password
               size == Len(kept.bytes)
    <2>2. ok <=> auth /\ size % 3 = 0
      <3>1. kept.bytes \in Seq(Byte) /\ kept.text = base64_encode(kept.bytes)
        BY <2>1 DEF RestoreFromEncrypted, FacadeInv, FacadeKeysInv
      <3>2. base64_decode(kept.text) = kept.bytes <=> size % 3 = 0
        BY <3>1, RoundTrip
      <3> QED BY <3>2 DEF Decrypts
    <2>3. /\ opened' = [ok |-> ok, authentic |-> auth, size |-> size]
          /\ facade' = IF ok THEN Restored(kept) ELSE facade
          /\ signature' = NotSigned /\ UNCHANGED kept
      BY <2>1 DEF RestoreFromEncrypted
    <2> HIDE DEF ok, auth, size
    <2>4. /\ (opened'.ok <=> ok) /\ (opened'.authentic <=> auth) /\ opened'.size = size
      BY <2>3
    <2>5. Restored(kept) \in FacadeShape /\ Restored(kept).keys = 0 /\ Restored(kept).running = FALSE
      BY NoFacadeShape DEF Restored, FacadeShape, FacadeInv
    <2>6. facade' \in FacadeShape /\ facade'.keys \in {0, facade'.addr}
          /\ (facade'.cleared => facade'.keys = 0 /\ ~facade'.running)
      BY <1>0, <1>a, <2>3, <2>5
    <2>7. signature'.key = signature'.addr /\ UNCHANGED kept
      BY <2>3 DEF NotSigned
    <2> QED BY ONLY FacadeInv, <2>2, <2>4, <2>6, <2>7 DEF FacadeInv, FacadeKeysInv
  <1> QED BY <1>1, <1>2, <1>3, <1>4, <1>5, <1>6, <1>7, <1>8, <1>9 DEF FacadeNext

LEMMA ChoosingKeepsKeys == FacadeInv /\ ChoosingNext => FacadeInv'
  <1> SUFFICES ASSUME FacadeInv, ChoosingNext PROVE FacadeInv'
    OBVIOUS
  <1>1. CASE \E s \in Strategies : SetCoinSelectionStrategy(s)
    <2>1. PICK s \in Strategies : SetCoinSelectionStrategy(s)
      BY <1>1
    <2> DEFINE f == [facade EXCEPT !.strategy = s]
    <2>2. f \in FacadeShape /\ f.keys = facade.keys /\ f.addr = facade.addr /\ f.cleared = facade.cleared
          /\ f.running = facade.running
      BY DEF FacadeInv, FacadeShape
    <2>3. Becomes(f)
      BY <2>1 DEF SetCoinSelectionStrategy
    <2> HIDE DEF f
    <2> QED BY <2>2, <2>3, BecomesKeeps DEF FacadeInv, FacadeKeysInv
  <1>2. CASE \E token \in {Purse[c].token : c \in 1..Len(Purse)}, target \in Targets : Choose(token, target)
    <2>1. UNCHANGED <<facade, kept, opened, signature>>
      BY <1>2 DEF Choose
    <2> QED BY <2>1 DEF FacadeInv, FacadeKeysInv
  <1> QED BY <1>1, <1>2 DEF ChoosingNext

LEMMA FacadeKeysHonest == FacadeInv => FacadeKeysBelong
  BY DEF FacadeInv, FacadeKeysInv, FacadeKeysBelong
-----------------------------------------------------------------------------
(***************************************************************************)
(* Scans of the indexer and answers from the caches.                       *)
(***************************************************************************)

(* A scan that began when the coins in before were unspent: whatever is    *)
(* unspent now below its tip was so then, and what it passed without a     *)
(* hole it found.                                                          *)
ScanHolds(s) ==
    /\ s.tip <= height /\ s.h # 0
    /\ s.found \subseteq s.before
    /\ \A c \in 1..s.tip : c \notin spent => c \in s.before
    /\ ~s.holes => \A c \in 1..s.tip : c < s.h /\ c \notin spent => c \in s.found

(* Entries and answers against the clock. *)
EntryTimes == [held : BOOLEAN, coins : SUBSET Nat, at : Nat, scannedAt : Nat, lag : Nat]
AskerShape == [pc : {"idle", "utxos", "scan", "store", "answered"}, cached : BOOLEAN, bare : BOOLEAN,
               h : Nat, tip : Nat, found : SUBSET Nat, before : SUBSET Nat, holes : BOOLEAN,
               coins : SUBSET Nat, scannedAt : Nat, readAt : Nat, age : Int]

AskerHolds(s) ==
    /\ s.pc = "utxos" => s.found = {}
    /\ s.pc = "scan" => ScanHolds(s)
    /\ s.pc = "store" => s.readAt <= clock /\ s.readAt - s.scannedAt <= CacheTTL - 1
    /\ s.age <= 2 * (CacheTTL - 1)

CachesHold ==
    /\ utxoCache \in EntryTimes /\ walletCache \in EntryTimes
    /\ utxoCache.scannedAt = utxoCache.at /\ utxoCache.at <= clock
    /\ walletCache.at <= clock
    /\ walletCache.at - walletCache.lag - walletCache.scannedAt <= CacheTTL - 1

QueriesInv ==
    /\ height \in Nat /\ clock \in Nat /\ spent \subseteq Nat
    /\ asker \in [Askers -> AskerShape]
    /\ CachesHold
    /\ \A a \in Askers : AskerHolds(asker[a])

(* A step of one thread, which may write the caches. *)
LEMMA OneAskerMoves ==
    ASSUME QueriesInv, NEW a \in Askers, NEW s \in AskerShape,
           asker' = [asker EXCEPT ![a] = s],
           UNCHANGED <<indexerVars, clock>>,
           AskerHolds(s), CachesHold'
    PROVE  QueriesInv'
  <1>1. asker' \in [Askers -> AskerShape]
    BY DEF QueriesInv
  <1>2. ASSUME NEW b \in Askers
        PROVE  AskerHolds(asker'[b])
    <2>1. CASE b = a
      <3>1. asker'[b] = s
        BY <2>1 DEF QueriesInv
      <3> QED BY <3>1
    <2>2. CASE b # a
      <3>1. asker'[b] = asker[b]
        BY <2>2 DEF QueriesInv
      <3> QED BY <3>1 DEF QueriesInv
    <2> QED BY <2>1, <2>2
  <1>3. \A b \in Askers : AskerHolds(asker[b])'
    BY <1>2 DEF AskerHolds, ScanHolds, indexerVars
  <1> QED BY <1>1, <1>3 DEF QueriesInv, indexerVars

LEMMA CachesStay == CachesHold /\ UNCHANGED <<clock, utxoCache, walletCache>> => CachesHold'
  BY DEF CachesHold

LEMMA QueriesInitial == QueriesInit => QueriesInv
  <1> SUFFICES ASSUME QueriesInit PROVE QueriesInv
    OBVIOUS
  <1>1. CacheTTL \in Nat \ {0}
    BY IndexerQueriesAssumption
  <1>2. NoEntry \in EntryTimes /\ AskerIdle \in AskerShape
    BY DEF NoEntry, EntryTimes, AskerIdle, AskerShape
  <1>3. \A a \in Askers : asker[a] = AskerIdle
    BY DEF QueriesInit
  <1>4. AskerIdle.pc = "idle" /\ AskerIdle.age = 0 /\ NoEntry.at = 0 /\ NoEntry.lag = 0 /\ NoEntry.scannedAt = 0
    BY DEF AskerIdle, NoEntry
  <1> QED BY <1>1, <1>2, <1>3, <1>4 DEF QueriesInit, QueriesInv, CachesHold, AskerHolds

LEMMA AnsweredShape ==
    ASSUME NEW coins \in SUBSET Nat, NEW age \in Int
    PROVE  /\ Answered(coins, age) \in AskerShape
           /\ Answered(coins, age).pc = "answered" /\ Answered(coins, age).age = age
  BY DEF Answered, AskerIdle, AskerShape

LEMMA IdleHolds == AskerIdle \in AskerShape /\ AskerHolds(AskerIdle)
  <1>1. CacheTTL \in Nat \ {0}
    BY IndexerQueriesAssumption
  <1> QED BY <1>1 DEF AskerIdle, AskerShape, AskerHolds

LEMMA CacheStep == QueriesInv /\ CacheNext => QueriesInv'
  <1> SUFFICES ASSUME QueriesInv, CacheNext PROVE QueriesInv'
    OBVIOUS
  <1>0. /\ CacheTTL \in Nat \ {0} /\ height \in Nat /\ clock \in Nat /\ spent \subseteq Nat
        /\ utxoCache \in EntryTimes /\ walletCache \in EntryTimes
        /\ asker \in [Askers -> AskerShape]
        /\ CachesHold
    BY IndexerQueriesAssumption DEF QueriesInv, CachesHold
  <1>t. /\ utxoCache.coins \in SUBSET Nat /\ utxoCache.at \in Nat /\ utxoCache.scannedAt \in Nat
        /\ walletCache.coins \in SUBSET Nat /\ walletCache.at \in Nat
        /\ walletCache.scannedAt \in Nat /\ walletCache.lag \in Nat
    BY <1>0 DEF EntryTimes
  <1>a. \A a \in Askers :
          /\ asker[a] \in AskerShape
          /\ asker[a].h \in Nat /\ asker[a].tip \in Nat /\ asker[a].readAt \in Nat /\ asker[a].scannedAt \in Nat
          /\ asker[a].found \in SUBSET Nat /\ asker[a].coins \in SUBSET Nat /\ asker[a].age \in Int
          /\ asker[a].cached \in BOOLEAN /\ asker[a].holes \in BOOLEAN
    BY <1>0 DEF AskerShape
  <1>b. \A a \in Askers : AskerHolds(asker[a]) /\ asker[a].age <= 2 * (CacheTTL - 1)
    BY DEF QueriesInv, AskerHolds
  <1>1. CASE IndexBlock
    <2>1. /\ height' = height + 1 /\ spent \subseteq spent' /\ spent' \subseteq Nat
          /\ UNCHANGED <<clock, utxoCache, walletCache, asker, reply>>
      BY <1>0, <1>1 DEF IndexBlock, UnspentCoins
    <2>2. ASSUME NEW a \in Askers, asker[a].pc = "scan" PROVE ScanHolds(asker[a])'
      <3>1. ScanHolds(asker[a])
        BY <2>2, <1>b DEF AskerHolds
      <3> QED BY <1>0, <1>a, <2>1, <3>1 DEF ScanHolds
    <2>3. \A a \in Askers : AskerHolds(asker[a])'
      BY <1>b, <2>1, <2>2 DEF AskerHolds
    <2> QED BY <1>0, <2>1, <2>3, CachesStay DEF QueriesInv
  <1>2. CASE Passes
    <2>1. /\ clock' = clock + 1
          /\ UNCHANGED <<height, spent, utxoCache, walletCache, asker, reply>>
      BY <1>2 DEF Passes, indexerVars
    <2>2. ASSUME NEW a \in Askers PROVE AskerHolds(asker[a])'
      <3>1. asker[a].pc = "scan" => ScanHolds(asker[a])'
        BY <1>b, <2>1 DEF AskerHolds, ScanHolds
      <3>2. asker[a].readAt <= clock => asker[a].readAt <= clock'
        BY <1>0, <1>a, <2>1
      <3> QED BY <1>b, <2>1, <3>1, <3>2 DEF AskerHolds
    <2>3. clock' \in Nat /\ utxoCache.at <= clock' /\ walletCache.at <= clock'
      BY <1>0, <1>t, <2>1 DEF CachesHold
    <2> QED BY <1>0, <2>1, <2>2, <2>3 DEF QueriesInv, CachesHold
  <1>3. CASE PruneExpiredCache \/ ClearCache
    <2>1. /\ UNCHANGED <<height, spent, clock, asker>>
          /\ utxoCache' \in {utxoCache, NoEntry} /\ walletCache' \in {walletCache, NoEntry}
      BY <1>3 DEF PruneExpiredCache, ClearCache, Pruned, indexerVars
    <2>2. NoEntry \in EntryTimes /\ NoEntry.at = 0 /\ NoEntry.lag = 0 /\ NoEntry.scannedAt = 0
      BY DEF NoEntry, EntryTimes
    <2>3. \A a \in Askers : AskerHolds(asker[a])'
      BY <1>b, <2>1 DEF AskerHolds, ScanHolds
    <2>4. CachesHold'
      BY <1>0, <2>1, <2>2 DEF CachesHold
    <2> QED BY <1>0, <2>1, <2>3, <2>4 DEF QueriesInv
  <1>4. CASE \E a \in Askers, b \in BOOLEAN : QueryWalletState(a, b)
    <2>1. PICK a \in Askers, b \in BOOLEAN : QueryWalletState(a, b)
      BY <1>4
    <2>0. CachesHold' /\ UNCHANGED <<indexerVars, clock>>
      BY <1>0, <2>1, CachesStay DEF QueryWalletState
    <2>2. CASE b /\ is_cache_valid(walletCache)
      <3> DEFINE age == clock - walletCache.scannedAt - walletCache.lag
                 s == Answered(walletCache.coins, age)
      <3>1. age \in Int /\ age <= 2 * (CacheTTL - 1)
        BY <1>0, <1>t, <2>2 DEF CachesHold, is_cache_valid
      <3>3. asker' = [asker EXCEPT ![a] = s]
        BY <2>1, <2>2 DEF QueryWalletState
      <3> HIDE DEF age
      <3>2. s \in AskerShape /\ s.pc = "answered" /\ s.age = age
        BY <1>t, <3>1, AnsweredShape
      <3> HIDE DEF s
      <3>4. AskerHolds(s)
        BY <3>1, <3>2 DEF AskerHolds
      <3> QED BY <2>0, <3>2, <3>3, <3>4, OneAskerMoves
    <2>3. CASE ~ (b /\ is_cache_valid(walletCache))
      <3> DEFINE s == [AskerIdle EXCEPT !.pc = "utxos", !.cached = b]
      <3>1. s \in AskerShape /\ s.pc = "utxos" /\ s.age = AskerIdle.age /\ s.found = AskerIdle.found
        BY <2>1, IdleHolds DEF AskerShape
      <3>3. AskerHolds(s)
        BY <1>0, <3>1 DEF AskerHolds, AskerIdle
      <3>2. asker' = [asker EXCEPT ![a] = s]
        BY <2>1, <2>3 DEF QueryWalletState
      <3> HIDE DEF s
      <3> QED BY <2>0, <3>1, <3>2, <3>3, OneAskerMoves
    <2> QED BY <2>2, <2>3
  <1>5. CASE \E a \in Askers, b \in BOOLEAN : QueryUtxosBare(a, b)
    <2>1. PICK a \in Askers, b \in BOOLEAN : QueryUtxosBare(a, b)
      BY <1>5
    <2>0. CachesHold' /\ UNCHANGED <<indexerVars, clock>>
      BY <1>0, <2>1, CachesStay DEF QueryUtxosBare
    <2> DEFINE s == [AskerIdle EXCEPT !.pc = "utxos", !.cached = b, !.bare = TRUE]
    <2>2. s \in AskerShape /\ s.pc = "utxos" /\ s.age = AskerIdle.age /\ s.found = AskerIdle.found
      BY <2>1, IdleHolds DEF AskerShape
    <2>4. AskerHolds(s)
      BY <1>0, <2>2 DEF AskerHolds, AskerIdle
    <2>3. asker' = [asker EXCEPT ![a] = s]
      BY <2>1 DEF QueryUtxosBare
    <2> HIDE DEF s
    <2> QED BY <2>0, <2>2, <2>3, <2>4, OneAskerMoves
  <1>6. CASE \E a \in Askers, enabled \in BOOLEAN : QueryUtxos(a, enabled)
    <2>1. PICK a \in Askers, enabled \in BOOLEAN : QueryUtxos(a, enabled)
      BY <1>6
    <2>0. CachesHold' /\ UNCHANGED <<indexerVars, clock>>
      BY <1>0, <2>1, CachesStay DEF QueryUtxos
    <2>2. CASE asker[a].cached /\ is_cache_valid(utxoCache)
      <3> DEFINE s == [asker[a] EXCEPT !.pc = "store", !.coins = utxoCache.coins,
                                       !.scannedAt = utxoCache.scannedAt, !.readAt = clock]
      <3>1. s \in AskerShape /\ s.pc = "store" /\ s.readAt = clock /\ s.scannedAt = utxoCache.scannedAt
            /\ s.age = asker[a].age
        BY <1>0, <1>a, <1>t, ZenonT(60) DEF AskerShape
      <3>2. clock - utxoCache.scannedAt <= CacheTTL - 1
        BY <1>0, <1>t, <2>2 DEF CachesHold, is_cache_valid
      <3>3. asker' = [asker EXCEPT ![a] = s]
        BY <2>1, <2>2 DEF QueryUtxos
      <3> HIDE DEF s
      <3>4. AskerHolds(s)
        BY <1>0, <1>b, <3>1, <3>2 DEF AskerHolds
      <3> QED BY <2>0, <3>1, <3>3, <3>4, OneAskerMoves
    <2>3. CASE ~ (asker[a].cached /\ is_cache_valid(utxoCache)) /\ ~enabled
      <3>1. asker' = [asker EXCEPT ![a] = AskerIdle]
        BY <2>1, <2>3 DEF QueryUtxos
      <3> QED BY <2>0, <3>1, IdleHolds, OneAskerMoves
    <2>4. CASE ~ (asker[a].cached /\ is_cache_valid(utxoCache)) /\ enabled
      <3> DEFINE s == [asker[a] EXCEPT !.pc = "scan", !.h = 1, !.tip = height, !.before = UnspentCoins]
      <3>0. UnspentCoins \in SUBSET Nat
        BY <1>0 DEF UnspentCoins
      <3>1. s \in AskerShape /\ s.pc = "scan" /\ s.h = 1 /\ s.tip = height /\ s.before = UnspentCoins
            /\ s.age = asker[a].age /\ s.found = asker[a].found
        BY <1>0, <1>a, <3>0, ZenonT(60) DEF AskerShape
      <3>2. asker' = [asker EXCEPT ![a] = s] /\ asker[a].pc = "utxos"
        BY <2>1, <2>4 DEF QueryUtxos
      <3> HIDE DEF s
      <3>3. asker[a].found = {}
        BY <1>b, <3>2 DEF AskerHolds
      <3>4. ScanHolds(s)
        BY <1>0, <3>1, <3>3 DEF ScanHolds, UnspentCoins
      <3>5. AskerHolds(s)
        BY <1>b, <3>1, <3>4 DEF AskerHolds
      <3> QED BY <2>0, <3>1, <3>2, <3>5, OneAskerMoves
    <2> QED BY <2>2, <2>3, <2>4
  <1>7. CASE \E a \in Askers : TipFails(a)
    <2>1. PICK a \in Askers : TipFails(a)
      BY <1>7
    <2>0. CachesHold' /\ UNCHANGED <<indexerVars, clock>>
      BY <1>0, <2>1, CachesStay DEF TipFails
    <2> DEFINE holes == height > 1
               s == [asker[a] EXCEPT !.pc = "scan", !.h = 1, !.tip = 1, !.before = UnspentCoins, !.holes = holes]
    <2>7. UnspentCoins \in SUBSET Nat
      BY <1>0 DEF UnspentCoins
    <2>2. s \in AskerShape /\ s.pc = "scan" /\ s.h = 1 /\ s.tip = 1 /\ s.before = UnspentCoins
          /\ s.age = asker[a].age /\ s.found = asker[a].found
      <3>1. holes \in BOOLEAN
        OBVIOUS
      <3> HIDE DEF holes
      <3> QED BY <1>0, <1>a, <2>7, <3>1, ZenonT(60) DEF AskerShape
    <2>3. asker' = [asker EXCEPT ![a] = s] /\ asker[a].pc = "utxos" /\ height > 0
      BY <2>1 DEF TipFails
    <2> HIDE DEF s
    <2>4. asker[a].found = {}
      BY <1>b, <2>3 DEF AskerHolds
    <2>5. ScanHolds(s)
      BY <1>0, <2>2, <2>3, <2>4 DEF ScanHolds, UnspentCoins
    <2>6. AskerHolds(s)
      BY <1>b, <2>2, <2>5 DEF AskerHolds
    <2> QED BY <2>0, <2>2, <2>3, <2>6, OneAskerMoves
  <1>8. CASE \E a \in Askers, answer \in {"block", "null", "throws"} : QueryScanBlock(a, answer)
    <2>1. PICK a \in Askers, answer \in {"block", "null", "throws"} : QueryScanBlock(a, answer)
      BY <1>8
    <2>0. CachesHold' /\ UNCHANGED <<indexerVars, clock>>
      BY <1>0, <2>1, CachesStay DEF QueryScanBlock
    <2> DEFINE old == asker[a]
               found == IF answer = "block" THEN old.found \cup ({old.h} \ spent) ELSE old.found
               holes == old.holes \/ answer # "block"
               h == IF answer = "throws" THEN old.tip + 1 ELSE old.h + 1
               s == [old EXCEPT !.found = found, !.holes = holes, !.h = h]
    <2>2. /\ asker' = [asker EXCEPT ![a] = s] /\ old.pc = "scan" /\ old.h <= old.tip
      <3>1. old.pc = "scan" /\ old.h <= old.tip
        BY <2>1 DEF QueryScanBlock
      <3>2. asker' = [asker EXCEPT ![a] = [asker[a] EXCEPT
                   !.found = IF answer = "block" THEN asker[a].found \cup CreatedIn(asker[a].h) ELSE asker[a].found,
                   !.holes = (asker[a].holes \/ answer # "block"),
                   !.h = IF answer = "throws" THEN asker[a].tip + 1 ELSE asker[a].h + 1]]
        BY <2>1 DEF QueryScanBlock
      <3> QED BY <3>1, <3>2 DEF CreatedIn
    <2>3. /\ found \in SUBSET Nat /\ holes \in BOOLEAN /\ h \in Nat /\ h # 0
      BY <1>a
    <2>4. ScanHolds(old)
      BY <1>b, <2>2 DEF AskerHolds
    <2>5. /\ s \in AskerShape /\ s.pc = "scan" /\ s.h = h /\ s.tip = old.tip /\ s.before = old.before
          /\ s.age = old.age /\ s.found = found /\ s.holes = holes
      <3> HIDE DEF found, holes, h
      <3> QED BY <1>a, <2>2, <2>3 DEF AskerShape
    <2> HIDE DEF s
    <2>6. found \subseteq old.before
      BY <1>a, <2>2, <2>4 DEF ScanHolds
    <2>7. ~holes => \A c \in 1..old.tip : c < h /\ c \notin spent => c \in found
      BY <1>a, <2>2, <2>4 DEF ScanHolds
    <2> HIDE DEF found, holes, h
    <2>8. ScanHolds(s)
      BY <2>3, <2>4, <2>5, <2>6, <2>7 DEF ScanHolds
    <2>9. AskerHolds(s)
      BY <1>b, <2>5, <2>8 DEF AskerHolds
    <2> QED BY <2>0, <2>2, <2>5, <2>9, OneAskerMoves
  <1>9. CASE \E a \in Askers : QueryScanEnds(a)
    <2>1. PICK a \in Askers : QueryScanEnds(a)
      BY <1>9
    <2> DEFINE old == asker[a]
               s == [old EXCEPT !.pc = "store", !.coins = old.found, !.scannedAt = clock, !.readAt = clock]
               entry == [held |-> TRUE, coins |-> old.found, at |-> clock, scannedAt |-> clock, lag |-> 0]
    <2>2. /\ asker' = [asker EXCEPT ![a] = s]
          /\ UNCHANGED <<height, spent, clock, walletCache>>
          /\ utxoCache' \in {entry, utxoCache}
      BY <2>1 DEF QueryScanEnds, indexerVars
    <2>3. s \in AskerShape /\ s.pc = "store" /\ s.readAt = clock /\ s.scannedAt = clock /\ s.age = old.age
      BY <1>0, <1>a DEF AskerShape
    <2>4. entry \in EntryTimes /\ entry.at = clock /\ entry.scannedAt = clock
      BY <1>0, <1>a DEF EntryTimes
    <2> HIDE DEF s, entry
    <2>5. CachesHold'
      BY <1>0, <2>2, <2>4 DEF CachesHold
    <2>6. AskerHolds(s)
      BY <1>0, <1>b, <2>3 DEF AskerHolds
    <2> QED BY <2>2, <2>3, <2>5, <2>6, OneAskerMoves DEF indexerVars
  <1>10. CASE \E a \in Askers : StoreWalletState(a)
    <2>1. PICK a \in Askers : StoreWalletState(a)
      BY <1>10
    <2> DEFINE old == asker[a]
               s == Answered(old.coins, old.readAt - old.scannedAt)
               entry == [held |-> TRUE, coins |-> old.coins, at |-> clock, scannedAt |-> old.scannedAt,
                         lag |-> clock - old.readAt]
    <2>2. /\ asker' = [asker EXCEPT ![a] = s] /\ old.pc = "store"
          /\ UNCHANGED <<height, spent, clock, utxoCache>>
          /\ walletCache' \in {entry, walletCache}
      BY <2>1 DEF StoreWalletState, indexerVars
    <2>3. /\ old.readAt <= clock /\ old.readAt - old.scannedAt <= CacheTTL - 1
          /\ old.readAt \in Nat /\ old.scannedAt \in Nat
      BY <1>a, <1>b, <2>2 DEF AskerHolds
    <2>4. s \in AskerShape /\ s.pc = "answered" /\ s.age = old.readAt - old.scannedAt
      <3>1. old.readAt - old.scannedAt \in Int
        BY <2>3
      <3> QED BY <1>a, <3>1, AnsweredShape
    <2>5. /\ entry \in EntryTimes /\ entry.at = clock /\ entry.scannedAt = old.scannedAt
          /\ entry.lag = clock - old.readAt
      <3>1. clock - old.readAt \in Nat
        BY <1>0, <2>3
      <3> QED BY <1>0, <1>a, <3>1 DEF EntryTimes
    <2> HIDE DEF s, entry
    <2>6. CachesHold'
      BY <1>0, <2>2, <2>3, <2>5 DEF CachesHold
    <2>7. AskerHolds(s)
      BY <1>0, <2>3, <2>4 DEF AskerHolds
    <2> QED BY <2>2, <2>4, <2>6, <2>7, OneAskerMoves DEF indexerVars
  <1>11. CASE \E a \in Askers : Taken(a)
    <2>1. PICK a \in Askers : Taken(a)
      BY <1>11
    <2>2. CachesHold' /\ UNCHANGED <<indexerVars, clock>> /\ asker' = [asker EXCEPT ![a] = AskerIdle]
      BY <1>0, <2>1, CachesStay DEF Taken
    <2> QED BY <2>2, IdleHolds, OneAskerMoves
  <1> QED BY <1>1, <1>2, <1>3, <1>4, <1>5, <1>6, <1>7, <1>8, <1>9, <1>10, <1>11 DEF CacheNext

(* The single queries: what each makes of each answer. *)
RepliesHonest ==
    /\ reply.kind \in {"contract_state", "contract_action", "contract_fields", "utxos_from_transaction",
                        "dust_status", "block"} /\ reply.answer = "throws" => reply.result.error
    /\ reply.result.value # "none" => reply.answer \in {"found"} \cup Unreadable \/ reply.kind = "disconnect"

LEMMA QueryStep == QueriesInv /\ QueryNext => QueriesInv' /\ RepliesHonest'
  <1> SUFFICES ASSUME QueriesInv, QueryNext PROVE QueriesInv' /\ RepliesHonest'
    OBVIOUS
  <1>1. UNCHANGED <<height, spent, clock, utxoCache, walletCache, asker>>
    BY DEF QueryNext, indexerVars
  <1>2. QueriesInv'
    BY <1>1 DEF QueriesInv, CachesHold, AskerHolds, ScanHolds
  <1>3. PICK answer \in IndexerAnswers : \E kind \in DOMAIN Queries(answer) :
            reply' = [kind |-> kind, answer |-> answer, result |-> Queries(answer)[kind]]
    BY DEF QueryNext
  <1>4. PICK kind \in DOMAIN Queries(answer) :
            reply' = [kind |-> kind, answer |-> answer, result |-> Queries(answer)[kind]]
    BY <1>3
  <1> DEFINE result == Queries(answer)[kind]
  <1>5. answer = "throws" /\ kind \in {"contract_state", "contract_action", "contract_fields",
                "utxos_from_transaction", "dust_status", "block"} => result.error
    BY DEF Queries, query_contract_state, query_contract_action, query_contract_fields, query_utxos_from_transaction,
           query_transaction, query_dust_status, query_block, WithError, OnlyLogged, Result, NoResult, Unreadable
  <1>6. result.value # "none" => answer \in {"found"} \cup Unreadable \/ kind = "disconnect"
    <2> SUFFICES ASSUME answer \in {"null", "noData", "throws"}, kind # "disconnect" PROVE result.value = "none"
      BY DEF IndexerAnswers
    <2> QED BY DEF Queries, query_contract_state, query_contract_action, query_contract_balance, query_contract_fields,
           query_transaction, query_utxos_from_transaction, query_dust_status, query_dust_generation_status,
           query_dust_generation_statuses, query_dust_registrations, get_block_height, is_synced, query_block,
           connect_shielded_wallet, WithError, OnlyLogged, Result, NoResult, Unreadable
  <1> QED BY <1>2, <1>4, <1>5, <1>6 DEF RepliesHonest

LEMMA ScansHonest == QueriesInv /\ RepliesHonest => ScanIsSandwiched /\ AnswersRestOnFreshScans
  <1> SUFFICES ASSUME QueriesInv, RepliesHonest PROVE ScanIsSandwiched /\ AnswersRestOnFreshScans
    OBVIOUS
  <1>1. ASSUME NEW a \in Askers, asker[a].pc = "scan"
        PROVE  /\ asker[a].found \subseteq asker[a].before
               /\ asker[a].h > asker[a].tip /\ ~asker[a].holes
                    => UnspentCoins \cap (1..asker[a].tip) \subseteq asker[a].found
    <2>1. ScanHolds(asker[a])
      BY <1>1 DEF QueriesInv, AskerHolds
    <2>2. asker[a].h \in Nat /\ asker[a].tip \in Nat
      BY DEF QueriesInv, AskerShape
    <2> QED BY <2>1, <2>2 DEF ScanHolds, UnspentCoins
  <1>2. \A a \in Askers : asker[a].age <= 2 * (CacheTTL - 1)
    BY DEF QueriesInv, AskerHolds
  <1> QED BY <1>1, <1>2 DEF ScanIsSandwiched, AnswersRestOnFreshScans, RepliesHonest

LEMMA RepliesInitial == QueriesInit => RepliesHonest
  BY DEF QueriesInit, NoReply, RepliesHonest

LEMMA RepliesStay == RepliesHonest /\ CacheNext => RepliesHonest'
  <1> SUFFICES ASSUME RepliesHonest, CacheNext PROVE reply' = reply
    BY DEF RepliesHonest
  <1> QED BY DEF CacheNext, IndexBlock, Passes, PruneExpiredCache, ClearCache, QueryWalletState, QueryUtxosBare,
             QueryUtxos, TipFails, QueryScanEnds, StoreWalletState, Taken, QueryScanBlock
-----------------------------------------------------------------------------
(***************************************************************************)
(* The parts put together.  A step is of one part, and leaves what belongs *)
(* to the others alone.                                                    *)
(***************************************************************************)
SubmittersInv == SubmitterInv /\ ContractsInv /\ ServicesInv
CoinsInv == UtxoInv /\ SelectionPays /\ SelectionCoversFee /\ BalancerInv /\ ChoiceCovers
ScansInv == QueriesInv /\ RepliesHonest
KeysInv == SigningInv /\ FacadeInv

LEMMA UnusedSubmitters ==
    /\ SubmitterInv /\ UNCHANGED submitterVars => SubmitterInv'
    /\ ContractsInv /\ UNCHANGED contractVars => ContractsInv'
    /\ ServicesInv /\ UNCHANGED servicesVars => ServicesInv'
  <1>1. SubmitterInv /\ UNCHANGED submitterVars => SubmitterInv'
    BY DEF submitterVars, SubmitterInv, SubmitterViewsHonest
  <1>2. ContractsInv /\ UNCHANGED contractVars => ContractsInv'
    BY DEF contractVars, ContractsInv, SubmissionsHonest
  <1>3. ServicesInv /\ UNCHANGED servicesVars => ServicesInv'
    BY DEF servicesVars, ServicesInv
  <1> QED BY <1>1, <1>2, <1>3

LEMMA UnusedCoins ==
    /\ UtxoInv /\ UNCHANGED utxoVars => UtxoInv'
    /\ SelectionPays /\ UNCHANGED utxoVars => SelectionPays'
    /\ BalancerInv /\ SelectionCoversFee /\ UNCHANGED balancerVars => BalancerInv' /\ SelectionCoversFee'
    /\ ChoiceCovers /\ UNCHANGED facadeVars => ChoiceCovers'
  <1>1. UtxoInv /\ UNCHANGED utxoVars => UtxoInv'
    BY ReservationsStay, InputsStay DEF utxoVars, UtxoInv
  <1>2. SelectionPays /\ UNCHANGED utxoVars => SelectionPays'
    BY SelectionStays DEF utxoVars
  <1>3. BalancerInv /\ SelectionCoversFee /\ UNCHANGED balancerVars => BalancerInv' /\ SelectionCoversFee'
    BY BalancingApart DEF balancerVars
  <1>4. ChoiceCovers /\ UNCHANGED facadeVars => ChoiceCovers'
    BY DEF facadeVars, ChoiceCovers
  <1> QED BY <1>1, <1>2, <1>3, <1>4

LEMMA UnusedKeys ==
    /\ SigningInv /\ UNCHANGED signingVars => SigningInv'
    /\ FacadeInv /\ UNCHANGED facadeVars => FacadeInv'
  <1>1. SigningInv /\ UNCHANGED signingVars => SigningInv'
    BY DEF signingVars, SigningInv
  <1>2. FacadeInv /\ UNCHANGED facadeVars => FacadeInv'
    BY DEF facadeVars, FacadeInv, FacadeKeysInv
  <1> QED BY <1>1, <1>2

LEMMA UnusedScans ==
    QueriesInv /\ RepliesHonest /\ UNCHANGED queryVars => QueriesInv' /\ RepliesHonest'
  <1> SUFFICES ASSUME QueriesInv, RepliesHonest, UNCHANGED queryVars PROVE QueriesInv' /\ RepliesHonest'
    OBVIOUS
  <1>1. UNCHANGED <<height, spent, clock, utxoCache, walletCache, asker, reply>>
    BY DEF queryVars, indexerVars
  <1>2. CachesHold'
    BY <1>1, CachesStay DEF QueriesInv
  <1>3. \A a \in Askers : AskerHolds(asker[a])'
    BY <1>1 DEF QueriesInv, AskerHolds, ScanHolds
  <1>4. RepliesHonest'
    BY <1>1 DEF RepliesHonest
  <1> QED BY <1>1, <1>2, <1>3, <1>4 DEF QueriesInv

LEMMA SubmittersStep == SubmittersInv /\ [Next]_submissionVars => SubmittersInv'
  <1> SUFFICES ASSUME SubmittersInv, [Next]_submissionVars PROVE SubmittersInv'
    OBVIOUS
  <1>1. CASE ExtrinsicsNext
    BY <1>1, SubmitterStep, UnusedSubmitters DEF ExtrinsicsNext, SubmittersInv
  <1>2. CASE ContractsNext
    BY <1>2, ContractsStep, UnusedSubmitters DEF ContractsNext, SubmittersInv
  <1>3. CASE PendingNext
    BY <1>3, ServicesStep, UnusedSubmitters DEF PendingNext, SubmittersInv
  <1>4. CASE UNCHANGED <<submitterVars, contractVars, servicesVars>>
    BY <1>4, UnusedSubmitters DEF SubmittersInv
  <1>5. NodeNext \/ CoinsNext \/ BalancingNext \/ FindingNext \/ KeysNext \/ FacadesNext \/ UNCHANGED submissionVars
        => UNCHANGED <<submitterVars, contractVars, servicesVars>>
    BY DEF NodeNext, CoinsNext, BalancingNext, FindingNext, KeysNext, FacadesNext, submissionVars
  <1> QED BY <1>1, <1>2, <1>3, <1>4, <1>5 DEF Next

LEMMA CoinsStep == CoinsInv /\ [Next]_submissionVars => CoinsInv'
  <1> SUFFICES ASSUME CoinsInv, [Next]_submissionVars PROVE CoinsInv'
    OBVIOUS
  <1>1. CASE CoinsNext
    <2>1. UtxoInv'
      BY <1>1, UtxoStep, SelectorKeepsUtxos DEF CoinsNext, CoinsInv
    <2>2. SelectionPays'
      BY <1>1, SelectorStep, UtxoKeepsSelection, SelectionStays DEF CoinsNext, CoinsInv
    <2> QED BY <1>1, <2>1, <2>2, UnusedCoins DEF CoinsNext, CoinsInv
  <1>2. CASE BalancingNext
    <2>1. BalancerInv'
      BY <1>2, BalancingApart, SplitKeeps, MergeKeeps DEF BalancingNext, CoinsInv
    <2>2. SelectionCoversFee'
      BY <1>2, BalancingApart, BalanceStep DEF BalancingNext, CoinsInv
    <2> QED BY <1>2, <2>1, <2>2, UnusedCoins DEF BalancingNext, CoinsInv
  <1>3. CASE FacadesNext
    <2>1. FacadeNext => ChoiceCovers'
      BY FacadeKeepsChoice DEF ChoiceCovers, CoinsInv
    <2> QED BY <1>3, <2>1, ChoosingCovers, UnusedCoins DEF FacadesNext, CoinsInv
  <1>4. CASE UNCHANGED <<utxoVars, balancerVars, facadeVars>>
    BY <1>4, UnusedCoins DEF CoinsInv
  <1>5. NodeNext \/ ExtrinsicsNext \/ ContractsNext \/ PendingNext \/ FindingNext \/ KeysNext \/ UNCHANGED submissionVars
        => UNCHANGED <<utxoVars, balancerVars, facadeVars>>
    BY DEF NodeNext, ExtrinsicsNext, ContractsNext, PendingNext, FindingNext, KeysNext, submissionVars
  <1> QED BY <1>1, <1>2, <1>3, <1>4, <1>5 DEF Next

LEMMA ScansStep == ScansInv /\ [Next]_submissionVars => ScansInv'
  <1> SUFFICES ASSUME ScansInv, [Next]_submissionVars PROVE ScansInv'
    OBVIOUS
  <1>1. CASE FindingNext
    BY <1>1, CacheStep, RepliesStay, QueryStep DEF FindingNext, ScansInv
  <1>2. CASE UNCHANGED queryVars
    BY <1>2, UnusedScans DEF ScansInv
  <1>3. NodeNext \/ ExtrinsicsNext \/ ContractsNext \/ CoinsNext \/ BalancingNext \/ PendingNext \/ KeysNext
           \/ FacadesNext \/ UNCHANGED submissionVars
        => UNCHANGED queryVars
    BY DEF NodeNext, ExtrinsicsNext, ContractsNext, CoinsNext, BalancingNext, PendingNext, KeysNext, FacadesNext,
           submissionVars
  <1> QED BY <1>1, <1>2, <1>3 DEF Next

LEMMA KeysStep == KeysInv /\ [Next]_submissionVars => KeysInv'
  <1> SUFFICES ASSUME KeysInv, [Next]_submissionVars PROVE KeysInv'
    OBVIOUS
  <1>1. CASE KeysNext
    BY <1>1, SigningStep, UnusedKeys DEF KeysNext, KeysInv
  <1>2. CASE FacadesNext
    BY <1>2, FacadeStep, ChoosingKeepsKeys, UnusedKeys DEF FacadesNext, KeysInv
  <1>3. CASE UNCHANGED <<signingVars, facadeVars>>
    BY <1>3, UnusedKeys DEF KeysInv
  <1>4. NodeNext \/ ExtrinsicsNext \/ ContractsNext \/ CoinsNext \/ BalancingNext \/ PendingNext \/ FindingNext
           \/ UNCHANGED submissionVars
        => UNCHANGED <<signingVars, facadeVars>>
    BY DEF NodeNext, ExtrinsicsNext, ContractsNext, CoinsNext, BalancingNext, PendingNext, FindingNext, submissionVars
  <1> QED BY <1>1, <1>2, <1>3, <1>4 DEF Next

LEMMA PartsInitial == Init => SubmittersInv /\ CoinsInv /\ ScansInv /\ KeysInv
  <1> SUFFICES ASSUME Init PROVE SubmittersInv /\ CoinsInv /\ ScansInv /\ KeysInv
    OBVIOUS
  <1>1. /\ SubmitterInit /\ ContractInit /\ UtxoInit /\ BalancerInit /\ ServicesInit
        /\ QueriesInit /\ SigningInit /\ FacadeInit
    BY DEF Init
  <1>2. SubmittersInv
    BY <1>1, SubmitterInitial, ContractsInitial, ServicesInitial DEF SubmittersInv
  <1>3. CoinsInv
    BY <1>1, UtxoInitial, BalancerInitial, ChoiceInitial DEF CoinsInv
  <1>4. ScansInv
    BY <1>1, QueriesInitial, RepliesInitial DEF ScansInv
  <1>5. KeysInv
    BY <1>1, SigningInitial, FacadeInitial DEF KeysInv
  <1> QED BY <1>2, <1>3, <1>4, <1>5

(* A transaction whose submission TransactionSubmitter, ContractManager or *)
(* ContractInteractor reported successful is with the node; one reported   *)
(* as failed is not, unless an answer was lost or carried no hash; and the *)
(* wallet services call final only what is final and tell a caller of each *)
(* stage once and in order, whatever lagging replicas answer               *)
(* (signing_submission.cpp:698-855, contract_manager.cpp:185-263,          *)
(* contract_interactor.cpp:282-310, wallet_services.cpp:329-426).          *)
THEOREM SubmittersCorrect == Spec => []SubmittersHonest
  <1>1. SubmittersInv => SubmittersHonest
    BY ServicesHonest DEF SubmittersInv, SubmitterInv, ContractsInv, SubmittersHonest
  <1> QED BY <1>1, PartsInitial, SubmittersStep, PTL DEF Spec

(* However many builders compete for whatever coins, none is granted one   *)
(* that another holds by that name, none names a coin twice, no validated  *)
(* transaction has an input seen spent, every selection pays for its order *)
(* and its fee, and splitting and merging conserve value                   *)
(* (utxo_transactions.cpp, transaction_balancer.cpp,                       *)
(* wallet_facade.cpp:281-365).                                             *)
THEOREM CoinsCorrect == Spec => []CoinsSpentOnce
  <1>1. CoinsInv => CoinsSpentOnce
    BY UtxosHonest, BalancerHonest DEF CoinsInv, CoinsSpentOnce
  <1> QED BY <1>1, PartsInitial, CoinsStep, PTL DEF Spec

(* Whatever the chain and other threads do during a scan of the indexer,   *)
(* the scan finds only what was unspent when it began and, unless a        *)
(* request failed, misses nothing of its blocks that is unspent when it    *)
(* ends; an answer from the caches rests on a scan of less than two of     *)
(* their lifetimes ago; and no failed query makes a value up               *)
(* (indexer_client.cpp).                                                   *)
THEOREM ScansCorrect == Spec => []ScansHold
  <1>1. ScansInv => ScansHold
    BY ScansHonest DEF ScansInv, ScansHold
  <1> QED BY <1>1, PartsInitial, ScansStep, PTL DEF Spec

(* Through generation, import, saving, torn writes and loading, with and   *)
(* without libsodium, no key is put together from two, and a signature is  *)
(* accepted only of the verifier's own key; a facade signs with the key of *)
(* its addresses, and its sealed state opens to its password alone, and if *)
(* and only if Base64 brings its bytes back: for every state of bytes, of  *)
(* any length (signing_submission.cpp, key_encryption.cpp,                 *)
(* wallet_facade.cpp).                                                     *)
THEOREM KeysCorrect == Spec => []KeysBelongTogether
  <1>1. KeysInv => KeysBelongTogether
    BY SignaturesHonest, FacadeKeysHonest DEF KeysInv, KeysBelongTogether
  <1> QED BY <1>1, PartsInitial, KeysStep, PTL DEF Spec
=============================================================================
