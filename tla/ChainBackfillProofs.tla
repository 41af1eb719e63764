------------------------- MODULE ChainBackfillProofs -------------------------
(***************************************************************************)
(* The checkpoint and the dataset of ChainBackfill, for every set of       *)
(* requests and contracts, every batch size and every number of crashes    *)
(* and starts, with and without --no-resume.                               *)
(***************************************************************************)
EXTENDS ChainBackfill, FiniteSetTheorems, TLAPS

\* The contracts d have their rows for request r in readable parts below n.
Stored(r, d, n) ==
  \A t \in d : \E i \in 0..(n - 1) : <<i, r, t>> \in rows /\ i \notin unreadable

Types ==
  index \in Nat /\ savedIndex \in Nat /\ resume \in BOOLEAN /\ startedOver \in BOOLEAN

\* The running program does not go on from a checkpoint whose parts were overwritten.
Sound == ~ startedOver \/ ~ resume

MemoryStored == pc # "down" /\ Sound => Stored(request, done, index)

\* The running program is ahead of the checkpoint that it resumed or wrote.
AheadOfCheckpoint ==
  pc # "down" /\ saved = "file" /\ (resume \/ ~ startedOver) =>
    savedRequest = request /\ savedDone \subseteq done /\ savedIndex <= index

UniverseIsListed == pc \in {"fetch", "save", "publish", "complete"} => universe = list

Assembled ==
  pc \in {"publish", "complete"} /\ Sound => \A t \in list : <<request, t>> \in dataset

IInv ==
  /\ Types /\ CompletedAreStored /\ MemoryStored /\ AheadOfCheckpoint
  /\ UniverseIsListed /\ Assembled

\* The initial state satisfies the invariant.
LEMMA InitHolds == Init => IInv
<1> SUFFICES ASSUME Init PROVE IInv
  OBVIOUS
<1>1. Types
  BY DEF Init, Types
<1>2. pc = "down" /\ saved = "none"
  BY DEF Init
<1>3. CompletedAreStored /\ MemoryStored /\ AheadOfCheckpoint
  BY <1>2 DEF CompletedAreStored, MemoryStored, AheadOfCheckpoint
<1>4. UniverseIsListed /\ Assembled
  BY <1>2 DEF UniverseIsListed, Assembled
<1> QED
  BY <1>1, <1>3, <1>4 DEF IInv

\* Writing part `index` keeps what lies in the parts below it.
LEMMA StoredKept ==
  ASSUME index \in Nat, NEW n \in Nat, n <= index, NEW r, NEW d, NEW tickers,
         Stored(r, d, n), rows' = PartWith(tickers), unreadable' \subseteq unreadable \cup {index}
  PROVE  Stored(r, d, n)'
<1> SUFFICES ASSUME NEW t \in d
             PROVE  \E i \in 0..(n - 1) : <<i, r, t>> \in rows' /\ i \notin unreadable'
  BY DEF Stored
<1>1. PICK i \in 0..(n - 1) : <<i, r, t>> \in rows /\ i \notin unreadable
  BY DEF Stored
<1>2. i # index
  BY <1>1
<1>3. <<i, r, t>> \in rows'
  BY <1>1, <1>2 DEF PartWith
<1> QED
  BY <1>1, <1>2, <1>3

\* The end of the process, whatever it leaves behind.
LEMMA EndHolds ==
  ASSUME IInv, Ends, savedIndex' \in Nat, CompletedAreStored'
  PROVE  IInv'
BY DEF IInv, Ends, Types, MemoryStored, AheadOfCheckpoint, UniverseIsListed, Assembled

\* A process that ends and leaves the disk as it is.
LEMMA QuietEndHolds ==
  ASSUME IInv, Ends, UNCHANGED disk
  PROVE  IInv'
<1>1. savedIndex' \in Nat /\ CompletedAreStored'
  BY DEF IInv, Types, Ends, disk, CompletedAreStored
<1> QED
  BY <1>1, EndHolds

\* Starting, resumed or not, takes up what the checkpoint counts or nothing at all.
LEMMA StartsHold ==
  ASSUME IInv, NEW r \in Requests, NEW n \in BatchSizes,
         Resume(r, n) \/ StartOver(r, n)
  PROVE  IInv'
<1>1. CASE Resume(r, n)
  <2> USE <1>1 DEF Resume, Begin, Starting, disk, ResumedIndex, ResumedDone, Accepts
  <2>1. Types' /\ CompletedAreStored'
    BY DEF IInv, Types, CompletedAreStored
  <2>2. MemoryStored'
    <3>1. CASE saved = "file"
      BY <3>1 DEF IInv, Types, CompletedAreStored, MemoryStored, Stored, Sound
    <3>2. CASE saved # "file"
      BY <3>2 DEF MemoryStored, Stored
    <3> QED
      BY <3>1, <3>2
  <2>3. AheadOfCheckpoint'
    BY DEF IInv, Types, AheadOfCheckpoint
  <2>4. UniverseIsListed' /\ Assembled'
    BY DEF UniverseIsListed, Assembled
  <2> QED
    BY <2>1, <2>2, <2>3, <2>4 DEF IInv
<1>2. CASE StartOver(r, n)
  <2> USE <1>2 DEF StartOver, Begin, Starting, disk
  <2>1. Types' /\ CompletedAreStored'
    BY DEF IInv, Types, CompletedAreStored
  <2>2. MemoryStored' /\ AheadOfCheckpoint'
    BY DEF MemoryStored, AheadOfCheckpoint, Stored
  <2>3. UniverseIsListed' /\ Assembled'
    BY DEF UniverseIsListed, Assembled
  <2> QED
    BY <2>1, <2>2, <2>3 DEF IInv
<1> QED
  BY <1>1, <1>2

\* The contracts, and the contracts that are asked for one by one, touch no part.
LEMMA FetchingHolds ==
  ASSUME IInv,
         \/ LoadContracts \/ ReceivePage \/ FetchContracts
         \/ RetryError \/ RetryRateLimit
         \/ \E t \in Pending : Skip(t) \/ Receive(t)
  PROVE  IInv'
<1>1. /\ UNCHANGED <<rows, unreadable, saved, savedRequest, savedIndex, savedDone, request,
                    resume, index, done, startedOver>>
      /\ pc # "down" /\ pc' \in {"contracts", "fetch"}
      /\ UniverseIsListed => pc' = "contracts" \/ universe' = list'
  BY DEF LoadContracts, ReceivePage, FetchContracts, Skip, Receive, RetryError, RetryRateLimit,
         Requesting, Listing, Asking, Current, Collect, disk, UniverseIsListed
<1>2. Types' /\ CompletedAreStored' /\ MemoryStored' /\ AheadOfCheckpoint'
  BY <1>1 DEF IInv, Types, CompletedAreStored, MemoryStored, AheadOfCheckpoint, Stored, Sound
<1>3. UniverseIsListed' /\ Assembled'
  BY <1>1 DEF IInv, UniverseIsListed, Assembled
<1> QED
  BY <1>2, <1>3 DEF IInv

\* The part of a batch, and the memory of having written it.
LEMMA WritePartHolds ==
  ASSUME IInv, WritePart
  PROVE  IInv'
<1>1. /\ pc = "fetch" /\ pc' = "save" /\ index \in Nat /\ index' = index + 1
      /\ done' = done \cup batch
      /\ rows' = PartWith(batch) /\ unreadable' = unreadable \ {index}
      /\ UNCHANGED <<saved, savedRequest, savedIndex, savedDone, request, resume, startedOver,
                    universe, list>>
  BY DEF WritePart, BatchIsDue, IInv, Types
<1>2. Types'
  BY <1>1 DEF IInv, Types
<1>3. CompletedAreStored'
  <2> SUFFICES ASSUME saved = "file", ~ startedOver
               PROVE  Stored(savedRequest, savedDone, savedIndex)'
    BY <1>1 DEF CompletedAreStored, Stored
  <2>1. savedIndex \in Nat /\ savedIndex <= index
    BY <1>1 DEF IInv, Types, AheadOfCheckpoint
  <2>2. Stored(savedRequest, savedDone, savedIndex)
    BY DEF IInv, CompletedAreStored, Stored
  <2>3. \A t \in savedDone : \E i \in 0..(savedIndex - 1) :
          <<i, savedRequest, t>> \in rows' /\ i \notin unreadable'
    BY <1>1, <2>1, <2>2, StoredKept DEF Stored
  <2> QED
    BY <1>1, <2>3 DEF Stored
<1>4. MemoryStored'
  <2> SUFFICES ASSUME Sound, NEW t \in done \cup batch
               PROVE  \E i \in 0..index : <<i, request, t>> \in rows' /\ i \notin unreadable'
    BY <1>1 DEF MemoryStored, Stored, Sound
  <2>1. CASE t \in batch
    <3>1. <<index, request, t>> \in rows' /\ index \notin unreadable'
      BY <1>1, <2>1 DEF PartWith
    <3> QED
      BY <1>1, <3>1
  <2>2. CASE t \in done
    <3>1. Stored(request, done, index)
      BY <1>1 DEF IInv, MemoryStored
    <3>2. PICK i \in 0..(index - 1) : <<i, request, t>> \in rows /\ i \notin unreadable
      BY <2>2, <3>1 DEF Stored
    <3>3. i \in 0..index /\ i # index
      BY <1>1
    <3>4. <<i, request, t>> \in rows' /\ i \notin unreadable'
      BY <1>1, <3>2, <3>3 DEF PartWith
    <3> QED
      BY <3>3, <3>4
  <2> QED
    BY <2>1, <2>2
<1>5. AheadOfCheckpoint'
  BY <1>1 DEF IInv, Types, AheadOfCheckpoint
<1>6. UniverseIsListed' /\ Assembled'
  BY <1>1 DEF IInv, UniverseIsListed, Assembled
<1> QED
  BY <1>2, <1>3, <1>4, <1>5, <1>6 DEF IInv

\* A checkpoint states what the memory knows to be stored.
LEMMA CheckpointHolds ==
  ASSUME IInv, SaveBatch \/ Publish
  PROVE  IInv'
<1>1. /\ pc # "down" /\ pc' # "down"
      /\ saved' = "file" /\ savedRequest' = request /\ savedIndex' = index /\ savedDone' = done
      /\ startedOver' = (startedOver /\ resume)
      /\ UNCHANGED <<rows, unreadable, list, dataset, request, resume, index, done, universe>>
  BY DEF SaveBatch, Publish, WriteCheckpoint, memory
<1>2. Sound' = Sound
  BY <1>1 DEF Sound
<1>3. Types'
  BY <1>1 DEF IInv, Types
<1>4. ~ startedOver' => Sound
  BY <1>1 DEF Sound
<1>5. Sound => Stored(request, done, index)
  BY <1>1 DEF IInv, MemoryStored
<1>6. CompletedAreStored' /\ MemoryStored'
  BY <1>1, <1>2, <1>4, <1>5 DEF CompletedAreStored, MemoryStored, Stored
<1>7. AheadOfCheckpoint'
  BY <1>1 DEF AheadOfCheckpoint, IInv, Types
<1>8. UniverseIsListed'
  BY <1>1 DEF IInv, UniverseIsListed, SaveBatch, Publish
<1>9. Assembled'
  BY <1>1, <1>2 DEF IInv, Assembled, SaveBatch, Publish
<1> QED
  BY <1>3, <1>6, <1>7, <1>8, <1>9 DEF IInv

\* The dataset joins all parts, so it has every contract that the memory counts.
LEMMA AssembleHolds ==
  ASSUME IInv, Assemble
  PROVE  IInv'
<1>1. /\ pc = "fetch" /\ pc' = "publish" /\ Pending = {} /\ batch = {}
      /\ dataset' = {<<row[2], row[3]>> : row \in rows}
      /\ UNCHANGED <<rows, unreadable, list, saved, savedRequest, savedIndex, savedDone,
                    request, resume, index, done, universe, startedOver>>
  BY DEF Assemble, AllFetched, memory
<1>2. Types' /\ CompletedAreStored' /\ MemoryStored' /\ AheadOfCheckpoint'
  BY <1>1 DEF IInv, Types, CompletedAreStored, MemoryStored, AheadOfCheckpoint, Stored, Sound
<1>3. UniverseIsListed'
  BY <1>1 DEF IInv, UniverseIsListed
<1>4. Assembled'
  <2> SUFFICES ASSUME Sound, NEW t \in list
               PROVE  <<request, t>> \in dataset'
    BY <1>1 DEF Assembled, Sound
  <2>1. t \in done
    BY <1>1 DEF IInv, UniverseIsListed, Pending
  <2>2. PICK i \in 0..(index - 1) : <<i, request, t>> \in rows
    BY <1>1, <2>1 DEF IInv, MemoryStored, Stored
  <2> QED
    BY <1>1, <2>2
<1> QED
  BY <1>2, <1>3, <1>4 DEF IInv

\* A crash inside a write damages the part that is being written, or the checkpoint itself.
LEMMA CrashesHold ==
  ASSUME IInv, Crashes
  PROVE  IInv'
<1>1. CASE Crash
  BY <1>1, QuietEndHolds DEF Crash
<1>2. CASE CrashInContracts
  <2>1. Ends /\ savedIndex' \in Nat /\ CompletedAreStored'
    BY <1>2 DEF CrashInContracts, Ends, IInv, Types, CompletedAreStored
  <2> QED
    BY <2>1, EndHolds
<1>3. CASE CrashInPart
  <2>1. /\ pc = "fetch" /\ Ends /\ savedIndex' \in Nat /\ index \in Nat
        /\ UNCHANGED <<saved, savedRequest, savedIndex, savedDone, startedOver>>
    BY <1>3 DEF CrashInPart, BatchIsDue, Ends, IInv, Types
  <2>2. PICK some : rows' = PartWith(some) /\ unreadable' \subseteq unreadable \cup {index}
    <3>1. \E some : rows' = PartWith(some) /\ unreadable' \subseteq unreadable \cup {index}
      BY <1>3 DEF CrashInPart
    <3> QED
      BY <3>1
  <2>3. CompletedAreStored'
    <3> SUFFICES ASSUME saved = "file", ~ startedOver
                 PROVE  \A t \in savedDone : \E i \in 0..(savedIndex - 1) :
                          <<i, savedRequest, t>> \in rows' /\ i \notin unreadable'
      BY <2>1 DEF CompletedAreStored
    <3>1. savedIndex \in Nat /\ savedIndex <= index
      BY <2>1 DEF IInv, Types, AheadOfCheckpoint
    <3>2. Stored(savedRequest, savedDone, savedIndex)
      BY DEF IInv, CompletedAreStored, Stored
    <3> QED
      BY <2>1, <2>2, <3>1, <3>2, StoredKept DEF Stored
  <2> QED
    BY <2>1, <2>3, EndHolds
<1>4. CASE CrashInCheckpoint
  <2>1. Ends /\ savedIndex' \in Nat /\ CompletedAreStored'
    BY <1>4 DEF CrashInCheckpoint, CompletedAreStored
  <2> QED
    BY <2>1, EndHolds
<1>5. CASE CrashInDataset
  <2>1. Ends /\ savedIndex' \in Nat /\ CompletedAreStored'
    BY <1>5 DEF CrashInDataset, Ends, IInv, Types, CompletedAreStored
  <2> QED
    BY <2>1, EndHolds
<1> QED
  BY <1>1, <1>2, <1>3, <1>4, <1>5 DEF Crashes

\* Steps that only end the process, or change no variable that the invariant reads.
LEMMA EndingStepsHold ==
  ASSUME IInv,
         FailToLoad \/ FailToAssemble \/ Leave \/ GiveUp
  PROVE  IInv'
<1>1. Ends /\ UNCHANGED disk
  BY DEF FailToLoad, FailToAssemble, Leave, GiveUp
<1> QED
  BY <1>1, QuietEndHolds

\* Every step keeps the invariant.
LEMMA NextHolds == IInv /\ [Next]_vars => IInv'
<1> SUFFICES ASSUME IInv, [Next]_vars PROVE IInv'
  OBVIOUS
<1>1. CASE Step
  BY <1>1, FetchingHolds, EndingStepsHold, WritePartHolds, CheckpointHolds, AssembleHolds
     DEF Step
<1>2. CASE Crashes
  BY <1>2, CrashesHold
<1>3. ASSUME NEW r \in Requests, Refuse(r) PROVE IInv'
  BY <1>3 DEF Refuse, disk, memory, IInv, Types, CompletedAreStored, MemoryStored, Stored,
              AheadOfCheckpoint, UniverseIsListed, Assembled, Sound
<1>4. CASE Starts
  BY <1>3, <1>4, StartsHold DEF Starts
<1>5. CASE UNCHANGED vars
  BY <1>5 DEF vars, disk, memory, IInv, Types, CompletedAreStored, MemoryStored, Stored,
              AheadOfCheckpoint, UniverseIsListed, Assembled, Sound
<1> QED
  BY <1>1, <1>2, <1>4, <1>5 DEF Next

\* What the checkpoint counts as completed is stored, wherever the runs before it ended
\* (_flush_batch, _load_checkpoint).
THEOREM NothingIsLost == Spec => []CompletedAreStored
<1>1. IInv => CompletedAreStored
  BY DEF IInv
<1> QED
  BY <1>1, InitHolds, NextHolds, PTL DEF Spec

\* The dataset of a complete run covers its contracts file (backfill_massive_spx_options).
THEOREM DatasetIsCovered == Spec => []DatasetCoversContracts
<1>1. IInv => DatasetCoversContracts
  BY DEF IInv, Assembled, DatasetCoversContracts, Sound
<1> QED
  BY <1>1, InitHolds, NextHolds, PTL DEF Spec

\* A step that changes a readable checkpoint while a resumed program runs goes on from it.
LEMMA StepKeepsRequest ==
  ASSUME IInv, [Next]_vars, resume, saved = "file", saved' = "file"
  PROVE  savedRequest' = savedRequest /\ savedDone \subseteq savedDone'
<1>1. CASE SaveBatch \/ Publish
  BY <1>1 DEF SaveBatch, Publish, WriteCheckpoint, IInv, AheadOfCheckpoint
<1>2. CASE UNCHANGED <<savedRequest, savedDone>>
  BY <1>2
<1>3. CASE Step
  BY <1>1, <1>2, <1>3
     DEF Step, LoadContracts, FailToLoad, ReceivePage, FetchContracts, Skip, Receive,
         RetryError, RetryRateLimit, GiveUp, WritePart, Assemble, FailToAssemble, Leave, disk
<1>4. CASE Crashes
  BY <1>2, <1>4 DEF Crashes, Crash, CrashInContracts, CrashInPart, CrashInCheckpoint,
                    CrashInDataset, disk
<1>5. CASE Starts
  BY <1>2, <1>5 DEF Starts, Refuse, Resume, StartOver, Begin, disk
<1>6. CASE UNCHANGED vars
  BY <1>2, <1>6 DEF vars, disk
<1> QED
  BY <1>3, <1>4, <1>5, <1>6 DEF Next

\* No resumed run takes over the checkpoint of another request or forgets what it counts
\* (_validate_checkpoint).
THEOREM CheckpointIsKept == Spec => CheckpointKeepsRequest
<1>1. IInv /\ [Next]_vars =>
        [resume /\ saved = "file" /\ saved' = "file" =>
           savedRequest' = savedRequest /\ savedDone \subseteq savedDone']_vars
  BY StepKeepsRequest
<1> QED
  BY <1>1, InitHolds, NextHolds, PTL DEF Spec, CheckpointKeepsRequest

----------------------------------------------------------------------------
(***************************************************************************)
(* Type correctness, and what follows for a directory of one request.      *)
(***************************************************************************)
LEMMA TypeInit == Init => TypeOK
<1>. SUFFICES ASSUME Init PROVE TypeOK
  OBVIOUS
<1>1. /\ list \subseteq Contracts /\ rows \subseteq Nat \X Requests \X Contracts
      /\ unreadable \subseteq Nat /\ savedDone \subseteq Contracts
      /\ dataset \subseteq Requests \X Contracts /\ universe \subseteq Contracts
      /\ done \subseteq Contracts /\ batch \subseteq Contracts
  BY DEF Init
<1>2. /\ page \in 0..(MaxPages - 1)
      /\ attempts \in 0..(MaxRetries - 1) /\ rateLimits \in 0..MaxRateLimits
      /\ starts \in 0..MaxStarts /\ savedIndex \in Nat /\ index \in Nat
  BY LimitAssumption DEF Init
<1>3. /\ listed \in {"none", "torn", "file"} /\ saved \in {"none", "torn", "file"}
      /\ savedRequest \in Requests \cup {NoRequest}
      /\ pc = "down" /\ request \in {NoRequest}
      /\ size \in BatchSizes \cup {0} /\ resume \in BOOLEAN /\ startedOver \in BOOLEAN
  BY DEF Init
<1>. QED BY <1>1, <1>2, <1>3 DEF TypeOK

LEMMA PartType ==
  ASSUME TypeOK, pc # "down", NEW tickers \in SUBSET Contracts
  PROVE  PartWith(tickers) \subseteq Nat \X Requests \X Contracts
BY DEF TypeOK, PartWith

\* The part of TypeOK that the disk has, and the part that the process has.
DiskTyped ==
  /\ listed \in {"none", "torn", "file"} /\ list \subseteq Contracts
  /\ rows \subseteq Nat \X Requests \X Contracts /\ unreadable \subseteq Nat
  /\ saved \in {"none", "torn", "file"} /\ savedRequest \in Requests \cup {NoRequest}
  /\ savedIndex \in Nat /\ savedDone \subseteq Contracts
  /\ dataset \subseteq Requests \X Contracts

ProcessTyped ==
  /\ pc \in {"down", "contracts", "fetch", "save", "publish", "complete"}
  /\ request \in IF pc = "down" THEN {NoRequest} ELSE Requests
  /\ size \in BatchSizes \cup {0} /\ resume \in BOOLEAN /\ universe \subseteq Contracts
  /\ index \in Nat /\ done \subseteq Contracts /\ batch \subseteq Contracts
  /\ page \in 0..(MaxPages - 1)
  /\ attempts \in 0..(MaxRetries - 1) /\ rateLimits \in 0..MaxRateLimits
  /\ starts \in 0..MaxStarts /\ startedOver \in BOOLEAN

LEMMA TypeParts == TypeOK <=> DiskTyped /\ ProcessTyped
BY DEF TypeOK, DiskTyped, ProcessTyped

LEMMA TypePartsAfter == (TypeOK <=> DiskTyped /\ ProcessTyped)'
BY TypeParts, PTL

LEMMA EndsTyped == ASSUME ProcessTyped, Ends PROVE ProcessTyped'
<1>1. /\ page' \in 0..(MaxPages - 1)
      /\ attempts' \in 0..(MaxRetries - 1) /\ rateLimits' \in 0..MaxRateLimits
  BY LimitAssumption DEF Ends
<1>2. /\ universe' \subseteq Contracts /\ done' \subseteq Contracts /\ batch' \subseteq Contracts
      /\ index' \in Nat
  BY DEF Ends
<1>. QED BY <1>1, <1>2 DEF Ends, ProcessTyped

LEMMA CrashesTyped == ASSUME TypeOK, Crashes PROVE TypeOK'
<1>. USE TypeParts
<1>1. Ends /\ pc # "down"
  BY DEF Crashes, Crash, Running, CrashInContracts, Listing, CrashInPart, BatchIsDue,
         CrashInCheckpoint, CrashInDataset, AllFetched
<1>2. DiskTyped'
  <2>1. CASE Crash
    BY <2>1 DEF Crash, disk, DiskTyped
  <2>2. CASE CrashInContracts
    <3>1. \A s \in Prefix(Universe[request]) : s \subseteq Contracts
      BY <1>1 DEF Prefix, Contracts, TypeOK
    <3>. QED BY <2>2, <3>1 DEF CrashInContracts, DiskTyped
  <2>3. CASE CrashInPart
    <3>1. \E tickers \in SUBSET Contracts : rows' = PartWith(tickers)
      BY <2>3 DEF CrashInPart, Prefix, TypeOK
    <3>2. unreadable' \subseteq Nat
      BY <2>3 DEF CrashInPart, TypeOK
    <3>3. rows' \subseteq Nat \X Requests \X Contracts
      BY <1>1, <3>1, PartType
    <3>. QED BY <2>3, <3>2, <3>3 DEF CrashInPart, DiskTyped
  <2>4. CASE CrashInCheckpoint \/ CrashInDataset
    BY <2>4 DEF CrashInCheckpoint, CrashInDataset, DiskTyped
  <2>. QED BY <2>1, <2>2, <2>3, <2>4 DEF Crashes
<1>. QED BY <1>1, <1>2, EndsTyped, TypePartsAfter

LEMMA StartsTyped == ASSUME TypeOK, Starts PROVE TypeOK'
<1>. USE TypeParts
<1>1. starts' \in 0..MaxStarts
  <2>1. Starting
    BY DEF Starts, Refuse, Resume, StartOver
  <2>2. starts \in 0..MaxStarts
    BY DEF TypeOK
  <2>. QED BY <2>1, <2>2, LimitAssumption DEF Starting
<1>2. ASSUME NEW r \in Requests, Refuse(r) PROVE TypeOK'
  BY <1>1, <1>2 DEF Refuse, disk, memory, TypeOK
<1>3. ASSUME NEW r \in Requests, NEW n \in BatchSizes, Resume(r, n) \/ StartOver(r, n)
      PROVE  TypeOK'
  <2>1. /\ UNCHANGED <<disk, universe, batch, page, attempts, rateLimits>>
        /\ pc' = "contracts" /\ request' = r /\ size' = n /\ resume' \in BOOLEAN
        /\ startedOver' \in BOOLEAN /\ index' \in Nat /\ done' \subseteq Contracts
    <3>1. /\ UNCHANGED <<disk, universe, batch, page, attempts, rateLimits>>
          /\ pc' = "contracts" /\ request' = r /\ size' = n
      BY <1>3 DEF Resume, StartOver, Begin
    <3>2. resume' \in BOOLEAN /\ startedOver' \in BOOLEAN
      <4>1. CASE Resume(r, n)
        <5>1. startedOver \in BOOLEAN /\ startedOver' = startedOver
          BY <4>1 DEF TypeOK, Resume
        <5>. QED BY <4>1, <5>1 DEF Resume
      <4>2. CASE StartOver(r, n)
        BY <4>2 DEF StartOver
      <4>. QED BY <1>3, <4>1, <4>2
    <3>3. index' \in Nat /\ done' \subseteq Contracts
      <4>1. ResumedIndex \in Nat /\ ResumedDone \subseteq Contracts
        BY DEF ResumedIndex, ResumedDone, TypeOK
      <4>2. \/ index' = ResumedIndex /\ done' = ResumedDone
            \/ index' = 0 /\ done' = {}
        BY <1>3 DEF Resume, StartOver
      <4>. QED BY <4>1, <4>2
    <3>. QED BY <3>1, <3>2, <3>3
  <2>2. ProcessTyped'
    BY <1>1, <2>1 DEF ProcessTyped
  <2>3. DiskTyped'
    BY <2>1 DEF disk, DiskTyped
  <2>. QED BY <2>2, <2>3, TypePartsAfter
<1>. QED BY <1>2, <1>3 DEF Starts

LEMMA StepTyped == ASSUME TypeOK, Step PROVE TypeOK'
<1>. USE TypeParts
<1>1. CASE FailToLoad \/ FailToAssemble \/ Leave \/ GiveUp
  <2>1. Ends /\ UNCHANGED disk
    BY <1>1 DEF FailToLoad, FailToAssemble, Leave, GiveUp
  <2>2. DiskTyped'
    BY <2>1 DEF disk, DiskTyped
  <2>. QED BY <2>1, <2>2, EndsTyped, TypePartsAfter
<1>2. CASE LoadContracts
  BY <1>2 DEF LoadContracts, disk, TypeOK
<1>3. CASE FetchContracts
  <2>1. Universe[request] \subseteq Contracts
    BY <1>3 DEF FetchContracts, Listing, Contracts, TypeOK
  <2>2. /\ page' \in 0..(MaxPages - 1)
        /\ attempts' \in 0..(MaxRetries - 1) /\ rateLimits' \in 0..MaxRateLimits
    BY <1>3, LimitAssumption DEF FetchContracts
  <2>3. DiskTyped' /\ ProcessTyped'
    BY <1>3, <2>1, <2>2 DEF FetchContracts, Listing, DiskTyped, ProcessTyped
  <2>. QED BY <2>3, TypePartsAfter
<1>4. CASE ReceivePage \/ RetryError \/ RetryRateLimit \/ \E t \in Pending : Skip(t) \/ Receive(t)
  <2>1. UNCHANGED <<disk, pc, request, size, resume, universe, index, done, starts, startedOver>>
    BY <1>4 DEF ReceivePage, Skip, Receive, RetryError, RetryRateLimit
  <2>2. /\ page' \in 0..(MaxPages - 1)
        /\ attempts' \in 0..(MaxRetries - 1) /\ rateLimits' \in 0..MaxRateLimits
    BY <1>4, LimitAssumption
       DEF ReceivePage, Skip, Receive, RetryError, RetryRateLimit, Collect, TypeOK
  <2>3. batch' \subseteq Contracts
    BY <1>4 DEF ReceivePage, Skip, Receive, RetryError, RetryRateLimit, Collect, Pending, TypeOK
  <2>4. ProcessTyped'
    BY <2>1, <2>2, <2>3 DEF ProcessTyped
  <2>5. DiskTyped'
    BY <2>1 DEF disk, DiskTyped
  <2>. QED BY <2>4, <2>5, TypePartsAfter
<1>5. CASE WritePart
  <2>1. rows' \subseteq Nat \X Requests \X Contracts
    BY <1>5, PartType DEF WritePart, BatchIsDue, TypeOK
  <2>2. DiskTyped'
    BY <1>5, <2>1 DEF WritePart, DiskTyped
  <2>3. ProcessTyped'
    BY <1>5 DEF WritePart, BatchIsDue, ProcessTyped
  <2>. QED BY <2>2, <2>3, TypePartsAfter
<1>6. CASE SaveBatch \/ Publish
  <2>1. /\ pc \in {"save", "publish"} /\ pc' \in {"fetch", "complete"} /\ WriteCheckpoint
        /\ UNCHANGED <<listed, list, rows, unreadable, dataset, memory, starts>>
    BY <1>6 DEF SaveBatch, Publish
  <2>2. DiskTyped'
    BY <2>1 DEF WriteCheckpoint, DiskTyped, ProcessTyped
  <2>3. ProcessTyped'
    BY <2>1 DEF WriteCheckpoint, memory, ProcessTyped
  <2>. QED BY <2>2, <2>3, TypePartsAfter
<1>7. CASE Assemble
  <2>1. dataset' \subseteq Requests \X Contracts
    BY <1>7 DEF Assemble, TypeOK
  <2>2. DiskTyped'
    BY <1>7, <2>1 DEF Assemble, DiskTyped
  <2>3. ProcessTyped'
    BY <1>7 DEF Assemble, AllFetched, memory, ProcessTyped
  <2>. QED BY <2>2, <2>3, TypePartsAfter
<1>. QED BY <1>1, <1>2, <1>3, <1>4, <1>5, <1>6, <1>7 DEF Step

LEMMA TypeInvariance == Spec => []TypeOK
<1>1. TypeOK /\ [Next]_vars => TypeOK'
  <2>1. TypeOK /\ UNCHANGED vars => TypeOK'
    BY DEF vars, disk, memory, TypeOK
  <2>. QED BY <2>1, StepTyped, CrashesTyped, StartsTyped DEF Next
<1>. QED BY TypeInit, <1>1, PTL DEF Spec

\* Whatever is left by earlier runs, files and memory hold contracts that the service lists
\* for some request, and the retries of request_json stay within their limits.
THEOREM BackfillTypeCorrect == Spec => []TypeOK
BY TypeInvariance

\* Used for one request only, a directory whose contracts file is whole ends up with exactly
\* what was asked for, however often and wherever the runs before ended
\* (backfill_massive_spx_options).
THEOREM OneRequestIsAnswered ==
  ASSUME \A r, s \in Requests : r = s
  PROVE  Spec => []ExactUnlessCut
<1>1. TypeOK /\ IInv => ExactUnlessCut
  <2>. SUFFICES ASSUME TypeOK, IInv, pc = "complete", ~ startedOver, list = Universe[request]
                PROVE  dataset = {<<request, t>> : t \in Universe[request]}
    BY DEF ExactUnlessCut
  <2>1. \A t \in Universe[request] : <<request, t>> \in dataset
    BY DEF IInv, Assembled, Sound
  <2>2. Requests = {request}
    BY DEF TypeOK
  <2>3. Contracts = Universe[request]
    BY <2>2 DEF Contracts
  <2>4. dataset \subseteq {request} \X Universe[request]
    BY <2>2, <2>3 DEF TypeOK
  <2>. QED BY <2>1, <2>4
<1>. QED BY <1>1, TypeInvariance, InitHolds, NextHolds, PTL DEF Spec

----------------------------------------------------------------------------
(***************************************************************************)
(* A run wears out: the counters of request_json are within their limits   *)
(* and the sets of contracts are finite, so what a running program has     *)
(* before it is a number, and each of its steps makes it smaller.          *)
(***************************************************************************)
Countable ==
  /\ pc \in {"down", "contracts", "fetch", "save", "publish", "complete"}
  /\ pc # "down" => request \in Requests
  /\ page \in 0..(MaxPages - 1)
  /\ attempts \in 0..(MaxRetries - 1) /\ rateLimits \in 0..MaxRateLimits
  /\ IsFiniteSet(list) /\ IsFiniteSet(universe) /\ IsFiniteSet(batch)

LEMMA CountableInit == Init => Countable
<1>. SUFFICES ASSUME Init PROVE Countable
  OBVIOUS
<1>1. IsFiniteSet({})
  BY FS_EmptySet
<1>2. /\ page \in 0..(MaxPages - 1)
      /\ attempts \in 0..(MaxRetries - 1) /\ rateLimits \in 0..MaxRateLimits
  BY LimitAssumption DEF Init
<1>. QED BY <1>1, <1>2 DEF Init, Countable

LEMMA CountableStep == Countable /\ [Next]_vars => Countable'
<1>. SUFFICES ASSUME Countable, [Next]_vars PROVE Countable'
  OBVIOUS
<1>1. ASSUME Ends, IsFiniteSet(list') PROVE Countable'
  <2>1. /\ page' \in 0..(MaxPages - 1)
        /\ attempts' \in 0..(MaxRetries - 1) /\ rateLimits' \in 0..MaxRateLimits
    BY <1>1, LimitAssumption DEF Ends
  <2>2. IsFiniteSet(universe') /\ IsFiniteSet(batch')
    BY <1>1, FS_EmptySet DEF Ends
  <2>. QED BY <1>1, <2>1, <2>2 DEF Ends, Countable
<1>2. ASSUME NEW r \in Requests, Refuse(r) PROVE Countable'
  BY <1>2 DEF Refuse, disk, memory, Countable
<1>3. ASSUME NEW r \in Requests, NEW n \in BatchSizes, Resume(r, n) \/ StartOver(r, n)
      PROVE  Countable'
  BY <1>3 DEF Resume, StartOver, Begin, disk, Countable
<1>4. CASE LoadContracts
  BY <1>4 DEF LoadContracts, disk, Countable
<1>5. CASE FetchContracts
  <2>1. IsFiniteSet(Universe[request])
    BY <1>5, UniverseAssumption DEF FetchContracts, Listing, Countable
  <2>2. /\ page' \in 0..(MaxPages - 1)
        /\ attempts' \in 0..(MaxRetries - 1) /\ rateLimits' \in 0..MaxRateLimits
    BY <1>5, LimitAssumption DEF FetchContracts
  <2>. QED BY <1>5, <2>1, <2>2 DEF FetchContracts, Listing, Countable
<1>6. ASSUME NEW t \in Pending, Skip(t) \/ Receive(t) PROVE Countable'
  <2>1. /\ batch' = batch \cup {t} /\ attempts' = 0 /\ rateLimits' = 0
        /\ UNCHANGED <<pc, request, list, universe, page>>
    BY <1>6 DEF Skip, Receive, Collect, disk
  <2>2. IsFiniteSet(batch')
    BY <2>1, FS_AddElement DEF Countable
  <2>3. attempts' \in 0..(MaxRetries - 1) /\ rateLimits' \in 0..MaxRateLimits
    BY <2>1, LimitAssumption
  <2>. QED BY <2>1, <2>2, <2>3 DEF Countable
<1>7. CASE ReceivePage \/ RetryError \/ RetryRateLimit
  <2>1. UNCHANGED <<pc, request, list, universe, batch>>
    BY <1>7 DEF ReceivePage, RetryError, RetryRateLimit, disk
  <2>2. /\ page' \in 0..(MaxPages - 1)
        /\ attempts' \in 0..(MaxRetries - 1) /\ rateLimits' \in 0..MaxRateLimits
    BY <1>7, LimitAssumption DEF ReceivePage, RetryError, RetryRateLimit, Countable
  <2>. QED BY <2>1, <2>2 DEF Countable
<1>8. CASE WritePart
  <2>1. IsFiniteSet(batch')
    BY <1>8, FS_EmptySet DEF WritePart
  <2>. QED BY <1>8, <2>1 DEF WritePart, BatchIsDue, Countable
<1>9. CASE SaveBatch \/ Assemble \/ Publish
  BY <1>9 DEF SaveBatch, Assemble, AllFetched, Publish, memory, Countable
<1>10. CASE \/ FailToLoad \/ FailToAssemble \/ Leave \/ Crash \/ CrashInPart
            \/ CrashInCheckpoint \/ CrashInDataset \/ GiveUp
  <2>1. Ends /\ list' = list
    BY <1>10 DEF FailToLoad, FailToAssemble, Leave, Crash, CrashInPart, CrashInCheckpoint,
                 CrashInDataset, GiveUp, disk
  <2>. QED BY <1>1, <2>1 DEF Countable
<1>11. CASE CrashInContracts
  <2>1. Ends /\ (list' = list \/ list' \subseteq Universe[request])
    BY <1>11 DEF CrashInContracts, Prefix
  <2>2. IsFiniteSet(Universe[request])
    BY <1>11, UniverseAssumption DEF CrashInContracts, Listing, Countable
  <2>3. IsFiniteSet(list')
    BY <2>1, <2>2, FS_Subset DEF Countable
  <2>. QED BY <1>1, <2>1, <2>3
<1>12. CASE UNCHANGED vars
  BY <1>12 DEF vars, disk, memory, Countable
<1>. QED
  BY <1>2, <1>3, <1>4, <1>5, <1>6, <1>7, <1>8, <1>9, <1>10, <1>11, <1>12
     DEF Next, Step, Crashes, Starts

\* What a running program still asks for: contracts, and pages of their list.
Awaited == Ahead \ (done \cup batch)
Asked == PagesLeft + Cardinality(Awaited)
Factor == MaxRetries + MaxRateLimits + 3
Besides == 2 * Cardinality(batch) + RetriesLeft + Rest

WorkFacts ==
  /\ IsFiniteSet(Awaited) /\ Cardinality(Awaited) \in Nat /\ PagesLeft \in Nat /\ Asked \in Nat
  /\ Cardinality(batch) \in Nat
  /\ RetriesLeft \in 0..(MaxRetries + MaxRateLimits) /\ Rest \in 1..5
  /\ Factor \in Nat /\ Factor * Asked \in Nat /\ Besides \in Nat \ {0}
  /\ WorkLeft = Factor * Asked + Besides /\ WorkLeft \in Nat \ {0}

LEMMA WorkIsNatural == Countable /\ pc # "down" => WorkFacts
<1>. SUFFICES ASSUME Countable, pc # "down" PROVE WorkFacts
  OBVIOUS
<1>1. IsFiniteSet(Ahead)
  <2>1. CASE pc = "contracts"
    <3>1. IsFiniteSet(Universe[request])
      BY UniverseAssumption DEF Countable
    <3>. QED BY <2>1, <3>1 DEF Countable, Ahead
  <2>2. CASE pc # "contracts"
    BY <2>2 DEF Countable, Ahead
  <2>. QED BY <2>1, <2>2
<1>2. IsFiniteSet(Awaited)
  BY <1>1, FS_Difference DEF Awaited
<1>3. Cardinality(Awaited) \in Nat /\ Cardinality(batch) \in Nat
  BY <1>2, FS_CardinalityType DEF Countable
<1>4. RetriesLeft \in 0..(MaxRetries + MaxRateLimits)
  BY LimitAssumption DEF Countable, RetriesLeft
<1>5. Rest \in 1..5
  BY DEF Countable, Rest
<1>6. Factor \in Nat
  BY LimitAssumption DEF Factor
<1>7. PagesLeft \in Nat /\ Asked \in Nat
  <2>1. PagesLeft \in Nat
    BY LimitAssumption DEF Countable, PagesLeft
  <2>. QED BY <1>3, <2>1 DEF Asked
<1>8. Factor * Asked \in Nat
  BY <1>6, <1>7
<1>9. Besides \in Nat \ {0}
  BY <1>3, <1>4, <1>5, LimitAssumption DEF Besides
<1>10. WorkLeft = Factor * Asked + Besides
  <2>. DEFINE n == Factor * Asked  k == Cardinality(batch)
  <2>1. WorkLeft = n + 2 * k + RetriesLeft + Rest
    BY DEF WorkLeft, Factor, Asked, Awaited
  <2>2. n \in Nat /\ k \in Nat /\ RetriesLeft \in Int /\ Rest \in Int /\ Besides = 2 * k + RetriesLeft + Rest
    BY <1>3, <1>4, <1>5, <1>8, LimitAssumption DEF Besides
  <2>3. WorkLeft = n + Besides
    <3>. HIDE DEF n, k
    <3>. QED BY <2>1, <2>2
  <2>. QED BY <2>3
<1>11. WorkLeft \in Nat \ {0}
  BY <1>8, <1>9, <1>10
<1>. QED BY <1>2, <1>3, <1>4, <1>5, <1>6, <1>7, <1>8, <1>9, <1>10, <1>11 DEF WorkFacts

LEMMA WorkStaysNatural == (Countable /\ pc # "down" => WorkFacts)'
BY WorkIsNatural, PTL

\* Fewer things to ask for pay for anything that is less than the factor.
LEMMA LessIsLess ==
  \A f, n, m, a, b, v, w \in Nat :
    m < n /\ b < a + f /\ v = f * n + a /\ w = f * m + b => w \in 0..(v - 1)
<1>. SUFFICES ASSUME NEW f \in Nat, NEW n \in Nat, NEW m \in Nat, NEW a \in Nat, NEW b \in Nat,
                     NEW v \in Nat, NEW w \in Nat,
                     m < n, b < a + f, v = f * n + a, w = f * m + b
              PROVE  w < v
  OBVIOUS
<1>. DEFINE d == n - m - 1
<1>1. d \in Nat /\ n = m + 1 + d
  OBVIOUS
<1>2. f * d \in Nat /\ f * m \in Nat
  BY <1>1
<1>3. f * n = f * m + f + f * d
  <2>. HIDE DEF d
  <2>. QED BY <1>1
<1>4. \A i, j, k \in Nat : k = i + f + j => i + b < k + a
  OBVIOUS
<1>5. f * n \in Nat
  OBVIOUS
<1>. HIDE DEF d
<1>. QED BY <1>2, <1>3, <1>4, <1>5, Zenon

\* A step that asks for as much as before and has less to do besides.
LEMMA LessBesides ==
  ASSUME Countable, Countable', pc # "down", pc' # "down", Asked' = Asked,
         Besides' < Besides
  PROVE  WorkLeft' \in 0..(WorkLeft - 1)
<1>. DEFINE n == Factor * Asked
<1>1. n \in Nat /\ WorkLeft = n + Besides /\ Besides \in Nat /\ WorkLeft \in Nat
  BY WorkIsNatural DEF WorkFacts
<1>2. WorkLeft' = n + Besides' /\ Besides' \in Nat /\ WorkLeft' \in Nat
  BY WorkStaysNatural DEF WorkFacts, Factor
<1>3. \A i, a, b, v, w \in Nat : v = i + a /\ w = i + b /\ b < a => w \in 0..(v - 1)
  OBVIOUS
<1>. HIDE DEF n
<1>. QED BY <1>1, <1>2, <1>3, Zenon

\* A step that was given something it asked for.
LEMMA LessAsked ==
  ASSUME Countable, Countable', pc # "down", pc' # "down", Asked' < Asked,
         Besides' < Besides + Factor
  PROVE  WorkLeft' \in 0..(WorkLeft - 1)
<1>1. /\ WorkLeft = Factor * Asked + Besides /\ Factor \in Nat /\ Asked \in Nat
      /\ Besides \in Nat /\ WorkLeft \in Nat
  BY WorkIsNatural DEF WorkFacts
<1>2. /\ WorkLeft' = Factor * Asked' + Besides' /\ Asked' \in Nat
      /\ Besides' \in Nat /\ WorkLeft' \in Nat
  BY WorkStaysNatural DEF WorkFacts, Factor
<1>. QED BY <1>1, <1>2, LessIsLess, Zenon

\* Each step of a running program leaves less to do.
LEMMA StepWearsOut ==
  ASSUME Countable, Countable', Step
  PROVE  WorkLeft' \in 0..(WorkLeft - 1)
<1>1. ASSUME pc # "down", Ends PROVE WorkLeft' \in 0..(WorkLeft - 1)
  <2>1. WorkLeft' = 0
    BY <1>1 DEF Ends, WorkLeft
  <2>2. WorkLeft \in Nat \ {0}
    BY <1>1, WorkIsNatural DEF WorkFacts
  <2>. QED BY <2>1, <2>2
<1>2. CASE FailToLoad \/ FailToAssemble \/ Leave \/ GiveUp
  BY <1>1, <1>2 DEF FailToLoad, FailToAssemble, AllFetched, Leave, GiveUp, Requesting, Listing,
                    Asking, Current
<1>3. CASE LoadContracts
  <2>1. /\ pc = "contracts" /\ pc' = "fetch" /\ universe' = Ahead /\ Cached
        /\ UNCHANGED <<done, batch, attempts, rateLimits>>
    BY <1>3 DEF LoadContracts, Ahead
  <2>2. Asked' = Asked
    BY <2>1 DEF Asked, Awaited, Ahead, PagesLeft, Listing
  <2>3. RetriesLeft' = RetriesLeft /\ Rest = 5 /\ Rest' = 3
    BY <2>1 DEF RetriesLeft, Rest
  <2>4. Besides' < Besides
    <3>1. RetriesLeft \in Int /\ Cardinality(batch) \in Nat
      BY <2>1, WorkIsNatural DEF WorkFacts
    <3>. QED BY <2>1, <2>3, <3>1 DEF Besides
  <2>. QED BY <2>1, <2>2, <2>4, LessBesides
<1>4. CASE ReceivePage \/ FetchContracts
  <2>1. /\ pc = "contracts" /\ Listing /\ pc' \in {"contracts", "fetch"}
        /\ attempts' = 0 /\ rateLimits' = 0 /\ batch' = batch /\ done' = done
    BY <1>4 DEF ReceivePage, FetchContracts, Listing
  <2>2. PagesLeft' < PagesLeft
    <3>1. MaxPages \in Nat /\ page \in 0..(MaxPages - 1)
      BY LimitAssumption DEF Countable
    <3>2. PagesLeft = MaxPages - page
      BY <2>1 DEF PagesLeft
    <3>3. PagesLeft' = 0 \/ (PagesLeft' = MaxPages - page' /\ page' = page + 1)
      BY <1>4 DEF ReceivePage, FetchContracts, PagesLeft, Listing
    <3>. QED BY <3>1, <3>2, <3>3
  <2>3. Awaited' = Awaited
    BY <1>4, <2>1 DEF ReceivePage, FetchContracts, Listing, Cached, Awaited, Ahead, disk
  <2>4. Asked' < Asked
    <3>1. /\ Asked = PagesLeft + Cardinality(Awaited) /\ Asked' = PagesLeft' + Cardinality(Awaited)
          /\ Cardinality(Awaited) \in Nat /\ PagesLeft \in Nat
      BY <2>1, <2>3, WorkIsNatural DEF Asked, WorkFacts
    <3>2. PagesLeft' \in Nat
      BY <2>1, WorkStaysNatural DEF WorkFacts
    <3>3. \A i, j, k, v, w \in Nat : i < j /\ v = j + k /\ w = i + k => w < v
      OBVIOUS
    <3>4. Asked \in Nat /\ Asked' \in Nat
      BY <2>1, WorkIsNatural, WorkStaysNatural DEF WorkFacts
    <3>. QED BY <2>2, <3>1, <3>2, <3>3, <3>4, Zenon
  <2>5. Besides' < Besides + Factor
    <3>1. /\ attempts \in 0..(MaxRetries - 1) /\ rateLimits \in 0..MaxRateLimits
          /\ Cardinality(batch) \in Nat
      BY <2>1, WorkIsNatural DEF WorkFacts, Countable
    <3>2. MaxRetries \in Nat \ {0} /\ MaxRateLimits \in Nat
      BY LimitAssumption
    <3>. QED BY <2>1, <3>1, <3>2 DEF Besides, RetriesLeft, Rest, Factor
  <2>. QED BY <2>1, <2>4, <2>5, LessAsked
<1>5. ASSUME NEW t \in Pending, Skip(t) \/ Receive(t) PROVE WorkLeft' \in 0..(WorkLeft - 1)
  <2>1. /\ pc = "fetch" /\ batch' = batch \cup {t} /\ UNCHANGED <<pc, universe, done>>
    BY <1>5 DEF Skip, Receive, Collect, Asking, Current
  <2>2. t \notin batch /\ t \in Awaited /\ Awaited' = Awaited \ {t}
    BY <2>1 DEF Pending, Awaited, Ahead
  <2>3. Cardinality(Awaited') = Cardinality(Awaited) - 1
    BY <2>1, <2>2, WorkIsNatural, FS_RemoveElement DEF WorkFacts
  <2>4. Cardinality(batch') = Cardinality(batch) + 1
    BY <2>1, <2>2, FS_AddElement DEF Countable
  <2>5. Asked' < Asked
    <3>1. PagesLeft = 0 /\ PagesLeft' = 0
      BY <2>1 DEF PagesLeft, Listing
    <3>2. Cardinality(Awaited) \in Nat
      BY <2>1, WorkIsNatural DEF WorkFacts
    <3>3. Asked = Cardinality(Awaited) /\ Asked' = Cardinality(Awaited) - 1
      BY <2>3, <3>1, <3>2 DEF Asked
    <3>. QED BY <3>2, <3>3
  <2>6. Besides' < Besides + Factor
    <3>1. /\ attempts \in 0..(MaxRetries - 1) /\ rateLimits \in 0..MaxRateLimits
          /\ attempts' = 0 /\ rateLimits' = 0 /\ Cardinality(batch) \in Nat
      BY <1>5, <2>1, WorkIsNatural DEF WorkFacts, Countable, Skip, Receive, Collect
    <3>2. MaxRetries \in Nat \ {0} /\ MaxRateLimits \in Nat
      BY LimitAssumption
    <3>. QED BY <2>1, <2>4, <3>1, <3>2 DEF Besides, RetriesLeft, Rest, Factor
  <2>. QED BY <2>1, <2>5, <2>6, LessAsked
<1>6. CASE RetryError \/ RetryRateLimit
  <2>1. /\ pc \in {"contracts", "fetch"}
        /\ UNCHANGED <<pc, request, resume, listed, list, page, universe, done, batch>>
        /\ \/ attempts' = attempts + 1 /\ rateLimits' = rateLimits
           \/ rateLimits' = rateLimits + 1 /\ attempts' = attempts
    BY <1>6 DEF RetryError, RetryRateLimit, Requesting, Listing, Asking, Current, disk
  <2>2. Asked' = Asked
    BY <2>1 DEF Asked, Awaited, Ahead, PagesLeft, Listing, Cached
  <2>3. /\ attempts \in Int /\ rateLimits \in Int /\ Cardinality(batch) \in Int
        /\ MaxRetries \in Int /\ MaxRateLimits \in Int
    BY <2>1, WorkIsNatural, LimitAssumption DEF WorkFacts, Countable
  <2>4. Besides' < Besides
    BY <2>1, <2>3 DEF Besides, RetriesLeft, Rest
  <2>. QED BY <2>1, <2>2, <2>4, LessBesides
<1>7. CASE WritePart
  <2>1. /\ pc = "fetch" /\ pc' = "save" /\ batch # {} /\ batch' = {} /\ done' = done \cup batch
        /\ UNCHANGED <<universe, attempts, rateLimits>>
    BY <1>7 DEF WritePart, BatchIsDue
  <2>2. Asked' = Asked
    BY <2>1 DEF Asked, Awaited, Ahead, PagesLeft, Listing
  <2>3. Cardinality(batch) \in Nat /\ Cardinality(batch) # 0 /\ Cardinality(batch') = 0
    BY <2>1, FS_EmptySet, FS_CardinalityType DEF Countable
  <2>4. attempts \in Int /\ rateLimits \in Int /\ MaxRetries \in Int /\ MaxRateLimits \in Int
    BY LimitAssumption DEF Countable
  <2>5. Besides' < Besides
    BY <2>1, <2>3, <2>4 DEF Besides, RetriesLeft, Rest
  <2>. QED BY <2>1, <2>2, <2>5, LessBesides
<1>8. CASE SaveBatch \/ Assemble \/ Publish
  <2>1. /\ UNCHANGED <<universe, done, batch, attempts, rateLimits>>
        /\ <<pc, pc'>> \in {<<"save", "fetch">>, <<"fetch", "publish">>, <<"publish", "complete">>}
    BY <1>8 DEF SaveBatch, Assemble, AllFetched, Publish, memory
  <2>2. Asked' = Asked
    <3>1. Ahead = universe /\ Ahead' = universe' /\ PagesLeft = 0 /\ PagesLeft' = 0
      BY <2>1 DEF Ahead, PagesLeft, Listing
    <3>. QED BY <2>1, <3>1 DEF Asked, Awaited
  <2>3. /\ attempts \in Int /\ rateLimits \in Int /\ Cardinality(batch) \in Int
        /\ MaxRetries \in Int /\ MaxRateLimits \in Int
    BY <2>1, WorkIsNatural, LimitAssumption DEF WorkFacts, Countable
  <2>4. Besides' < Besides
    BY <2>1, <2>3 DEF Besides, RetriesLeft, Rest
  <2>. QED BY <2>1, <2>2, <2>4, LessBesides
<1>. QED BY <1>2, <1>3, <1>4, <1>5, <1>6, <1>7, <1>8 DEF Step

\* Whatever fails and is tried again, every step of a running program brings its end
\* nearer (request_json, backfill_massive_spx_options).
THEOREM RunsEndInTime == Spec => RunsWearOut
<1>1. Countable /\ [Next]_vars => [Step => WorkLeft' \in 0..(WorkLeft - 1)]_vars
  BY CountableStep, StepWearsOut
<1>. QED BY <1>1, CountableInit, CountableStep, PTL DEF Spec, RunsWearOut

=============================================================================
