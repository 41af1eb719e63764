---------------------------- MODULE ChainBackfill ----------------------------
(***************************************************************************)
(* The backfill of option history (corridor/data/massive_options.py, run   *)
(* by run_massive_spx_backfill.py): it stores the list of contracts, asks  *)
(* for the bars of one contract after the other, writes a part file and a  *)
(* checkpoint after every batch, and joins the parts in the end.  The      *)
(* process may end anywhere, also in the middle of a write, and is then    *)
(* started again in the same directory, perhaps for another request.       *)
(*                                                                         *)
(* A request stands for what the checkpoint is validated against: date     *)
(* window, underlyings and strategy filter; all use one output format,     *)
(* which also names the files.  Contracts are numbered in the order of the *)
(* contracts file.  A row <<i, r, t>> of the part files is the history of  *)
(* contract t in the window of request r, stored in part i.                *)
(***************************************************************************)
EXTENDS Integers, FiniteSets

CONSTANTS
  Requests,       \* the requests that the directory is used for
  Universe,       \* Universe[r]: the contracts the service lists for r
  NoWindow,       \* NoWindow[r]: the contracts without a trade date that matters to r
  BatchSizes,     \* the values of --batch-size
  Resumes,        \* the values of cfg.resume: FALSE stands for --no-resume
  MaxRetries,     \* max_retries of the client
  MaxRateLimits,  \* max_rate_limit_retries
  MaxPages,       \* the pages of a list of contracts, over all underlyings that are tried: a
                  \* bound on the service, as the code has none
  MaxStarts       \* how often the program is run: bounds the model

ASSUME UniverseAssumption ==
  /\ Universe \in [Requests -> SUBSET Nat] /\ NoWindow \in [Requests -> SUBSET Nat]
  /\ \A r \in Requests : Universe[r] # {} /\ IsFiniteSet(Universe[r])
ASSUME LimitAssumption ==
  /\ BatchSizes \subseteq Nat \ {0} /\ Resumes \subseteq BOOLEAN /\ MaxRetries \in Nat \ {0}
  /\ MaxRateLimits \in Nat /\ MaxPages \in Nat \ {0} /\ MaxStarts \in Nat

NoRequest == "no request"
Contracts == UNION {Universe[r] : r \in Requests}

VARIABLES
  \* what is on the disk
  listed,       \* contracts file: "none", "torn" (unreadable) or "file"
  list,         \* the contracts it holds
  rows,         \* the rows of the part files
  unreadable,   \* the parts that cannot be parsed
  saved,        \* checkpoint file: "none", "torn" or "file"
  savedRequest, savedIndex, savedDone,    \* what it holds
  dataset,      \* the rows of the final dataset
  \* the running program
  pc, request, size, resume, universe, index, done, batch,
  page,         \* the pages of the list received so far
  attempts, rateLimits,    \* of the request to the service at hand
  starts,
  startedOver   \* not in the code: --no-resume was given, and no checkpoint that starts
                \* over has been written since

disk == <<listed, list, rows, unreadable, saved, savedRequest, savedIndex, savedDone, dataset>>
memory == <<request, size, resume, universe, index, done, batch, page, attempts, rateLimits>>
vars == <<disk, pc, memory, starts, startedOver>>

Init ==
  /\ listed = "none" /\ list = {} /\ rows = {} /\ unreadable = {}
  /\ saved = "none" /\ savedRequest = NoRequest /\ savedIndex = 0 /\ savedDone = {}
  /\ dataset = {}
  /\ pc = "down" /\ request = NoRequest /\ size = 0 /\ resume = TRUE /\ universe = {}
  /\ index = 0 /\ done = {} /\ batch = {} /\ page = 0 /\ attempts = 0 /\ rateLimits = 0
  /\ starts = 0 /\ startedOver = FALSE

\* The process ends and its memory is lost.
Ends ==
  /\ pc' = "down" /\ request' = NoRequest /\ size' = 0 /\ resume' = TRUE /\ universe' = {}
  /\ index' = 0 /\ done' = {} /\ batch' = {} /\ page' = 0 /\ attempts' = 0 /\ rateLimits' = 0
  /\ UNCHANGED <<starts, startedOver>>

----------------------------------------------------------------------------
(***************************************************************************)
(* The start (_load_checkpoint, _validate_checkpoint, _prepare_contracts_  *)
(* frame).                                                                 *)
(***************************************************************************)
\* Mutant: the checkpoint is not validated.
AcceptsAny(r) == saved # "torn"

Accepts(r) == saved = "none" \/ (saved = "file" /\ savedRequest = r)

\* Mutant: a resumed run numbers its parts from zero.
FromZero == 0

ResumedIndex == IF saved = "file" THEN savedIndex ELSE 0
ResumedDone == IF saved = "file" THEN savedDone ELSE {}

Starting == pc = "down" /\ starts < MaxStarts /\ starts' = starts + 1

Begin(r, n) ==
  /\ pc' = "contracts" /\ request' = r /\ size' = n
  /\ UNCHANGED <<disk, universe, batch, page, attempts, rateLimits>>

Resume(r, n) ==
  /\ Starting /\ TRUE \in Resumes /\ Accepts(r)
  /\ Begin(r, n) /\ resume' = TRUE
  /\ index' = ResumedIndex /\ done' = ResumedDone
  /\ UNCHANGED startedOver

\* --no-resume: neither checkpoint nor contracts are read, and nothing is removed.
StartOver(r, n) ==
  /\ Starting /\ FALSE \in Resumes
  /\ Begin(r, n) /\ resume' = FALSE
  /\ index' = 0 /\ done' = {}
  /\ startedOver' = TRUE

\* A checkpoint that does not parse, or is another request's, ends the run.
Refuse(r) ==
  /\ Starting /\ TRUE \in Resumes /\ ~ Accepts(r)
  /\ UNCHANGED <<disk, pc, memory, startedOver>>

Cached == resume /\ listed # "none"

\* A file without contracts is of no use unless the checkpoint knows their underlying.
Usable == listed = "file" /\ (list # {} \/ saved = "file")

\* A contracts file that exists is taken as it is.
LoadContracts ==
  /\ pc = "contracts" /\ Cached /\ Usable
  /\ universe' = list /\ pc' = "fetch"
  /\ UNCHANGED <<disk, request, size, resume, index, done, batch, page, attempts, rateLimits,
                 starts, startedOver>>

\* It is of no use; or the service lists no contract.
FailToLoad ==
  /\ pc = "contracts" /\ (Cached => ~ Usable)
  /\ Ends /\ UNCHANGED disk

Listing == pc = "contracts" /\ ~ Cached

\* A page of the list that names a next one (iter_paginated): each is a request of its own.
ReceivePage ==
  /\ Listing /\ page + 1 < MaxPages
  /\ page' = page + 1 /\ attempts' = 0 /\ rateLimits' = 0
  /\ UNCHANGED <<disk, pc, request, size, resume, universe, index, done, batch, starts,
                 startedOver>>

\* The last page: the list is complete and stored.
FetchContracts ==
  /\ Listing
  /\ universe' = Universe[request] /\ pc' = "fetch"
  /\ listed' = "file" /\ list' = universe'
  /\ page' = 0 /\ attempts' = 0 /\ rateLimits' = 0
  /\ UNCHANGED <<rows, unreadable, saved, savedRequest, savedIndex, savedDone, dataset,
                 request, size, resume, index, done, batch, starts, startedOver>>

----------------------------------------------------------------------------
(***************************************************************************)
(* The bars of one contract after the other.                               *)
(***************************************************************************)
Pending == universe \ (done \cup batch)
Current(t) == pc = "fetch" /\ Cardinality(batch) < size
              /\ t \in Pending /\ \A other \in Pending : t <= other

Collect(t) == batch' = batch \cup {t} /\ attempts' = 0 /\ rateLimits' = 0

Skip(t) ==
  /\ Current(t) /\ t \in NoWindow[request]
  /\ Collect(t)
  /\ UNCHANGED <<disk, pc, request, size, resume, universe, index, done, page, starts, startedOver>>

Asking(t) == Current(t) /\ t \notin NoWindow[request]

Receive(t) ==
  /\ Asking(t)
  /\ Collect(t)
  /\ UNCHANGED <<disk, pc, request, size, resume, universe, index, done, page, starts, startedOver>>

\* A request to the service is out: for a page of the list, or for the bars of a contract.
Requesting == Listing \/ \E t \in Pending : Asking(t)

\* request_json: an error is tried again while both counters allow it.
RetryError ==
  /\ Requesting /\ attempts + 1 < MaxRetries
  /\ attempts' = attempts + 1
  /\ UNCHANGED <<disk, pc, request, size, resume, universe, index, done, batch, page, rateLimits,
                 starts, startedOver>>

\* Mutant: a rate limit is waited out without being counted.
WaitUncounted ==
  /\ Requesting
  /\ attempts' = attempts /\ rateLimits' = 1 - rateLimits
  /\ UNCHANGED <<disk, pc, request, size, resume, universe, index, done, batch, page, starts,
                 startedOver>>

RetryRateLimit ==
  /\ Requesting /\ rateLimits + 1 <= MaxRateLimits
  /\ rateLimits' = rateLimits + 1
  /\ UNCHANGED <<disk, pc, request, size, resume, universe, index, done, batch, page, attempts,
                 starts, startedOver>>

\* The last attempt failed, or the key is not entitled.
GiveUp == Requesting /\ Ends /\ UNCHANGED disk

----------------------------------------------------------------------------
(***************************************************************************)
(* The part file and the checkpoint of a batch (_flush_batch), and the     *)
(* final dataset.                                                          *)
(***************************************************************************)
BatchIsDue == pc = "fetch" /\ batch # {} /\ (Cardinality(batch) >= size \/ Pending = {})

PartWith(tickers) ==
  {row \in rows : row[1] # index} \cup {<<index, request, t>> : t \in tickers}

WritePart ==
  /\ BatchIsDue
  /\ rows' = PartWith(batch) /\ unreadable' = unreadable \ {index}
  /\ index' = index + 1 /\ done' = done \cup batch /\ batch' = {}
  /\ pc' = "save"
  /\ UNCHANGED <<listed, list, saved, savedRequest, savedIndex, savedDone, dataset,
                 request, size, resume, universe, page, attempts, rateLimits, starts,
                 startedOver>>

WriteCheckpoint ==
  /\ saved' = "file" /\ savedRequest' = request
  /\ savedIndex' = index /\ savedDone' = done
  /\ startedOver' = (startedOver /\ resume)

SaveBatch ==
  /\ pc = "save" /\ WriteCheckpoint /\ pc' = "fetch"
  /\ UNCHANGED <<listed, list, rows, unreadable, dataset, memory, starts>>

\* Mutant: the loop ends before the last batch is due.
EndsEarly == pc = "fetch" /\ Pending = {}

AllFetched == pc = "fetch" /\ Pending = {} /\ batch = {}

Assemble ==
  /\ AllFetched /\ unreadable = {}
  /\ dataset' = {<<row[2], row[3]>> : row \in rows}
  /\ pc' = "publish"
  /\ UNCHANGED <<listed, list, rows, unreadable, saved, savedRequest, savedIndex, savedDone,
                 memory, starts, startedOver>>

FailToAssemble == AllFetched /\ unreadable # {} /\ Ends /\ UNCHANGED disk

Publish ==
  /\ pc = "publish" /\ WriteCheckpoint /\ pc' = "complete"
  /\ UNCHANGED <<listed, list, rows, unreadable, dataset, memory, starts>>

Leave == pc = "complete" /\ Ends /\ UNCHANGED disk

----------------------------------------------------------------------------
(***************************************************************************)
(* The process is ended between two steps, or while a file is written: a   *)
(* file is left that cannot be read (parquet), or that can be read as far  *)
(* as it goes (csv).                                                       *)
(***************************************************************************)
Running == pc \notin {"down", "complete"}

Crash == Running /\ Ends /\ UNCHANGED disk

Prefix(tickers) == {{t \in tickers : t < k} : k \in tickers}

CrashInContracts ==
  /\ Listing /\ Ends
  /\ \/ listed' = "torn" /\ UNCHANGED list
     \/ listed' = "file" /\ list' \in Prefix(Universe[request])
  /\ UNCHANGED <<rows, unreadable, saved, savedRequest, savedIndex, savedDone, dataset>>

CrashInPart ==
  /\ BatchIsDue /\ Ends
  /\ \/ rows' = PartWith({}) /\ unreadable' = unreadable \cup {index}
     \/ \E some \in Prefix(batch) : rows' = PartWith(some) /\ unreadable' = unreadable \ {index}
  /\ UNCHANGED <<listed, list, saved, savedRequest, savedIndex, savedDone, dataset>>

CrashInCheckpoint ==
  /\ pc \in {"save", "publish"} /\ Ends
  /\ saved' = "torn" /\ savedRequest' = NoRequest /\ savedIndex' = 0 /\ savedDone' = {}
  /\ UNCHANGED <<listed, list, rows, unreadable, dataset>>

CrashInDataset ==
  /\ AllFetched /\ unreadable = {} /\ Ends
  /\ dataset' = {}
  /\ UNCHANGED <<listed, list, rows, unreadable, saved, savedRequest, savedIndex, savedDone>>

----------------------------------------------------------------------------
Step ==
  \/ LoadContracts \/ FailToLoad \/ ReceivePage \/ FetchContracts
  \/ \E t \in Pending : Skip(t) \/ Receive(t)
  \/ RetryError \/ RetryRateLimit \/ GiveUp
  \/ WritePart \/ SaveBatch \/ Assemble \/ FailToAssemble \/ Publish \/ Leave

Crashes ==
  Crash \/ CrashInContracts \/ CrashInPart \/ CrashInCheckpoint \/ CrashInDataset

Starts ==
  \E r \in Requests : Refuse(r) \/ \E n \in BatchSizes : Resume(r, n) \/ StartOver(r, n)

Next == Step \/ Crashes \/ Starts

Spec == Init /\ [][Next]_vars

\* A running program goes on: every request to the service has a timeout.  Of the answers it
\* is assumed only that a list of contracts ends (MaxPages).
FairSpec == Spec /\ WF_vars(Step)

----------------------------------------------------------------------------
(***************************************************************************)
(* Correctness.                                                            *)
(***************************************************************************)
TypeOK ==
  /\ listed \in {"none", "torn", "file"} /\ list \subseteq Contracts
  /\ rows \subseteq Nat \X Requests \X Contracts /\ unreadable \subseteq Nat
  /\ saved \in {"none", "torn", "file"} /\ savedRequest \in Requests \cup {NoRequest}
  /\ savedIndex \in Nat /\ savedDone \subseteq Contracts
  /\ dataset \subseteq Requests \X Contracts
  /\ pc \in {"down", "contracts", "fetch", "save", "publish", "complete"}
  /\ request \in IF pc = "down" THEN {NoRequest} ELSE Requests
  /\ size \in BatchSizes \cup {0} /\ resume \in BOOLEAN /\ universe \subseteq Contracts
  /\ index \in Nat /\ done \subseteq Contracts /\ batch \subseteq Contracts
  /\ page \in 0..(MaxPages - 1)
  /\ attempts \in 0..(MaxRetries - 1) /\ rateLimits \in 0..MaxRateLimits
  /\ starts \in 0..MaxStarts /\ startedOver \in BOOLEAN

\* Every contract that the checkpoint counts as completed has its bars, for the window of
\* the checkpoint's request, in a part that can be read and that no later batch writes
\* again: wherever the program ended, resuming loses nothing (_flush_batch).  Between
\* --no-resume and the first checkpoint after it this is not so: the old checkpoint then
\* counts contracts whose part is being written again.
CompletedAreStored ==
  saved = "file" /\ ~ startedOver =>
    \A t \in savedDone : \E i \in 0..(savedIndex - 1) :
      <<i, savedRequest, t>> \in rows /\ i \notin unreadable

\* When a run reports that it is complete, the dataset holds every contract of the
\* contracts file for the window that was asked for, however often and wherever earlier
\* runs ended; unless it resumed what a run with --no-resume left before its first
\* checkpoint (backfill_massive_spx_options).
DatasetCoversContracts ==
  pc = "complete" /\ ~ startedOver => \A t \in list : <<request, t>> \in dataset

\* A checkpoint that can be read is never taken over by a resumed run of another request,
\* which also never forgets a completed contract (_validate_checkpoint).
CheckpointKeepsRequest ==
  [][ resume /\ saved = "file" /\ saved' = "file" =>
        savedRequest' = savedRequest /\ savedDone \subseteq savedDone' ]_vars

\* What a running program has before it: the pages of the list and the contracts it still asks
\* for, each of them with all its retries, the batch to be written, the retries of the request
\* at hand, and the rest of the run.
Ahead == IF pc = "contracts" THEN IF Cached THEN list ELSE Universe[request] ELSE universe

PagesLeft == IF Listing THEN MaxPages - page ELSE 0

RetriesLeft == (MaxRetries - attempts) + (MaxRateLimits - rateLimits)

Rest == CASE pc = "contracts" -> 5 [] pc = "save" -> 4 [] pc = "fetch" -> 3
          [] pc = "publish" -> 2 [] pc = "complete" -> 1

WorkLeft ==
  IF pc = "down" THEN 0
  ELSE (MaxRetries + MaxRateLimits + 3) * (PagesLeft + Cardinality(Ahead \ (done \cup batch)))
         + 2 * Cardinality(batch) + RetriesLeft + Rest

\* Every step of a running program brings its end nearer: neither an answer nor a retry of
\* request_json, neither a batch nor the resumed part of a run can be repeated.
RunsWearOut == [][ Step => WorkLeft' \in 0..(WorkLeft - 1) ]_vars

\* Every run ends: the retries of request_json cannot go on for ever.
RunsEnd == Running ~> ~ Running

\* The dataset of a complete run is the history of exactly the contracts that the service
\* lists for the request (run_massive_spx_backfill.py: "enumerating contracts first and then
\* requesting daily bars for each option ticker").
DatasetAnswersRequest ==
  pc = "complete" => dataset = {<<request, t>> : t \in Universe[request]}

\* In a directory that only one request uses this is so, unless the contracts file was cut
\* short (or a run with --no-resume ended before its first checkpoint).
ExactUnlessCut ==
  pc = "complete" /\ ~ startedOver /\ list = Universe[request] =>
    dataset = {<<request, t>> : t \in Universe[request]}

=============================================================================
