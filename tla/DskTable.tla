-------------------------------- MODULE DskTable --------------------------------
(***************************************************************************)
(* The persistent table (dsk/dsk-table.c with its default checkpoint and   *)
(* file formats).  An insertion goes to a tree in memory and to the        *)
(* journal of the checkpoint file CP.  Every cp_flush_period insertions    *)
(* the tree is dumped to a file, a new checkpoint that names all files is  *)
(* written to NEW_CP, with an empty journal, and renamed to CP.  Merges of *)
(* two neighbouring files run a bounded number of steps in every           *)
(* insertion; a file that is no longer needed is deleted, or kept as       *)
(* "defunct" until the next checkpoint.                                    *)
(*                                                                         *)
(* The process may stop between any two steps (dsk_table_destroy saves     *)
(* nothing, so it is a stop like any other) and the table is opened again. *)
(* The journal is a shared mapping whose entries count once their key      *)
(* length is stored, last, so a journal entry is added as a whole.         *)
(* Values are merged by dsk_table_std_merge: the later one wins.  The      *)
(* value of the i-th insertion is i.                                       *)
(***************************************************************************)
EXTENDS Integers, Sequences, FiniteSets, SequencesExt, FiniteSetsExt

CONSTANTS
  Keys,           \* numbers, in the order of compare
  FlushPeriod,    \* cp_flush_period: 1024
  MergeSteps,     \* steps of merging in an insertion: 512
  MaxMergeJobs,   \* max_merge_jobs: 16
  RatioLimit,     \* a is merged with b up to this ratio of sizes: about 4.2
  MaxInserts,     \* bound of the model
  MaxStops        \* bound of the model

ASSUME TableAssumption ==
  /\ Keys \subseteq Nat /\ IsFiniteSet(Keys)
  /\ {FlushPeriod, MergeSteps, MaxMergeJobs, RatioLimit} \subseteq Nat \ {0}
  /\ {MaxInserts, MaxStops} \subseteq Nat

VARIABLES
  contents,       \* what was written to the file of each id
  present,        \* ids whose file exists in the directory
  cp, new_cp,     \* the files CP and NEW_CP: files named, journal
  log,            \* ghost: the keys inserted, the i-th with value i
  files,          \* oldest_file .. newest_file
  tree,           \* small_tree
  cp_path,        \* the name under which table->cp is journalling
  cp_first_entry_index, cp_n_entries, next_id,
  possible,       \* possible_merge_tree: pairs of ids
  running,        \* running_merges, the first one at work
  n_merge_jobs, defunct_files,
  pc, n_processed,
  loaded,         \* ghost: the ids named by CP when the table was opened
  stranded,       \* ghost: the last rename of NEW_CP to CP failed
  stops,          \* ghost: how often the process stopped
  fault           \* "none", or how the run went beyond the model

diskVars == <<contents, present, cp, new_cp>>
mergeVars == <<possible, running, n_merge_jobs, defunct_files>>
cpVars == <<cp_path, cp_first_entry_index, cp_n_entries>>
ghostVars == <<log, loaded, stranded, stops>>
vars == <<diskVars, files, tree, next_id, mergeVars, cpVars, pc, n_processed, ghostVars, fault>>

None == 0                                          \* a key without a value
Values == 0..MaxInserts
Empty == [k \in Keys |-> None]
NoCheckpoint == [files |-> <<>>, journal |-> <<>>]

FileInfo == [id: Nat, first_entry_index: Nat, n_entries: Nat, used: BOOLEAN]
Checkpoint == [files: Seq(FileInfo), journal: Seq(Keys \X Values)]
MergeJob == [a: Nat, b: Nat, out: Nat, a_left: SUBSET Keys, b_left: SUBSET Keys]
Starting == {"start0", "start1", "start2"}       \* in maybe_start_merge_jobs

TypeOK ==
  /\ DOMAIN contents \subseteq Nat /\ \A id \in DOMAIN contents: contents[id] \in [Keys -> Values]
  /\ present \subseteq DOMAIN contents
  /\ cp \in Checkpoint /\ new_cp \in Checkpoint
  /\ log \in Seq(Keys) /\ files \in Seq(FileInfo) /\ tree \in [Keys -> Values]
  /\ cp_path \in {"CP", "NEW_CP"}
  /\ {cp_first_entry_index, cp_n_entries, next_id, stops} \subseteq Nat
  /\ possible \subseteq Nat \X Nat
  /\ running \in Seq(MergeJob)
  /\ n_merge_jobs \in 0..MaxMergeJobs /\ n_processed \in 0..MergeSteps
  /\ defunct_files \in Seq(Nat) /\ loaded \subseteq Nat /\ stranded \in BOOLEAN
  /\ pc \in {"user", "dump", "checkpoint", "rename", "defunct", "work1", "work2", "down"}
             \cup Starting
  /\ fault \in {"none", "abort", "dangling", "missing", "lost"}

(* dsk_table_new in a directory it creates *)
Init ==
  /\ contents = [id \in {} |-> Empty] /\ present = {}
  /\ cp = NoCheckpoint /\ new_cp = NoCheckpoint
  /\ log = <<>> /\ files = <<>> /\ tree = Empty
  /\ cp_path = "CP" /\ cp_first_entry_index = 0 /\ cp_n_entries = 0
  /\ next_id = 1
  /\ possible = {} /\ running = <<>> /\ n_merge_jobs = 0 /\ defunct_files = <<>>
  /\ pc = "user" /\ n_processed = 0
  /\ loaded = {} /\ stranded = FALSE /\ stops = 0 /\ fault = "none"

-----------------------------------------------------------------------------
(* Values and lookups *)

(* Mutant: the older value wins. *)
StdMergeOld(a, b) == a

StdMerge(a, b) == b
MergeOr(a, b) == IF a = None THEN b ELSE IF b = None THEN a ELSE StdMerge(a, b)

Ids(fs) == {fs[i].id: i \in DOMAIN fs}
EntryCount(id) == Cardinality({k \in Keys: contents[id][k] # None})

(* Values merged in order of time, from the oldest one on ... *)
MergedUp(values) ==
  LET res[i \in 0..Len(values)] == IF i = 0 THEN None ELSE MergeOr(res[i - 1], values[i]) IN
  res[Len(values)]
(* ... and from the newest one back *)
MergedDown(values) ==
  LET n == Len(values)
      res[i \in 0..n] == IF i = 0 THEN None ELSE MergeOr(values[n + 1 - i], res[i - 1]) IN
  res[n]

InFiles(fs, k) == [i \in 1..Len(fs) |-> contents[fs[i].id][k]]

(* dsk_table_lookup, from the tree to the oldest file ... *)
LookupNewestFirst(t, fs, k) == MergedDown(Append(InFiles(fs, k), t[k]))
(* ... and with chronological_lookup_merges *)
LookupChronological(t, fs, k) == MergedUp(Append(InFiles(fs, k), t[k]))

(* handle_checkpoint_replay_element of each entry, by add_to_tree *)
Replayed(journal) ==
  [k \in Keys |->
     MergedUp([i \in 1..Len(journal) |-> IF journal[i][1] = k THEN journal[i][2] ELSE None])]

-----------------------------------------------------------------------------
(* The steps of an insertion *)

Journal(entry) ==
  IF cp_path = "CP"
  THEN cp' = [cp EXCEPT !.journal = Append(@, entry)] /\ UNCHANGED new_cp
  ELSE new_cp' = [new_cp EXCEPT !.journal = Append(@, entry)] /\ UNCHANGED cp

Insert(k) ==
  LET value == Len(log) + 1 IN
  /\ pc = "user" /\ fault = "none" /\ Len(log) < MaxInserts
  /\ tree' = [tree EXCEPT ![k] = MergeOr(@, value)]
  /\ Journal(<<k, value>>)
  /\ log' = Append(log, k)
  /\ cp_n_entries' = cp_n_entries + 1
  /\ pc' = IF cp_n_entries + 1 >= FlushPeriod THEN "dump" ELSE "work1"
  /\ n_processed' = 0
  /\ UNCHANGED <<contents, present, files, cp_path, cp_first_entry_index, next_id, mergeVars,
                 loaded, stranded, stops, fault>>

CountCleared == 0

(* The tree becomes the newest file.  A merge with the file before it is   *)
(* possible, even if that one is being merged already. *)
DumpTree ==
  LET file == [id |-> next_id, first_entry_index |-> cp_first_entry_index,
               n_entries |-> cp_n_entries, used |-> FALSE] IN
  /\ pc = "dump"
  /\ contents' = [id \in DOMAIN contents \cup {next_id} |->
                    IF id = next_id THEN tree ELSE contents[id]]
  /\ present' = present \cup {next_id}
  /\ next_id' = next_id + 1
  /\ files' = Append(files, file)
  /\ possible' = possible \cup {<<f.id, next_id>>: f \in IF files = <<>> THEN {} ELSE {Last(files)}}
  /\ tree' = Empty
  /\ cp_first_entry_index' = cp_first_entry_index + cp_n_entries
  /\ cp_n_entries' = CountCleared
  /\ pc' = "checkpoint"
  /\ UNCHANGED <<cp, new_cp, running, n_merge_jobs, defunct_files, cp_path, n_processed,
                 ghostVars, fault>>

(* new_writer, write or close fails; the next insertion tries again. *)
DumpTreeFails ==
  /\ pc = "dump"
  /\ next_id' = next_id + 1
  /\ pc' = "user"
  /\ UNCHANGED <<diskVars, files, tree, mergeVars, cpVars, n_processed, ghostVars, fault>>

(* Mutant: made before the new file is in the list. *)
CheckpointStateOld == [files |-> Front(files), journal |-> <<>>]

(* make_checkpoint_state; used_by_last_checkpoint is not part of it. *)
CheckpointState == [files |-> files, journal |-> <<>>]

WriteCheckpoint ==
  /\ pc = "checkpoint"
  /\ new_cp' = CheckpointState
  /\ cp_path' = "NEW_CP"
  /\ pc' = "rename"
  /\ UNCHANGED <<contents, present, cp, files, tree, next_id, mergeVars, cp_first_entry_index,
                 cp_n_entries, n_processed, ghostVars, fault>>

(* NEW_CP cannot be opened: the journal goes on in the old checkpoint. *)
WriteCheckpointFails ==
  /\ pc = "checkpoint"
  /\ pc' = "user"
  /\ UNCHANGED <<diskVars, files, tree, next_id, mergeVars, cpVars, n_processed, ghostVars, fault>>

RenameCheckpoint ==
  /\ pc = "rename"
  /\ cp' = new_cp /\ new_cp' = NoCheckpoint
  /\ cp_path' = "CP" /\ stranded' = FALSE
  /\ pc' = "defunct"
  /\ UNCHANGED <<contents, present, files, tree, next_id, mergeVars, cp_first_entry_index,
                 cp_n_entries, n_processed, log, loaded, stops, fault>>

(* The table goes on journalling to NEW_CP, which nothing will read. *)
RenameCheckpointFails ==
  /\ pc = "rename"
  /\ stranded' = TRUE
  /\ pc' = "user"
  /\ UNCHANGED <<diskVars, files, tree, next_id, mergeVars, cpVars, n_processed,
                 log, loaded, stops, fault>>

DeleteDefunct ==
  /\ pc = "defunct"
  /\ \/ /\ defunct_files # <<>>
        /\ present' = present \ {Head(defunct_files)}
        /\ defunct_files' = Tail(defunct_files)
        /\ UNCHANGED pc
     \/ /\ defunct_files = <<>>
        /\ pc' = "work1"
        /\ UNCHANGED <<present, defunct_files>>
  /\ UNCHANGED <<contents, cp, new_cp, files, tree, next_id, possible, running, n_merge_jobs,
                 cpVars, n_processed, ghostVars, fault>>

-----------------------------------------------------------------------------
(* Merges *)

Position(id) == CHOOSE i \in DOMAIN files: files[i].id = id
FileOf(id) == files[Position(id)]
Merging(id) == \E m \in ToSet(running): id \in {m.a, m.b}
InputsRemaining(m) == Cardinality(m.a_left) + Cardinality(m.b_left)

(* COMPARE_POSSIBLE_MERGES: the ratio of the sizes, then the number of     *)
(* entries and the index of the older file *)
Before(p, q) ==
  LET ratioP == EntryCount(p[1]) * EntryCount(q[2])
      ratioQ == EntryCount(q[1]) * EntryCount(p[2])
      n(x) == FileOf(x[1]).n_entries
      first(x) == FileOf(x[1]).first_entry_index IN
  \/ ratioP < ratioQ
  \/ ratioP = ratioQ /\ n(p) < n(q)
  \/ ratioP = ratioQ /\ n(p) = n(q) /\ first(p) < first(q)

(* The best possible merge, if there is room for a merge and it is worth it *)
MayStart(p) ==
  /\ n_merge_jobs < MaxMergeJobs
  /\ p \in possible /\ \A q \in possible \ {p}: Before(p, q)
  /\ EntryCount(p[1]) <= RatioLimit * EntryCount(p[2])

(* Before the first running merge with as much or more to read *)
Queued(m) ==
  LET after == {i \in DOMAIN running: InputsRemaining(running[i]) >= InputsRemaining(m)} IN
  IF after = {} THEN Append(running, m) ELSE InsertAt(running, Min(after), m)

KeysIn(id) == {k \in Keys: contents[id][k] # None}

(* start_merge_job *)
StartMerge(p) ==
  /\ pc \in Starting /\ MayStart(p)
  /\ running' = Queued([a |-> p[1], b |-> p[2], out |-> next_id,
                        a_left |-> KeysIn(p[1]), b_left |-> KeysIn(p[2])])
  /\ possible' = {q \in possible: q # p /\ q[2] # p[1] /\ q[1] # p[2]}
  /\ n_merge_jobs' = n_merge_jobs + 1
  /\ contents' = [id \in DOMAIN contents \cup {next_id} |->
                    IF id = next_id THEN Empty ELSE contents[id]]
  /\ present' = present \cup {next_id}
  /\ next_id' = next_id + 1
  /\ UNCHANGED <<cp, new_cp, files, tree, defunct_files, cpVars, pc, n_processed,
                 ghostVars, fault>>

(* maybe_start_merge_jobs finds nothing more to start. *)
StartsDone ==
  /\ pc \in Starting /\ ~\E p \in possible: MayStart(p)
  /\ pc' = IF pc = "start0" THEN "user" ELSE IF pc = "start1" THEN "work1" ELSE "work2"
  /\ UNCHANGED <<diskVars, files, tree, next_id, mergeVars, cpVars, n_processed, ghostVars, fault>>

WorkLeft == n_processed < MergeSteps /\ running # <<>>

Value(id, left, k) == IF k \in left THEN contents[id][k] ELSE None

(* run_first_merge_job with both readers on an entry: the smaller key, or  *)
(* both if they are equal. *)
MergeEntry ==
  LET m == Head(running)
      k == Min(m.a_left \cup m.b_left)
      value == MergeOr(Value(m.a, m.a_left, k), Value(m.b, m.b_left, k)) IN
  /\ pc \in {"work1", "work2"} /\ WorkLeft
  /\ m.a_left # {} /\ m.b_left # {}
  /\ contents' = [contents EXCEPT ![m.out][k] = value]
  /\ running' = <<[m EXCEPT !.a_left = @ \ {k}, !.b_left = @ \ {k}]>> \o Tail(running)
  /\ n_processed' = n_processed + 1
  /\ UNCHANGED <<present, cp, new_cp, files, tree, next_id, possible, n_merge_jobs,
                 defunct_files, cpVars, pc, ghostVars, fault>>

(* Mutant: only steps that get somewhere are counted. *)
CountStepNot == n_processed

CountStep == n_processed + 1

(* With one reader at its end the entry of the other one is written, but   *)
(* its reader is not advanced: the same entry is written again for ever. *)
MergeRepeats ==
  LET m == Head(running)
      k == Min(m.a_left \cup m.b_left)
      value == MergeOr(Value(m.a, m.a_left, k), Value(m.b, m.b_left, k)) IN
  /\ pc \in {"work1", "work2"} /\ WorkLeft
  /\ (m.a_left = {}) # (m.b_left = {})
  /\ contents' = [contents EXCEPT ![m.out][k] = value]
  /\ n_processed' = CountStep
  /\ UNCHANGED <<present, cp, new_cp, files, tree, next_id, mergeVars, cpVars, pc,
                 ghostVars, fault>>

MergeAtEnd ==
  /\ pc \in {"work1", "work2"} /\ WorkLeft
  /\ InputsRemaining(Head(running)) = 0

(* create_possible_merge of the output and the file after it finds that    *)
(* one in the possible merge DumpTree made, and asserts it is not. *)
AssertFails(m) ==
  LET i == Position(m.b) + 1 IN
  i \in DOMAIN files /\ ~Merging(files[i].id) /\ <<m.b, files[i].id>> \in possible

(* Another running merge reads one of the same inputs, which are freed. *)
LeavesDangling(m) ==
  \E other \in ToSet(Tail(running)): {other.a, other.b} \cap {m.a, m.b} # {}

MergeFails ==
  LET m == Head(running) IN
  /\ MergeAtEnd
  /\ \/ AssertFails(m) /\ fault' = "abort"
     \/ ~AssertFails(m) /\ LeavesDangling(m) /\ fault' = "dangling"
  /\ UNCHANGED <<diskVars, files, tree, next_id, mergeVars, cpVars, pc, n_processed, ghostVars>>

(* Mutant: it counts the entries of the newer file only. *)
MergedFileNewer(m) ==
  [id |-> m.out, first_entry_index |-> FileOf(m.a).first_entry_index,
   n_entries |-> FileOf(m.b).n_entries, used |-> FALSE]

MergedFile(m) ==
  [id |-> m.out, first_entry_index |-> FileOf(m.a).first_entry_index,
   n_entries |-> FileOf(m.a).n_entries + FileOf(m.b).n_entries, used |-> FALSE]

Replaced(m) ==
  SubSeq(files, 1, Position(m.a) - 1) \o <<MergedFile(m)>>
    \o SubSeq(files, Position(m.b) + 1, Len(files))

(* Mutant: no merge with the file before it. *)
NewPossibleAfter(m) ==
  {<<m.out, files[i].id>>: i \in {j \in DOMAIN files: j = Position(m.b) + 1 /\ ~Merging(files[j].id)}}

NewPossible(m) ==
  {<<files[i].id, m.out>>: i \in {j \in DOMAIN files: j = Position(m.a) - 1 /\ ~Merging(files[j].id)}}
    \cup
  {<<m.out, files[i].id>>: i \in {j \in DOMAIN files: j = Position(m.b) + 1 /\ ~Merging(files[j].id)}}

NowDefunct(id) == IF FileOf(id).used THEN <<id>> ELSE <<>>

(* merge_job_readers_at_eof: the output takes the place of the inputs,     *)
(* which are deleted unless used_by_last_checkpoint, the second on top. *)
FinishMerge ==
  LET m == Head(running) IN
  /\ MergeAtEnd /\ ~AssertFails(m) /\ ~LeavesDangling(m)
  /\ files' = Replaced(m)
  /\ present' = present \ {id \in {m.a, m.b}: ~FileOf(id).used}
  /\ defunct_files' = NowDefunct(m.b) \o NowDefunct(m.a) \o defunct_files
  /\ running' = Tail(running)
  /\ possible' = possible \cup NewPossible(m)
  /\ n_processed' = n_processed + 1
  /\ pc' = IF pc = "work1" THEN "start1" ELSE "start2"
  /\ UNCHANGED <<contents, cp, new_cp, tree, next_id, n_merge_jobs, cpVars, ghostVars, fault>>

(* The first loop is followed by maybe_start_merge_jobs, the second by the *)
(* return of dsk_table_insert. *)
WorkDone ==
  /\ pc \in {"work1", "work2"} /\ ~WorkLeft
  /\ pc' = IF pc = "work1" THEN "start2" ELSE "user"
  /\ UNCHANGED <<diskVars, files, tree, next_id, mergeVars, cpVars, n_processed, ghostVars, fault>>

-----------------------------------------------------------------------------
(* Stopping and opening again *)

LastOf(k, from, to) == Max({0} \cup {i \in (from + 1)..to: log[i] = k})
Inserted(k) == LastOf(k, 0, Len(log))

(* What CP says of key k: its files, as they were written, and its journal *)
Checkpointed(k) == LookupNewestFirst(Replayed(cp.journal), cp.files, k)

(* What a process that opens the table finds: do_file_lookup opens a file  *)
(* when it gets to it, and fails if it is not there. *)
Unreadable == -1
Recovered(k) == IF Ids(cp.files) \subseteq present THEN Checkpointed(k) ELSE Unreadable

(* The process ends, at any point; what was in memory is gone. *)
Stop ==
  /\ pc # "down" /\ stops < MaxStops
  /\ stops' = stops + 1
  /\ files' = <<>> /\ tree' = Empty
  /\ cp_path' = "CP" /\ cp_first_entry_index' = 0 /\ cp_n_entries' = 0 /\ next_id' = 0
  /\ possible' = {} /\ running' = <<>> /\ n_merge_jobs' = 0 /\ defunct_files' = <<>>
  /\ pc' = "down" /\ n_processed' = 0
  /\ loaded' = {} /\ stranded' = FALSE
  /\ fault' = IF \A k \in Keys: Checkpointed(k) = Inserted(k) THEN "none" ELSE "lost"
  /\ UNCHANGED <<diskVars, log>>

NextId == IF cp.files = <<>> THEN 0 ELSE Max(Ids(cp.files)) + 1

(* dsk_table_new in an existing directory.  Files that are missing show    *)
(* later: lookups fail, and a merge reads through a null pointer. *)
Open ==
  LET n == Len(cp.files) IN
  /\ pc = "down" /\ fault = "none"
  /\ files' = [i \in 1..n |-> [cp.files[i] EXCEPT !.used = TRUE]]
  /\ tree' = Replayed(cp.journal)
  /\ cp_n_entries' = Len(cp.journal)
  /\ cp_first_entry_index' = IF n = 0 THEN 0 ELSE cp.files[n].first_entry_index + cp.files[n].n_entries
  /\ next_id' = NextId
  /\ possible' = {<<cp.files[i].id, cp.files[i + 1].id>>: i \in 1..(n - 1)}
  /\ loaded' = Ids(cp.files)
  /\ fault' = IF Ids(cp.files) \subseteq present THEN "none" ELSE "missing"
  /\ pc' = "start0"
  /\ UNCHANGED <<diskVars, running, n_merge_jobs, defunct_files, cp_path, n_processed,
                 log, stranded, stops>>

InsertSteps ==
  \/ DumpTree \/ DumpTreeFails \/ WriteCheckpoint \/ WriteCheckpointFails
  \/ RenameCheckpoint \/ RenameCheckpointFails \/ DeleteDefunct
MergeWork == MergeEntry \/ MergeRepeats \/ FinishMerge \/ MergeFails \/ WorkDone
Starts == (\E p \in possible: StartMerge(p)) \/ StartsDone
Call == fault = "none" /\ (InsertSteps \/ MergeWork \/ Starts)

Next == (\E k \in Keys: Insert(k)) \/ Call \/ (fault = "none" /\ Stop) \/ Open

Spec == Init /\ [][Next]_vars
(* A call, once made, is executed by the thread that made it. *)
FairSpec == Spec /\ WF_vars(Call)

-----------------------------------------------------------------------------
(* Properties *)

Running == pc # "down" /\ fault = "none"

(* Between calls a lookup, in either order, finds the last value inserted  *)
(* under its key, wherever dumps, merges and restarts moved it, in         *)
(* dsk_table_lookup. *)
LookupsSeeLatest ==
  Running /\ pc = "user" =>
    \A k \in Keys: /\ LookupNewestFirst(tree, files, k) = Inserted(k)
                   /\ LookupChronological(tree, files, k) = Inserted(k)

(* At every step of an insertion, a process that ends there loses nothing, *)
(* if the last rename succeeded and no file that CP names was deleted: the *)
(* files and the journal hold every value inserted so far.  The code does  *)
(* delete such files (CheckpointFilesExist), but only ones that a merge    *)
(* replaced in the table's list after it wrote CP: those on the list, and  *)
(* those CP named when the table was opened, which is what                 *)
(* used_by_last_checkpoint and defunct_files are for, exist until a later  *)
(* checkpoint replaced CP. *)
RestartLosesNothing ==
  /\ fault = "none" /\ ~stranded /\ Ids(cp.files) \subseteq present =>
       \A k \in Keys: Recovered(k) = Inserted(k)
  /\ Running => (loaded \cup Ids(files)) \cap Ids(cp.files) \subseteq present

(* The files and the journal divide the insertions into consecutive        *)
(* ranges: first_entry_index and n_entries leave no gap and no overlap.     *)
(* A file in the list exists and holds, for every key, the last value of   *)
(* the insertions in its range, however often it was merged; and the id of *)
(* the next file, which creating it truncates, is that of none of them, nor *)
(* of a file named by the checkpoint. *)
FilesHoldTheirEntries ==
  Running =>
    /\ TypeOK
    /\ Ids(files) \subseteq present
    /\ \A id \in Ids(files) \cup Ids(cp.files) \cup {m.out: m \in ToSet(running)}:
         id < next_id
    /\ \A i \in DOMAIN files:
         files[i].first_entry_index =
           IF i = 1 THEN 0 ELSE files[i - 1].first_entry_index + files[i - 1].n_entries
    /\ cp_first_entry_index =
         IF files = <<>> THEN 0 ELSE Last(files).first_entry_index + Last(files).n_entries
    /\ cp_first_entry_index + cp_n_entries = Len(log)
    /\ \A i \in DOMAIN files: \A k \in Keys:
         contents[files[i].id][k] =
           LastOf(k, files[i].first_entry_index, files[i].first_entry_index + files[i].n_entries)

(* Two neighbouring files may be merged, or one of them is being merged;   *)
(* a pair forgotten here is never merged. *)
NoPairForgotten ==
  Running => \A i \in 1..(Len(files) - 1):
    \/ <<files[i].id, files[i + 1].id>> \in possible
    \/ Merging(files[i].id) \/ Merging(files[i + 1].id)

(* "if it is used by the last checkpoint, add File to defunct list": every *)
(* file CP names exists. *)
CheckpointFilesExist == fault = "none" => Ids(cp.files) \subseteq present

(* dsk_table_insert returns, although a merge may repeat itself for ever. *)
InsertsReturn == [](pc = "dump" \/ pc = "work1" => <>(pc \in {"user", "down"} \/ fault # "none"))
=============================================================================
