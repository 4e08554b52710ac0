-------------------------------- MODULE Vault --------------------------------
(***************************************************************************)
(* cortex/memory_service.py and cortex/state_service.py: durable memory as *)
(* append-only files of records, forgetting by tombstones, and the export  *)
(* and import of everything as a bundle the owner keeps.  The web server's *)
(* threads share the files without a lock; a redeployment of the container *)
(* loses the disk and keeps the bundles.                                   *)
(***************************************************************************)
EXTENDS Integers, Sequences, FiniteSets, SequencesExt, Functions

CONSTANTS
  Clients,        \* the threads serving requests
  ForgetLimit,    \* how many records forget() looks through (10_000)
  RecordBound,    \* bound: records ever written
  BundleBound,    \* bound: exports ever begun
  ImportBound,    \* bound: imports ever begun
  Faults          \* bound: writes that are cut short, and ends of the process

VARIABLES
  stored,          \* [Files -> Seq(Line)]
  unended,        \* the files whose last line lacks its newline
  thread,         \* [Clients -> what it is in the midst of]
  bundles,        \* the bundles exported so far, wherever they are kept
  minted,         \* [1..n -> Types]: the types of the records written so far
  gone,           \* history: ids that are to stay forgotten on this disk
  owed,           \* history: ids that are to be readable on this disk
  left            \* what is left of the bounds

vaultVars == <<stored, unended, thread, bundles, minted, gone, owed, left>>

-----------------------------------------------------------------------------
Types == {"factual", "personal"}      \* two of the six; sorted, one on either side of "forgotten"
MemoryFiles == Types \cup {"forgotten"}
Files == MemoryFiles \cup {"state"}   \* ledger/state.jsonl

\* _files: ledger before memory, the names sorted
ExportOrder == <<"state", "factual", "forgotten", "personal">>

Line(kind, id) == [kind |-> kind, id |-> id]
TornLine == Line("garbage", 0)         \* a line json.loads does not take
Ids(lines) == {line.id : line \in lines}

\* What open("a").write makes of a file: the first line is glued to a last one
\* that was not ended.
Appended(file, lines) ==
  IF lines = <<>> THEN stored[file]
  ELSE IF file \in unended THEN Front(stored[file]) \o <<TornLine>> \o Tail(lines)
  ELSE stored[file] \o lines

Puts(file, lines) ==
  /\ stored' = [stored EXCEPT ![file] = Appended(file, lines)]
  /\ unended' = IF lines = <<>> THEN unended ELSE unended \ {file}

-----------------------------------------------------------------------------
(* Reading.  A torn line makes every read that meets it raise.              *)

HasTornLine(file) == TornLine \in Range(stored[file])
ForgottenIds == Ids(Range(stored["forgotten"])) \ {0}

Reads(types) == ~HasTornLine("forgotten") /\ \A t \in types : ~HasTornLine(t)

\* The files in the order of their names.
Rows(types) ==
  (IF "factual" \in types THEN stored["factual"] ELSE <<>>) \o (IF "personal" \in types THEN stored["personal"] ELSE <<>>)

ActiveRecordsSkippingTorn(types) ==
  {i \in DOMAIN Rows(types) : Rows(types)[i] # TornLine /\ Rows(types)[i].id \notin ForgottenIds}

\* _active_records: the rows that were not forgotten, by their positions.
ActiveRecords(types) ==
  IF Reads(types) THEN {i \in DOMAIN Rows(types) : Rows(types)[i].id \notin ForgottenIds} ELSE {}

\* retrieve(limit=n): the last n of them
Retrieve(types, n) ==
  LET active == ActiveRecords(types)
  IN  {Rows(types)[i] : i \in {k \in active : Cardinality({m \in active : m > k}) < n}}

Idle == [do |-> "nothing"]

Spends(what) == left[what] > 0 /\ left' = [left EXCEPT ![what] = @ - 1]

-----------------------------------------------------------------------------
VaultInit ==
  /\ stored = [f \in Files |-> <<>>] /\ unended = {}
  /\ thread = [c \in Clients |-> Idle]
  /\ bundles = {} /\ minted = <<>>
  /\ gone = {} /\ owed = {}
  /\ left = [records |-> RecordBound, exports |-> BundleBound, imports |-> ImportBound, faults |-> Faults]

\* write(): the checks of its arguments, then one line of one file.
WriteRecord(c, type) ==
  /\ thread[c] = Idle /\ Spends("records")
  /\ minted' = Append(minted, type)
  /\ Puts(type, <<Line("record", Len(minted) + 1)>>)
  /\ owed' = owed \cup {Len(minted) + 1}
  /\ UNCHANGED <<thread, bundles, gone>>

\* forget() up to the record it looks for; without one, or without a witness,
\* it raises and changes nothing.
Finds(c, id) ==
  /\ thread[c] = Idle
  /\ id \in Ids(Retrieve(Types, ForgetLimit))
  /\ thread' = [thread EXCEPT ![c] = [do |-> "forget", id |-> id]]
  /\ UNCHANGED <<stored, unended, bundles, minted, gone, owed, left>>

\* The rest of forget(): the tombstone.
Buries(c) ==
  /\ thread[c].do = "forget"
  /\ Puts("forgotten", <<Line("tombstone", thread[c].id)>>)
  /\ gone' = gone \cup {thread[c].id}
  /\ thread' = [thread EXCEPT ![c] = Idle]
  /\ UNCHANGED <<bundles, minted, owed, left>>

\* A write of write() or forget() is cut short: a part of the line, or all of
\* it without its newline; the caller gets an error.
CutShort(c, file, line) ==
  /\ Spends("faults")
  /\ \/ stored' = [stored EXCEPT ![file] = Appended(file, <<TornLine>>)]
     \/ stored' = [stored EXCEPT ![file] = Appended(file, <<line>>)]
  /\ unended' = unended \cup {file}
  /\ thread' = [thread EXCEPT ![c] = Idle]
  /\ UNCHANGED <<bundles, gone, owed>>

TearsRecord(c, type) ==
  /\ thread[c] = Idle /\ Len(minted) < RecordBound
  /\ minted' = Append(minted, type)
  /\ CutShort(c, type, Line("record", Len(minted) + 1))

TearsTombstone(c) ==
  /\ thread[c].do = "forget"
  /\ CutShort(c, "forgotten", Line("tombstone", thread[c].id))
  /\ UNCHANGED minted

-----------------------------------------------------------------------------
(* StateService                                                             *)

NewBundle == [lines |-> [f \in Files |-> <<>>], altered |-> {}, gone |-> gone, owed |-> owed]

Exports(c) ==
  /\ thread[c] = Idle /\ Spends("exports")
  /\ thread' = [thread EXCEPT ![c] = [do |-> "export", next |-> 1, bundle |-> NewBundle]]
  /\ UNCHANGED <<stored, unended, bundles, minted, gone, owed>>

\* _files(include_content=True) reads one file after the other.
ExportsFile(c) ==
  /\ thread[c].do = "export"
  /\ LET file == ExportOrder[thread[c].next]
         bundle == [thread[c].bundle EXCEPT !.lines[file] = stored[file]]
     IN  IF thread[c].next < Len(ExportOrder)
         THEN /\ thread' = [thread EXCEPT ![c].next = @ + 1, ![c].bundle = bundle]
              /\ UNCHANGED bundles
         ELSE /\ thread' = [thread EXCEPT ![c] = Idle]
              /\ bundles' = bundles \cup {bundle}
  /\ UNCHANGED <<stored, unended, minted, gone, owed, left>>

\* import_bundle without a witness, a confirmation or a format it knows
RefusesAtOnce(c) ==
  /\ thread[c] = Idle /\ Spends("imports")
  /\ Puts("state", <<Line("refused", 0)>>)
  /\ UNCHANGED <<thread, bundles, minted, gone, owed>>

\* import_bundle with all of them; a file of the bundle may have been altered.
Imports(c, bundle) ==
  /\ thread[c] = Idle /\ Spends("imports")
  /\ \E altered \in {{}} \cup {{f} : f \in MemoryFiles} :
       thread' = [thread EXCEPT ![c] =
                    [do |-> "import", next |-> 1, bundle |-> [bundle EXCEPT !.altered = altered]]]
  /\ UNCHANGED <<stored, unended, bundles, minted, gone, owed>>

ImportOf(c) == thread[c].bundle
NextFile(c) == ExportOrder[thread[c].next]
Importing(c) == thread[c].do = "import" /\ thread[c].next <= Len(ExportOrder)

GoOn(c) == thread' = [thread EXCEPT ![c].next = @ + 1]

SkipsTheRest(c) ==
  /\ Importing(c) /\ NextFile(c) \notin MemoryFiles
  /\ thread' = [thread EXCEPT ![c].next = Len(ExportOrder) + 1]
  /\ UNCHANGED <<stored, unended, bundles, minted, gone, owed, left>>

\* A file that is not under memory/ is passed over.
Skips(c) ==
  /\ Importing(c) /\ NextFile(c) \notin MemoryFiles
  /\ GoOn(c)
  /\ UNCHANGED <<stored, unended, bundles, minted, gone, owed, left>>

\* A file is appended to what is there, its last line ended.
RestoresFile(c) ==
  /\ Importing(c) /\ NextFile(c) \in MemoryFiles \ ImportOf(c).altered
  /\ Puts(NextFile(c), ImportOf(c).lines[NextFile(c)])
  /\ GoOn(c)
  /\ UNCHANGED <<bundles, minted, gone, owed, left>>

EndsImport(c, answer) ==
  /\ Puts("state", <<Line(answer, 0)>>)
  /\ thread' = [thread EXCEPT ![c] = Idle]

\* A hash that does not match ends the import where it stands.
RefusesBundle(c) ==
  /\ Importing(c) /\ NextFile(c) \in MemoryFiles \cap ImportOf(c).altered
  /\ EndsImport(c, "refused")
  /\ UNCHANGED <<bundles, minted, gone, owed, left>>

Imported(c) ==
  /\ thread[c].do = "import" /\ thread[c].next > Len(ExportOrder)
  /\ EndsImport(c, "imported")
  /\ gone' = gone \cup ImportOf(c).gone /\ owed' = owed \cup ImportOf(c).owed
  /\ UNCHANGED <<bundles, minted, left>>

\* The process ends and is started again: no thread survives.
Restart ==
  /\ Spends("faults")
  /\ thread' = [c \in Clients |-> Idle]
  /\ UNCHANGED <<stored, unended, bundles, minted, gone, owed>>

\* The container is deployed anew: an empty disk, and no thread survives.
Redeploy ==
  /\ Spends("faults")
  /\ stored' = [f \in Files |-> <<>>] /\ unended' = {}
  /\ thread' = [c \in Clients |-> Idle]
  /\ gone' = {} /\ owed' = {}
  /\ UNCHANGED <<bundles, minted>>

VaultNext ==
  \/ \E c \in Clients :
       \/ \E type \in Types : WriteRecord(c, type) \/ TearsRecord(c, type)
       \/ \E id \in DOMAIN minted : Finds(c, id)
       \/ Buries(c) \/ TearsTombstone(c)
       \/ Exports(c) \/ ExportsFile(c)
       \/ RefusesAtOnce(c) \/ \E bundle \in bundles : Imports(c, bundle)
       \/ Skips(c) \/ RestoresFile(c) \/ RefusesBundle(c) \/ Imported(c)
  \/ Restart \/ Redeploy

VaultSpec == VaultInit /\ [][VaultNext]_vaultVars

-----------------------------------------------------------------------------
Shown(types) == {Rows(types)[i].id : i \in ActiveRecords(types)}

\* PERSISTENCE.md:49, "forget tombstones preserved": a record whose forget() was
\* answered, on this disk or on the one a bundle that was imported came from,
\* is shown by no read, whatever is written, torn, exported or imported later.
ForgottenStaysForgotten == \A types \in SUBSET Types : Shown(types) \cap gone = {}

\* A record whose write() was answered, or that was there when the export of a
\* bundle that was imported began, is shown by every read that does not raise,
\* unless it was forgotten.
AnsweredIsKept ==
  \A id \in owed : LET t == minted[id] IN Reads({t}) => id \in Shown({t}) \cup ForgottenIds
===============================================================================
