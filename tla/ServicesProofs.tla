---------------------------- MODULE ServicesProofs ----------------------------
(***************************************************************************)
(* What the services around the core can be relied on for, with any number *)
(* of clients, requests, files and faults.                                 *)
(*                                                                         *)
(* Durable memory (Vault).  A file is due to hold certain ids: the         *)
(* tombstones of what is gone, the records that are owed.  A line that is  *)
(* torn may swallow some of them, but then no read of that file returns.   *)
(* The invariant says this of the disk, of every bundle, of the part of a  *)
(* bundle an export has read, and of what an import has restored.          *)
(*                                                                         *)
(* Trajectories.  Rows are only added to the ledgers, so what a request    *)
(* has read is a beginning of each and remains one; a dataset or manifest  *)
(* is whole unless it is being written.                                    *)
(*                                                                         *)
(* Health.  What a monitor has found stays true while others repair, or is *)
(* noted as damage.  Advice.  Which option comes out first, and how risky  *)
(* a task is when its request is refused.                                  *)
(***************************************************************************)
EXTENDS Vault, Health, Advice, Trajectories, FiniteSetTheorems, TLAPS

Lines == [kind : {"record", "tombstone", "garbage", "refused", "imported"}, id : Nat]

Holds(lines, ids) == TornLine \in Range(lines) \/ ids \subseteq Ids(Range(lines))

\* What a file is due to hold when `buried` are to stay forgotten and `kept` are
\* to be readable.
Due(file, buried, kept) ==
  {id \in buried : file = "forgotten"} \cup {id \in kept : minted[id] = file}

BundleOK(b) ==
  /\ b.lines \in [Files -> Seq(Lines)]
  /\ b.gone \subseteq DOMAIN minted /\ b.owed \subseteq DOMAIN minted

Whole(b) == \A f \in MemoryFiles : Holds(b.lines[f], Due(f, b.gone, b.owed))

\* The first files of the order, which an export has read or an import passed.
Passed(n) == {ExportOrder[i] : i \in {j \in DOMAIN ExportOrder : j < n}} \cap MemoryFiles

Exporting(t) ==
  /\ t.next \in DOMAIN ExportOrder /\ BundleOK(t.bundle)
  /\ t.bundle.gone \subseteq gone /\ t.bundle.owed \subseteq owed
  /\ \A f \in Passed(t.next) : Holds(t.bundle.lines[f], Due(f, t.bundle.gone, t.bundle.owed))

Restoring(t) ==
  /\ t.next \in Nat /\ BundleOK(t.bundle) /\ Whole(t.bundle)
  /\ \A f \in Passed(t.next) : Holds(stored[f], Due(f, t.bundle.gone, t.bundle.owed))

ThreadOK(t) ==
  \/ t = Idle
  \/ t \in [do : {"forget"}, id : DOMAIN minted]
  \/ /\ t = [do |-> "export", next |-> t.next, bundle |-> t.bundle]
     /\ t.bundle = [lines |-> t.bundle.lines, altered |-> t.bundle.altered, gone |-> t.bundle.gone, owed |-> t.bundle.owed]
     /\ Exporting(t)
  \/ /\ t = [do |-> "import", next |-> t.next, bundle |-> t.bundle]
     /\ Restoring(t)

DiskOK ==
  /\ stored \in [Files -> Seq(Lines)]
  /\ unended \subseteq {f \in Files : stored[f] # <<>>}
  /\ minted \in Seq(Types)
  /\ gone \subseteq DOMAIN minted /\ owed \subseteq DOMAIN minted
  /\ \A f \in MemoryFiles : Holds(stored[f], Due(f, gone, owed))

BundlesOK == 
  \A b \in bundles :
    /\ b = [lines |-> b.lines, altered |-> b.altered, gone |-> b.gone, owed |-> b.owed]
    /\ BundleOK(b) /\ Whole(b)

ThreadsOK ==
  /\ thread = [c \in Clients |-> thread[c]]
  /\ \A c \in Clients : ThreadOK(thread[c])

VaultInv == DiskOK /\ BundlesOK /\ ThreadsOK

---------------------------------------------------------------------------
(* Sequences of lines, and what is due. *)

\* What is in a file after an append: everything, or a torn line.
LEMMA AppendedHolds ==
  ASSUME DiskOK, NEW file \in Files, NEW lines \in Seq(Lines)
  PROVE  /\ Appended(file, lines) \in Seq(Lines)
         /\ \/ TornLine \in Range(Appended(file, lines))
            \/ Range(Appended(file, lines)) = Range(stored[file]) \cup Range(lines)
         /\ lines # <<>> => Appended(file, lines) # <<>>
         /\ stored[file] # <<>> => Appended(file, lines) # <<>>
<1>0. TornLine \in Lines
  BY DEF TornLine, Line, Lines
<1>1. stored[file] \in Seq(Lines) /\ TornLine \in Lines
  BY <1>0 DEF DiskOK
<1>2. CASE lines = <<>>
  <2>1. Range(lines) = {}
    BY <1>2 DEF Range
  <2> QED
    BY <1>1, <1>2, <2>1 DEF Appended
<1>3. CASE lines # <<>> /\ file \in unended
  <2>1. stored[file] # <<>>
    BY <1>3 DEF DiskOK
  <2> DEFINE before == Front(stored[file])
             torn == before \o <<TornLine>>
             all == torn \o Tail(lines)
  <2>2. before \in Seq(Lines) /\ Tail(lines) \in Seq(Lines)
    BY <1>1, <1>3, <2>1 DEF Front
  <2>3. torn \in Seq(Lines) /\ Len(torn) = Len(before) + 1 /\ torn[Len(before) + 1] = TornLine
    BY <1>1, <2>2
  <2>4. all \in Seq(Lines) /\ Len(before) + 1 \in DOMAIN all /\ all[Len(before) + 1] = TornLine
    BY <2>2, <2>3
  <2>5. TornLine \in Range(all) /\ all # <<>>
    BY <2>4 DEF Range
  <2> QED
    BY <1>3, <2>4, <2>5 DEF Appended
<1>4. CASE lines # <<>> /\ file \notin unended
  <2> DEFINE all == stored[file] \o lines
  <2>1. Range(all) = Range(stored[file]) \cup Range(lines)
    <3>1. Len(all) = Len(stored[file]) + Len(lines) /\ all \in Seq(Lines)
      BY <1>1
    <3>2. \A i \in DOMAIN stored[file] : i \in DOMAIN all /\ all[i] = stored[file][i]
      BY <1>1, <3>1
    <3>3. \A i \in DOMAIN lines : Len(stored[file]) + i \in DOMAIN all /\ all[Len(stored[file]) + i] = lines[i]
      BY <1>1, <3>1
    <3>4. \A i \in DOMAIN all :
            \/ i \in DOMAIN stored[file] /\ all[i] = stored[file][i]
            \/ i - Len(stored[file]) \in DOMAIN lines /\ all[i] = lines[i - Len(stored[file])]
      BY <1>1, <3>1
    <3> QED
      BY <3>2, <3>3, <3>4 DEF Range
  <2> QED
    BY <1>1, <1>4, <2>1 DEF Appended
<1> QED
  BY <1>2, <1>3, <1>4

\* So what a file held, and what the lines held, the file holds afterwards.
LEMMA AppendedKeeps ==
  ASSUME DiskOK, NEW file \in Files, NEW lines \in Seq(Lines), NEW ids,
         Holds(stored[file], ids) \/ Holds(lines, ids)
  PROVE  Holds(Appended(file, lines), ids)
BY AppendedHolds DEF Holds, Ids

\* Of a file that holds some ids and lines with another.
LEMMA AppendedAdds ==
  ASSUME DiskOK, NEW file \in Files, NEW line \in Lines, NEW ids, Holds(stored[file], ids)
  PROVE  Holds(Appended(file, <<line>>), ids \cup {line.id})
<1>1. <<line>> \in Seq(Lines) /\ Range(<<line>>) = {line}
  BY DEF Range
<1> QED
  BY <1>1, AppendedHolds DEF Holds, Ids

\* What a write makes of the files: none holds less, and the one written to
\* holds what was written.
LEMMA FileGrows ==
  ASSUME DiskOK, NEW file \in Files, NEW lines \in Seq(Lines),
         stored' = [stored EXCEPT ![file] = Appended(file, lines)]
  PROVE  /\ stored' \in [Files -> Seq(Lines)]
         /\ \A f \in Files : \A ids : Holds(stored[f], ids) => Holds(stored'[f], ids)
         /\ \A ids : Holds(lines, ids) => Holds(stored'[file], ids)
         /\ \A f \in Files : stored[f] # <<>> => stored'[f] # <<>>
         /\ lines # <<>> => stored'[file] # <<>>
<1>1. stored \in [Files -> Seq(Lines)]
  BY DEF DiskOK
<1>2. stored'[file] = Appended(file, lines) /\ \A f \in Files \ {file} : stored'[f] = stored[f]
  BY <1>1
<1>3. Appended(file, lines) \in Seq(Lines)
  BY AppendedHolds
<1>4. stored' \in [Files -> Seq(Lines)]
  BY <1>1, <1>3
<1>5. \A ids : Holds(stored[file], ids) \/ Holds(lines, ids) => Holds(stored'[file], ids)
  BY <1>2, AppendedKeeps
<1> QED
  BY <1>2, <1>4, <1>5, AppendedHolds

\* One line holds its id.
LEMMA OneLine ==
  ASSUME NEW line \in Lines
  PROVE  <<line>> \in Seq(Lines) /\ Holds(<<line>>, {line.id}) /\ <<line>> # <<>>
<1>1. Range(<<line>>) = {line}
  BY DEF Range
<1> QED
  BY <1>1 DEF Holds, Ids

---------------------------------------------------------------------------
(* Steps after which no file holds less, and more may be due. *)

Grows ==
  /\ DOMAIN minted \subseteq DOMAIN minted' /\ \A id \in DOMAIN minted : minted'[id] = minted[id]
  /\ gone \subseteq gone' /\ owed \subseteq owed'
  /\ \A f \in MemoryFiles : \A ids : Holds(stored[f], ids) => Holds(stored'[f], ids)

LEMMA BundlesStay ==
  ASSUME BundlesOK, Grows, NEW b \in bundles
  PROVE  /\ b = [lines |-> b.lines, altered |-> b.altered, gone |-> b.gone, owed |-> b.owed]
         /\ BundleOK(b)' /\ Whole(b)'
<1>1. BundleOK(b) /\ Whole(b)
  BY DEF BundlesOK
<1>2. BundleOK(b)'
  BY <1>1 DEF BundleOK, Grows
<1>3. \A f \in MemoryFiles : Due(f, b.gone, b.owed)' = Due(f, b.gone, b.owed)
  <2>1. \A id \in b.owed : minted'[id] = minted[id]
    BY <1>1 DEF BundleOK, Grows
  <2> QED
    BY <2>1 DEF Due
<1> QED
  BY <1>1, <1>2, <1>3 DEF BundlesOK, Whole

LEMMA ThreadStays ==
  ASSUME ThreadsOK, Grows, NEW c \in Clients, thread'[c] = thread[c]
  PROVE  ThreadOK(thread[c])'
<1> DEFINE t == thread[c]
<1>0. ThreadOK(t) /\ t' = t
  BY DEF ThreadsOK
<1>1. CASE t = Idle
  BY <1>0, <1>1 DEF ThreadOK
<1>2. CASE t \in [do : {"forget"}, id : DOMAIN minted]
  BY <1>0, <1>2 DEF ThreadOK, Grows
<1>3. CASE BundleOK(t.bundle) /\ (Exporting(t) \/ Restoring(t)) /\ t # Idle /\ t \notin [do : {"forget"}, id : DOMAIN minted]
  <2>1. BundleOK(t.bundle)'
    BY <1>0, <1>3 DEF BundleOK, Grows
  <2>2. \A f \in MemoryFiles : Due(f, t.bundle.gone, t.bundle.owed)' = Due(f, t.bundle.gone, t.bundle.owed)
    <3>1. \A id \in t.bundle.owed : minted'[id] = minted[id]
      BY <1>3 DEF BundleOK, Grows
    <3> QED
      BY <1>0, <3>1 DEF Due
  <2>3. ASSUME Exporting(t) PROVE Exporting(t)'
    BY <1>0, <2>1, <2>2, <2>3 DEF Exporting, Grows, Passed
  <2>4. ASSUME Restoring(t) PROVE Restoring(t)'
    BY <1>0, <2>1, <2>2, <2>4 DEF Restoring, Whole, Grows, Passed
  <2> QED
    BY <1>0, <1>3, <2>3, <2>4 DEF ThreadOK
<1> QED
  BY <1>0, <1>1, <1>2, <1>3 DEF ThreadOK, Exporting, Restoring

\* A write after which as much is due as before.
LEMMA DiskStays ==
  ASSUME DiskOK, NEW file \in Files, NEW lines \in Seq(Lines),
         stored' = [stored EXCEPT ![file] = Appended(file, lines)],
         unended' \subseteq unended \cup {f \in {file} : lines # <<>>},
         UNCHANGED <<minted, gone, owed>>
  PROVE  DiskOK' /\ Grows
<1>1. \A f \in MemoryFiles : f \in Files
  BY DEF Files
<1>2. Grows
  BY <1>1, FileGrows DEF Grows
<1>3. \A f \in MemoryFiles : Due(f, gone, owed)' = Due(f, gone, owed)
  BY DEF Due
<1>4. unended' \subseteq {f \in Files : stored'[f] # <<>>}
  BY FileGrows DEF DiskOK
<1>5. stored' \in [Files -> Seq(Lines)]
  BY FileGrows
<1>6. \A f \in MemoryFiles : Holds(stored'[f], Due(f, gone, owed))
  BY <1>2 DEF DiskOK, Grows
<1> QED
  BY <1>2, <1>3, <1>4, <1>5, <1>6 DEF DiskOK

\* A step of one thread.
LEMMA OneThread ==
  ASSUME ThreadsOK, Grows, NEW c \in Clients,
         thread' = [d \in Clients |-> thread'[d]],
         \A d \in Clients \ {c} : thread'[d] = thread[d],
         ThreadOK(thread[c])'
  PROVE  ThreadsOK'
BY ThreadStays DEF ThreadsOK

\* A step of one thread that leaves what is on disk alone.
LEMMA QuietDisk ==
  ASSUME DiskOK, UNCHANGED <<stored, unended, minted, gone, owed>>
  PROVE  DiskOK' /\ Grows
BY DEF DiskOK, Due, Grows

\* What a thread is in the midst of tells what it holds.
LEMMA ThreadDoes ==
  ASSUME ThreadsOK, NEW c \in Clients
  PROVE  /\ thread[c].do = "forget" => thread[c].id \in DOMAIN minted
         /\ thread[c].do = "export" =>
              /\ thread[c] = [do |-> "export", next |-> thread[c].next, bundle |-> thread[c].bundle]
              /\ thread[c].bundle = [lines |-> thread[c].bundle.lines, altered |-> thread[c].bundle.altered,
                                     gone |-> thread[c].bundle.gone, owed |-> thread[c].bundle.owed]
              /\ Exporting(thread[c])
         /\ thread[c].do = "import" =>
              /\ thread[c] = [do |-> "import", next |-> thread[c].next, bundle |-> thread[c].bundle]
              /\ Restoring(thread[c])
<1> DEFINE t == thread[c]
<1>0. ThreadOK(t)
  BY DEF ThreadsOK
<1>1. CASE t = Idle
  BY <1>1 DEF Idle
<1>2. CASE t \in [do : {"forget"}, id : DOMAIN minted]
  BY <1>2
<1>3. CASE t = [do |-> "export", next |-> t.next, bundle |-> t.bundle]
  <2>1. t.do = "export"
    BY <1>3
  <2>2. t # Idle /\ t \notin [do : {"forget"}, id : DOMAIN minted]
    BY <2>1 DEF Idle
  <2>3. t # [do |-> "import", next |-> t.next, bundle |-> t.bundle]
    BY <2>1
  <2> QED
    BY <1>0, <2>1, <2>2, <2>3 DEF ThreadOK
<1>4. CASE t = [do |-> "import", next |-> t.next, bundle |-> t.bundle]
  <2>1. t.do = "import"
    BY <1>4
  <2>2. t # Idle /\ t \notin [do : {"forget"}, id : DOMAIN minted]
    BY <2>1 DEF Idle
  <2>3. t # [do |-> "export", next |-> t.next, bundle |-> t.bundle]
    BY <2>1
  <2> QED
    BY <1>0, <2>1, <2>2, <2>3 DEF ThreadOK
<1> QED
  BY <1>0, <1>1, <1>2, <1>3, <1>4 DEF ThreadOK

---------------------------------------------------------------------------
(* The invariant. *)

LEMMA VaultInvInit == VaultInit => VaultInv
<1> SUFFICES ASSUME VaultInit PROVE VaultInv
  OBVIOUS
<1>1. DiskOK
  BY DEF VaultInit, DiskOK, Holds, Due
<1>2. BundlesOK /\ ThreadsOK
  BY DEF VaultInit, BundlesOK, ThreadsOK, ThreadOK
<1> QED
  BY <1>1, <1>2 DEF VaultInv

\* A record is written: one id more is owed, and its line is there.
LEMMA WriteStep ==
  ASSUME VaultInv, NEW c \in Clients, NEW type \in Types, WriteRecord(c, type)
  PROVE  VaultInv'
<1> DEFINE id == Len(minted) + 1
           line == Line("record", id)
<1>0. minted \in Seq(Types) /\ id \in Nat
  BY DEF VaultInv, DiskOK
<1>1. line \in Lines /\ line.id = id /\ type \in Files
  BY <1>0 DEF Line, Lines, Files, MemoryFiles
<1>2. stored' = [stored EXCEPT ![type] = Appended(type, <<line>>)] /\ unended' \subseteq unended
  BY DEF WriteRecord, Puts
<1>3. /\ DOMAIN minted' = DOMAIN minted \cup {id} /\ minted' \in Seq(Types)
      /\ minted'[id] = type /\ \A i \in DOMAIN minted : minted'[i] = minted[i]
  BY <1>0 DEF WriteRecord
<1>4. /\ <<line>> \in Seq(Lines) /\ Holds(<<line>>, {id}) /\ DiskOK
  BY <1>1, OneLine DEF VaultInv
<1>5. /\ stored' \in [Files -> Seq(Lines)]
      /\ \A f \in Files : \A ids : Holds(stored[f], ids) => Holds(stored'[f], ids)
      /\ Holds(stored'[type], {id})
      /\ \A f \in Files : stored[f] # <<>> => stored'[f] # <<>>
  BY <1>1, <1>2, <1>4, FileGrows
<1>6. Grows
  BY <1>3, <1>5 DEF Grows, WriteRecord, Files
<1>7. DiskOK'
  <2>1. ASSUME NEW f \in MemoryFiles PROVE Holds(stored'[f], Due(f, gone, owed)')
    <3>1. Due(f, gone, owed)' = Due(f, gone, owed) \cup {i \in {id} : type = f}
      BY <1>3, <1>4 DEF Due, WriteRecord, DiskOK
    <3>2. Holds(stored'[f], Due(f, gone, owed))
      BY <1>4, <1>5 DEF DiskOK, Files
    <3> QED
      BY <1>5, <3>1, <3>2 DEF Holds
  <2>2. gone' \subseteq DOMAIN minted' /\ owed' \subseteq DOMAIN minted'
    BY <1>3, <1>4 DEF WriteRecord, DiskOK
  <2>3. unended' \subseteq {f \in Files : stored'[f] # <<>>}
    BY <1>2, <1>4, <1>5 DEF DiskOK
  <2> QED
    BY <1>3, <1>5, <2>1, <2>2, <2>3 DEF DiskOK
<1>8. BundlesOK' /\ ThreadsOK'
  BY <1>6, BundlesStay, ThreadStays DEF VaultInv, BundlesOK, ThreadsOK, WriteRecord
<1> QED
  BY <1>7, <1>8 DEF VaultInv

\* forget() has found its record.
LEMMA FindStep ==
  ASSUME VaultInv, NEW c \in Clients, NEW id \in DOMAIN minted, Finds(c, id)
  PROVE  VaultInv'
<1>1. DiskOK' /\ Grows
  BY QuietDisk DEF VaultInv, Finds
<1>2. thread'[c] = [do |-> "forget", id |-> id] /\ minted' = minted
  BY DEF Finds, VaultInv, ThreadsOK
<1>3. ThreadOK(thread[c])'
  BY <1>2 DEF ThreadOK
<1>4. ThreadsOK'
  BY <1>1, <1>3, OneThread DEF VaultInv, ThreadsOK, Finds
<1>5. BundlesOK'
  BY <1>1, BundlesStay DEF VaultInv, BundlesOK, Finds
<1> QED
  BY <1>1, <1>4, <1>5 DEF VaultInv

\* forget() writes the tombstone, and from then on its record is gone.
LEMMA BuryStep ==
  ASSUME VaultInv, NEW c \in Clients, Buries(c)
  PROVE  VaultInv'
<1> DEFINE id == thread[c].id
           line == Line("tombstone", id)
           file == "forgotten"
<1>0. DiskOK /\ id \in DOMAIN minted /\ minted \in Seq(Types)
  BY ThreadDoes DEF VaultInv, DiskOK, Buries
<1>1. line \in Lines /\ line.id = id /\ file \in Files
  BY <1>0 DEF Line, Lines, Files, MemoryFiles
<1>2. stored' = [stored EXCEPT ![file] = Appended(file, <<line>>)] /\ unended' \subseteq unended
  BY DEF Buries, Puts
<1>3. <<line>> \in Seq(Lines) /\ Holds(<<line>>, {id})
  BY <1>1, OneLine
<1>4. /\ stored' \in [Files -> Seq(Lines)]
      /\ \A f \in Files : \A ids : Holds(stored[f], ids) => Holds(stored'[f], ids)
      /\ Holds(stored'[file], {id})
      /\ \A f \in Files : stored[f] # <<>> => stored'[f] # <<>>
  BY <1>0, <1>1, <1>2, <1>3, FileGrows
<1>5. Grows
  BY <1>4 DEF Grows, Buries, Files
<1>6. DiskOK'
  <2>1. ASSUME NEW f \in MemoryFiles PROVE Holds(stored'[f], Due(f, gone, owed)')
    <3>1. Due(f, gone, owed)' \subseteq Due(f, gone, owed) \cup {i \in {id} : f = file}
      BY DEF Due, Buries
    <3>2. Holds(stored'[f], Due(f, gone, owed))
      BY <1>0, <1>4 DEF DiskOK, Files
    <3> QED
      BY <1>4, <3>1, <3>2 DEF Holds
  <2>2. gone' \subseteq DOMAIN minted' /\ owed' \subseteq DOMAIN minted' /\ minted' \in Seq(Types)
    BY <1>0 DEF Buries, DiskOK
  <2>3. unended' \subseteq {f \in Files : stored'[f] # <<>>}
    BY <1>0, <1>2, <1>4 DEF DiskOK
  <2> QED
    BY <1>4, <2>1, <2>2, <2>3 DEF DiskOK
<1>7. thread'[c] = Idle
  BY DEF Buries, VaultInv, ThreadsOK
<1>8. ThreadsOK'
  BY <1>5, <1>7, OneThread DEF VaultInv, ThreadsOK, ThreadOK, Buries
<1>9. BundlesOK'
  BY <1>5, BundlesStay DEF VaultInv, BundlesOK, Buries
<1> QED
  BY <1>6, <1>8, <1>9 DEF VaultInv

\* A write that is cut short: the file holds no less, and nothing more is due.
LEMMA CutStep ==
  ASSUME VaultInv, NEW c \in Clients, NEW file \in Files, NEW line \in Lines,
         CutShort(c, file, line),
         minted' \in Seq(Types), DOMAIN minted \subseteq DOMAIN minted',
         \A id \in DOMAIN minted : minted'[id] = minted[id]
  PROVE  VaultInv'
<1>0. DiskOK
  BY DEF VaultInv
<1>1. PICK written \in Lines : stored' = [stored EXCEPT ![file] = Appended(file, <<written>>)]
  <2>1. TornLine \in Lines
    BY DEF TornLine, Line, Lines
  <2> QED
    BY <2>1 DEF CutShort
<1>2. <<written>> \in Seq(Lines) /\ <<written>> # <<>>
  BY <1>1
<1>3. /\ stored' \in [Files -> Seq(Lines)]
      /\ \A f \in Files : \A ids : Holds(stored[f], ids) => Holds(stored'[f], ids)
      /\ \A f \in Files : stored[f] # <<>> => stored'[f] # <<>>
      /\ stored'[file] # <<>>
  BY <1>0, <1>1, <1>2, FileGrows
<1>4. Grows
  BY <1>3 DEF Grows, CutShort, Files
<1>5. DiskOK'
  <2>1. ASSUME NEW f \in MemoryFiles PROVE Holds(stored'[f], Due(f, gone, owed)')
    <3>1. Due(f, gone, owed)' = Due(f, gone, owed)
      BY <1>0 DEF Due, CutShort, DiskOK
    <3> QED
      BY <1>0, <1>3, <3>1 DEF DiskOK, Files
  <2>2. unended' \subseteq {f \in Files : stored'[f] # <<>>}
    BY <1>0, <1>3 DEF DiskOK, CutShort
  <2> QED
    BY <1>0, <1>3, <2>1, <2>2 DEF DiskOK, CutShort
<1>6. thread'[c] = Idle
  BY DEF CutShort, VaultInv, ThreadsOK
<1>7. ThreadsOK'
  BY <1>4, <1>6, OneThread DEF VaultInv, ThreadsOK, ThreadOK, CutShort
<1>8. BundlesOK'
  BY <1>4, BundlesStay DEF VaultInv, BundlesOK, CutShort
<1> QED
  BY <1>5, <1>7, <1>8 DEF VaultInv

LEMMA TearsRecordStep ==
  ASSUME VaultInv, NEW c \in Clients, NEW type \in Types, TearsRecord(c, type)
  PROVE  VaultInv'
<1>0. minted \in Seq(Types)
  BY DEF VaultInv, DiskOK
<1>1. Line("record", Len(minted) + 1) \in Lines /\ type \in Files
  BY <1>0 DEF Line, Lines, Files, MemoryFiles
<1>2. /\ minted' \in Seq(Types) /\ DOMAIN minted \subseteq DOMAIN minted'
      /\ \A id \in DOMAIN minted : minted'[id] = minted[id]
  BY <1>0 DEF TearsRecord
<1>3. CutShort(c, type, Line("record", Len(minted) + 1))
  BY DEF TearsRecord
<1> QED
  BY <1>1, <1>2, <1>3, CutStep

LEMMA TearsTombstoneStep ==
  ASSUME VaultInv, NEW c \in Clients, TearsTombstone(c)
  PROVE  VaultInv'
<1>0. minted \in Seq(Types) /\ thread[c].id \in DOMAIN minted
  BY ThreadDoes DEF VaultInv, DiskOK, TearsTombstone
<1>1. Line("tombstone", thread[c].id) \in Lines /\ "forgotten" \in Files
  BY <1>0 DEF Line, Lines, Files, MemoryFiles
<1>2. minted' = minted
  BY DEF TearsTombstone
<1>3. CutShort(c, "forgotten", Line("tombstone", thread[c].id))
  BY DEF TearsTombstone
<1> QED
  BY <1>0, <1>1, <1>2, <1>3, CutStep

\* An export notes what is due, and then reads the files, which hold it by then
\* and may hold more.
LEMMA ExportStep ==
  ASSUME VaultInv, NEW c \in Clients, Exports(c)
  PROVE  VaultInv'
<1>1. DiskOK' /\ Grows
  BY QuietDisk DEF VaultInv, Exports
<1> DEFINE t == [do |-> "export", next |-> 1, bundle |-> NewBundle]
<1>2. thread'[c] = t
  BY DEF Exports, VaultInv, ThreadsOK
<1>3. Exporting(t)'
  <2>1. Passed(1) = {}
    BY DEF Passed, ExportOrder
  <2>2. BundleOK(NewBundle)
    BY DEF BundleOK, NewBundle, VaultInv, DiskOK
  <2>3. t.next = 1 /\ t.bundle = NewBundle /\ NewBundle.gone = gone /\ NewBundle.owed = owed /\ 1 \in DOMAIN ExportOrder
    BY DEF NewBundle, ExportOrder
  <2>4. Exporting(t)
    BY <2>1, <2>2, <2>3 DEF Exporting
  <2>5. t' = t /\ UNCHANGED <<minted, gone, owed>>
    BY DEF NewBundle, Exports
  <2> QED
    BY <2>4, <2>5 DEF Exporting, BundleOK, Due
<1>4. ThreadOK(thread[c])'
  <2>1. NewBundle = [lines |-> NewBundle.lines, altered |-> NewBundle.altered, gone |-> NewBundle.gone, owed |-> NewBundle.owed]
    BY DEF NewBundle
  <2>2. t' = t
    BY DEF NewBundle, Exports
  <2> QED
    BY <1>2, <1>3, <2>1, <2>2 DEF ThreadOK
<1>5. ThreadsOK'
  BY <1>1, <1>4, OneThread DEF VaultInv, ThreadsOK, Exports
<1>6. BundlesOK'
  BY <1>1, BundlesStay DEF VaultInv, BundlesOK, Exports
<1> QED
  BY <1>1, <1>5, <1>6 DEF VaultInv

LEMMA ExportFileStep ==
  ASSUME VaultInv, NEW c \in Clients, ExportsFile(c)
  PROVE  VaultInv'
<1>1. DiskOK' /\ Grows /\ DiskOK /\ UNCHANGED <<stored, minted, gone, owed>>
  BY QuietDisk DEF VaultInv, ExportsFile
<1>2. PICK t : t = thread[c]
  OBVIOUS
<1>3. /\ t = [do |-> "export", next |-> t.next, bundle |-> t.bundle]
      /\ t.bundle = [lines |-> t.bundle.lines, altered |-> t.bundle.altered, gone |-> t.bundle.gone, owed |-> t.bundle.owed]
      /\ Exporting(t)
  BY <1>2, ThreadDoes DEF VaultInv, ExportsFile
<1>4. PICK file : file = ExportOrder[t.next]
  OBVIOUS
<1>5. t.next \in 1..4 /\ file \in Files
  BY <1>3, <1>4 DEF Exporting, ExportOrder, Files, MemoryFiles, Types
<1>6. PICK bundle : bundle = [t.bundle EXCEPT !.lines[file] = stored[file]]
  OBVIOUS
<1>7. /\ bundle = [lines |-> bundle.lines, altered |-> bundle.altered, gone |-> bundle.gone, owed |-> bundle.owed]
      /\ bundle.lines = [t.bundle.lines EXCEPT ![file] = stored[file]]
      /\ bundle.gone = t.bundle.gone /\ bundle.owed = t.bundle.owed
  BY <1>3, <1>6
<1>8. BundleOK(bundle) /\ BundleOK(bundle)'
  BY <1>1, <1>3, <1>5, <1>7 DEF BundleOK, Exporting, DiskOK
<1>9. \A f \in Passed(t.next + 1) : Holds(bundle.lines[f], Due(f, bundle.gone, bundle.owed))
  <2>1. file \in MemoryFiles => Holds(stored[file], Due(file, t.bundle.gone, t.bundle.owed))
    <3>1. Due(file, t.bundle.gone, t.bundle.owed) \subseteq Due(file, gone, owed)
      BY <1>3 DEF Exporting, Due
    <3> QED
      BY <1>1, <3>1 DEF DiskOK, Holds
  <2>2. ASSUME NEW f \in Passed(t.next + 1), f # file PROVE f \in Passed(t.next)
    <3>1. PICK i \in DOMAIN ExportOrder : i < t.next + 1 /\ f = ExportOrder[i] /\ f \in MemoryFiles
      BY DEF Passed
    <3>2. i \in 1..4 /\ i # t.next
      BY <1>4, <2>2, <3>1 DEF ExportOrder
    <3>3. i < t.next
      BY <1>5, <3>1, <3>2
    <3> QED
      BY <3>1, <3>3 DEF Passed
  <2>3. ASSUME NEW f \in Passed(t.next + 1), f # file PROVE Holds(bundle.lines[f], Due(f, bundle.gone, bundle.owed))
    <3>1. Holds(t.bundle.lines[f], Due(f, t.bundle.gone, t.bundle.owed)) /\ f \in Files
      BY <1>3, <2>2, <2>3 DEF Exporting, Passed, Files
    <3>2. bundle.lines[f] = t.bundle.lines[f]
      BY <1>3, <1>7, <2>3, <3>1 DEF Exporting, BundleOK
    <3> QED
      BY <1>7, <3>1, <3>2
  <2>4. bundle.lines[file] = stored[file]
    BY <1>3, <1>5, <1>7 DEF Exporting, BundleOK
  <2>5. ASSUME NEW f \in Passed(t.next + 1) PROVE f \in MemoryFiles
    BY DEF Passed
  <2> QED
    BY <1>7, <2>1, <2>3, <2>4, <2>5
<1>10. CASE t.next < Len(ExportOrder)
  <2>1. PICK u : u = [do |-> "export", next |-> t.next + 1, bundle |-> bundle]
    OBVIOUS
  <2>2. thread' = [thread EXCEPT ![c] = u] /\ bundles' = bundles
    <3>1. thread' = [thread EXCEPT ![c].next = @ + 1, ![c].bundle = bundle] /\ bundles' = bundles
      BY <1>2, <1>4, <1>6, <1>10 DEF ExportsFile
    <3>2. [[t EXCEPT !.next = @ + 1] EXCEPT !.bundle = bundle] = u
      <4>1. PICK n, b : n = t.next /\ b = t.bundle
        OBVIOUS
      <4>2. t = [do |-> "export", next |-> n, bundle |-> b]
        BY <1>3, <4>1
      <4>3. PICK v : v = [t EXCEPT !.next = n + 1]
        OBVIOUS
      <4>4. v = [do |-> "export", next |-> n + 1, bundle |-> b]
        BY <4>2, <4>3
      <4>5. [v EXCEPT !.bundle = bundle] = [do |-> "export", next |-> n + 1, bundle |-> bundle]
        BY <4>4
      <4> QED
        BY <2>1, <4>1, <4>3, <4>5
    <3>3. thread = [d \in Clients |-> thread[d]]
      BY DEF VaultInv, ThreadsOK
    <3> QED
      BY <1>2, <3>1, <3>2, <3>3
  <2>3. u.next = t.next + 1 /\ u.bundle = bundle /\ t.next + 1 \in DOMAIN ExportOrder
    BY <1>5, <1>10, <2>1 DEF ExportOrder
  <2>4. Exporting(u)
    BY <1>3, <1>7, <1>8, <1>9, <2>3 DEF Exporting
  <2>5. Exporting(u)'
    BY <1>1, <1>8, <2>3, <2>4 DEF Exporting, Due, Passed
  <2>6. thread'[c] = u
    BY <2>2 DEF VaultInv, ThreadsOK
  <2>7. ThreadOK(thread[c])'
    BY <1>7, <2>1, <2>3, <2>5, <2>6 DEF ThreadOK
  <2>8. ThreadsOK'
    BY <1>1, <2>2, <2>7, OneThread DEF VaultInv, ThreadsOK
  <2>9. BundlesOK'
    BY <1>1, <2>2, BundlesStay DEF VaultInv, BundlesOK
  <2> QED
    BY <1>1, <2>8, <2>9 DEF VaultInv
<1>11. CASE ~(t.next < Len(ExportOrder))
  <2>1. thread' = [thread EXCEPT ![c] = Idle] /\ bundles' = bundles \cup {bundle}
    BY <1>2, <1>4, <1>6, <1>11 DEF ExportsFile
  <2>2. thread'[c] = Idle
    BY <2>1 DEF VaultInv, ThreadsOK
  <2>3. ThreadsOK'
    BY <1>1, <2>1, <2>2, OneThread DEF VaultInv, ThreadsOK, ThreadOK
  <2>4. MemoryFiles \subseteq Passed(t.next + 1)
    <3>1. t.next = 4
      BY <1>5, <1>11 DEF ExportOrder
    <3> QED
      BY <3>1 DEF Passed, ExportOrder, MemoryFiles, Types
  <2>5. Whole(bundle)'
    BY <1>1, <1>9, <2>4 DEF Whole, Due
  <2>6. BundlesOK'
    BY <1>1, <1>7, <1>8, <2>1, <2>5, BundlesStay DEF VaultInv, BundlesOK
  <2> QED
    BY <1>1, <2>3, <2>6 DEF VaultInv
<1> QED
  BY <1>10, <1>11

---------------------------------------------------------------------------
(* Imports. *)

\* A step that sets a thread going with, or on in, the import of a whole bundle.
LEMMA ImportGoesOn ==
  ASSUME VaultInv, Grows, DiskOK', bundles' = bundles,
         NEW c \in Clients, NEW t, thread' = [thread EXCEPT ![c] = t],
         t = [do |-> "import", next |-> t.next, bundle |-> t.bundle], Restoring(t)'
  PROVE  VaultInv'
<1>1. thread'[c] = t
  BY DEF VaultInv, ThreadsOK
<1>2. ThreadOK(thread[c])'
  BY <1>1 DEF ThreadOK
<1>3. ThreadsOK'
  BY <1>2, OneThread DEF VaultInv, ThreadsOK
<1>4. BundlesOK'
  BY BundlesStay DEF VaultInv, BundlesOK
<1> QED
  BY <1>3, <1>4 DEF VaultInv

LEMMA ImportStep ==
  ASSUME VaultInv, NEW c \in Clients, NEW b \in bundles, Imports(c, b)
  PROVE  VaultInv'
<1>1. DiskOK' /\ Grows /\ bundles' = bundles
  BY QuietDisk DEF VaultInv, Imports
<1>2. PICK altered : thread' = [thread EXCEPT ![c] =
        [do |-> "import", next |-> 1, bundle |-> [b EXCEPT !.altered = altered]]]
  BY DEF Imports
<1>3. PICK d : d = [b EXCEPT !.altered = altered]
  OBVIOUS
<1>4. PICK t : t = [do |-> "import", next |-> 1, bundle |-> d]
  OBVIOUS
<1>5. BundleOK(b)' /\ Whole(b)' /\ b = [lines |-> b.lines, altered |-> b.altered, gone |-> b.gone, owed |-> b.owed]
  BY <1>1, BundlesStay DEF VaultInv
<1>6. d.lines = b.lines /\ d.gone = b.gone /\ d.owed = b.owed
  BY <1>3, <1>5
<1>7. t.next = 1 /\ t.bundle = d /\ t = [do |-> "import", next |-> t.next, bundle |-> t.bundle]
  BY <1>4
<1>8. Passed(1) = {}
  BY DEF Passed, ExportOrder
<1>9. Restoring(t)'
  BY <1>5, <1>6, <1>7, <1>8 DEF Restoring, BundleOK, Whole
<1> QED
  BY <1>1, <1>2, <1>3, <1>4, <1>7, <1>9, ImportGoesOn

\* What an import passes next, it has restored, or it is no file of the memory.
LEMMA PassesFile ==
  ASSUME NEW c \in Clients, Importing(c), NEW f \in Passed(thread[c].next + 1),
         thread[c].next \in Nat
  PROVE  f \in Passed(thread[c].next) \/ f = NextFile(c)
<1>1. PICK i \in DOMAIN ExportOrder : i < thread[c].next + 1 /\ f = ExportOrder[i] /\ f \in MemoryFiles
  BY DEF Passed
<1>2. i \in 1..4
  BY DEF ExportOrder
<1>3. CASE i = thread[c].next
  BY <1>1, <1>3 DEF NextFile
<1>4. CASE i < thread[c].next
  BY <1>1, <1>4 DEF Passed
<1> QED
  BY <1>1, <1>2, <1>3, <1>4

LEMMA GoesOn ==
  ASSUME thread = [d \in Clients |-> thread[d]], NEW c \in Clients, GoOn(c),
         NEW t, t = thread[c], t = [do |-> "import", next |-> t.next, bundle |-> t.bundle]
  PROVE  thread' = [thread EXCEPT ![c] = [do |-> "import", next |-> t.next + 1, bundle |-> t.bundle]]
<1>1. PICK n, b : n = t.next /\ b = t.bundle
  OBVIOUS
<1>2. t = [do |-> "import", next |-> n, bundle |-> b]
  BY <1>1
<1>3. [t EXCEPT !.next = n + 1] = [do |-> "import", next |-> n + 1, bundle |-> b]
  BY <1>2
<1>4. thread' = [thread EXCEPT ![c] = [t EXCEPT !.next = n + 1]]
  BY <1>1 DEF GoOn
<1> QED
  BY <1>1, <1>3, <1>4

LEMMA SkipStep ==
  ASSUME VaultInv, NEW c \in Clients, Skips(c)
  PROVE  VaultInv'
<1>1. DiskOK' /\ Grows /\ bundles' = bundles
  BY QuietDisk DEF VaultInv, Skips
<1>2. PICK t : t = thread[c]
  OBVIOUS
<1>3. t = [do |-> "import", next |-> t.next, bundle |-> t.bundle] /\ Restoring(t)
  BY <1>2, ThreadDoes DEF VaultInv, Skips, Importing
<1>4. PICK u : u = [do |-> "import", next |-> t.next + 1, bundle |-> t.bundle]
  OBVIOUS
<1>5. thread' = [thread EXCEPT ![c] = u]
  BY <1>2, <1>3, <1>4, GoesOn DEF Skips, VaultInv, ThreadsOK
<1>6. u.next = t.next + 1 /\ u.bundle = t.bundle /\ u = [do |-> "import", next |-> u.next, bundle |-> u.bundle]
  BY <1>4
<1>7. Passed(u.next) \subseteq Passed(t.next)
  <2>1. NextFile(c) \notin Passed(u.next)
    BY DEF Skips, Passed
  <2> QED
    BY <1>2, <1>3, <1>6, <2>1, PassesFile DEF Restoring, Skips
<1>8. Restoring(u)'
  <2>1. u.next \in Nat /\ BundleOK(u.bundle) /\ Whole(u.bundle)
    BY <1>3, <1>6 DEF Restoring
  <2>2. \A f \in Passed(u.next) : Holds(stored[f], Due(f, u.bundle.gone, u.bundle.owed))
    BY <1>3, <1>6, <1>7 DEF Restoring
  <2> QED
    BY <2>1, <2>2 DEF Restoring, BundleOK, Whole, Due, Skips
<1> QED
  BY <1>1, <1>5, <1>6, <1>8, ImportGoesOn

\* A file is restored: what was due of it in the bundle, the disk now holds.
LEMMA RestoreStep ==
  ASSUME VaultInv, NEW c \in Clients, RestoresFile(c)
  PROVE  VaultInv'
<1>1. PICK t : t = thread[c]
  OBVIOUS
<1>2. t = [do |-> "import", next |-> t.next, bundle |-> t.bundle] /\ Restoring(t)
  BY <1>1, ThreadDoes DEF VaultInv, RestoresFile, Importing
<1>3. PICK file : file = NextFile(c)
  OBVIOUS
<1>4. PICK lines : lines = t.bundle.lines[file]
  OBVIOUS
<1>5. file \in MemoryFiles /\ file \in Files /\ lines \in Seq(Lines) /\ DiskOK
  BY <1>2, <1>3, <1>4 DEF RestoresFile, Files, Restoring, BundleOK, VaultInv
<1>6. stored' = [stored EXCEPT ![file] = Appended(file, lines)] /\ unended' \subseteq unended
  BY <1>1, <1>3, <1>4 DEF RestoresFile, Puts, ImportOf
<1>7. DiskOK' /\ Grows /\ bundles' = bundles
  BY <1>5, <1>6, DiskStays DEF RestoresFile
<1>8. PICK u : u = [do |-> "import", next |-> t.next + 1, bundle |-> t.bundle]
  OBVIOUS
<1>9. thread' = [thread EXCEPT ![c] = u]
  BY <1>1, <1>2, <1>8, GoesOn DEF RestoresFile, VaultInv, ThreadsOK
<1>10. u.next = t.next + 1 /\ u.bundle = t.bundle /\ u = [do |-> "import", next |-> u.next, bundle |-> u.bundle]
  BY <1>8
<1>11. ASSUME NEW f \in Passed(u.next) PROVE Holds(stored'[f], Due(f, t.bundle.gone, t.bundle.owed))
  <2>1. f \in Passed(t.next) \/ f = file
    BY <1>1, <1>2, <1>3, <1>10, PassesFile DEF Restoring, RestoresFile
  <2>2. CASE f \in Passed(t.next)
    BY <1>2, <1>7, <2>2 DEF Restoring, Grows, Passed
  <2>3. CASE f = file
    <3>1. Holds(lines, Due(file, t.bundle.gone, t.bundle.owed))
      BY <1>2, <1>4, <1>5 DEF Restoring, Whole
    <3> QED
      BY <1>5, <1>6, <2>3, <3>1, FileGrows
  <2> QED
    BY <2>1, <2>2, <2>3
<1>12. Restoring(u)'
  <2>1. u.next \in Nat /\ BundleOK(u.bundle) /\ Whole(u.bundle)
    BY <1>2, <1>10 DEF Restoring
  <2>2. \A f \in Passed(u.next) : Holds(stored'[f], Due(f, u.bundle.gone, u.bundle.owed))
    BY <1>10, <1>11
  <2> QED
    BY <2>1, <2>2 DEF Restoring, BundleOK, Whole, Due, RestoresFile
<1> QED
  BY <1>7, <1>9, <1>10, <1>12, ImportGoesOn

\* The answer of an import is a line of another file.
LEMMA AnswerLine ==
  ASSUME DiskOK, NEW answer \in {"refused", "imported"}, Puts("state", <<Line(answer, 0)>>)
  PROVE  /\ stored' \in [Files -> Seq(Lines)]
         /\ \A f \in Files : \A ids : Holds(stored[f], ids) => Holds(stored'[f], ids)
         /\ unended' \subseteq {f \in Files : stored'[f] # <<>>}
<1>1. Line(answer, 0) \in Lines /\ "state" \in Files
  BY DEF Line, Lines, Files
<1>2. <<Line(answer, 0)>> \in Seq(Lines)
  BY <1>1, OneLine
<1>3. stored' = [stored EXCEPT !["state"] = Appended("state", <<Line(answer, 0)>>)] /\ unended' \subseteq unended
  BY DEF Puts
<1> QED
  BY <1>1, <1>2, <1>3, FileGrows DEF DiskOK

LEMMA RefuseStep ==
  ASSUME VaultInv, NEW c \in Clients, RefusesAtOnce(c) \/ RefusesBundle(c)
  PROVE  VaultInv'
<1>0. DiskOK /\ Puts("state", <<Line("refused", 0)>>) /\ UNCHANGED <<bundles, minted, gone, owed>>
  BY DEF VaultInv, RefusesAtOnce, RefusesBundle, EndsImport
<1>1. /\ stored' \in [Files -> Seq(Lines)]
      /\ \A f \in Files : \A ids : Holds(stored[f], ids) => Holds(stored'[f], ids)
      /\ unended' \subseteq {f \in Files : stored'[f] # <<>>}
  BY <1>0, AnswerLine
<1>2. Grows
  BY <1>0, <1>1 DEF Grows, Files
<1>3. DiskOK'
  BY <1>0, <1>1 DEF DiskOK, Due, Files
<1>4. ThreadsOK'
  <2>1. CASE RefusesAtOnce(c)
    BY <1>2, <2>1, ThreadStays DEF VaultInv, ThreadsOK, RefusesAtOnce
  <2>2. CASE RefusesBundle(c)
    <3>1. thread' = [thread EXCEPT ![c] = Idle] /\ thread'[c] = Idle
      BY <2>2 DEF RefusesBundle, EndsImport, VaultInv, ThreadsOK
    <3> QED
      BY <1>2, <3>1, OneThread DEF VaultInv, ThreadsOK, ThreadOK
  <2> QED
    BY <2>1, <2>2
<1>5. BundlesOK'
  BY <1>0, <1>2, BundlesStay DEF VaultInv, BundlesOK
<1> QED
  BY <1>3, <1>4, <1>5 DEF VaultInv

\* An import that ends well has restored every file of the memory, so what is
\* due from now on is there.
LEMMA ImportedStep ==
  ASSUME VaultInv, NEW c \in Clients, Imported(c)
  PROVE  VaultInv'
<1>1. PICK b : b = thread[c].bundle
  OBVIOUS
<1>2. Restoring(thread[c]) /\ DiskOK
  BY ThreadDoes DEF VaultInv, Imported
<1>3. /\ Puts("state", <<Line("imported", 0)>>) /\ UNCHANGED <<bundles, minted>>
      /\ gone' = gone \cup b.gone /\ owed' = owed \cup b.owed
      /\ thread' = [thread EXCEPT ![c] = Idle]
  BY <1>1 DEF Imported, EndsImport, ImportOf
<1>4. /\ stored' \in [Files -> Seq(Lines)]
      /\ \A f \in Files : \A ids : Holds(stored[f], ids) => Holds(stored'[f], ids)
      /\ unended' \subseteq {f \in Files : stored'[f] # <<>>}
  BY <1>2, <1>3, AnswerLine
<1>5. Grows
  BY <1>3, <1>4 DEF Grows, Files
<1>6. MemoryFiles \subseteq Passed(thread[c].next)
  <2>1. thread[c].next > 4 /\ thread[c].next \in Nat
    BY <1>2 DEF Imported, ExportOrder, Restoring
  <2>2. \A f \in MemoryFiles : \E i \in 1..4 : f = ExportOrder[i]
    BY DEF ExportOrder, MemoryFiles, Types
  <2>3. \A i \in 1..4 : i < thread[c].next /\ i \in DOMAIN ExportOrder
    BY <2>1 DEF ExportOrder
  <2> QED
    BY <2>2, <2>3 DEF Passed
<1>7. ASSUME NEW f \in MemoryFiles PROVE Holds(stored'[f], Due(f, gone, owed)')
  <2>1. Due(f, gone, owed)' = Due(f, gone, owed) \cup Due(f, b.gone, b.owed)
    BY <1>3 DEF Due
  <2>2. Holds(stored'[f], Due(f, gone, owed)) /\ Holds(stored'[f], Due(f, b.gone, b.owed))
    BY <1>1, <1>2, <1>4, <1>6 DEF DiskOK, Restoring, Files
  <2> QED
    BY <2>1, <2>2 DEF Holds
<1>8. gone' \subseteq DOMAIN minted' /\ owed' \subseteq DOMAIN minted' /\ minted' \in Seq(Types)
  BY <1>1, <1>2, <1>3 DEF DiskOK, Restoring, BundleOK
<1>9. DiskOK'
  BY <1>4, <1>7, <1>8 DEF DiskOK
<1>10. thread'[c] = Idle
  BY <1>3 DEF VaultInv, ThreadsOK
<1>11. ThreadsOK'
  BY <1>3, <1>5, <1>10, OneThread DEF VaultInv, ThreadsOK, ThreadOK
<1>12. BundlesOK'
  BY <1>3, <1>5, BundlesStay DEF VaultInv, BundlesOK
<1> QED
  BY <1>9, <1>11, <1>12 DEF VaultInv

\* The process ends, and with it the threads; on a new disk nothing is due.
LEMMA EndStep ==
  ASSUME VaultInv, Restart \/ Redeploy
  PROVE  VaultInv'
<1>1. ThreadsOK'
  BY DEF Restart, Redeploy, ThreadsOK, ThreadOK
<1>2. DiskOK'
  <2>1. CASE Restart
    BY <2>1, QuietDisk DEF VaultInv, Restart
  <2>2. CASE Redeploy
    BY <2>2 DEF VaultInv, DiskOK, Redeploy, Holds, Due
  <2> QED
    BY <2>1, <2>2
<1>3. BundlesOK'
  <2>1. UNCHANGED <<bundles, minted>> /\ BundlesOK
    BY DEF VaultInv, Restart, Redeploy
  <2> QED
    BY <2>1 DEF BundlesOK, BundleOK, Whole, Due
<1> QED
  BY <1>1, <1>2, <1>3 DEF VaultInv

LEMMA VaultInvNext == VaultInv /\ [VaultNext]_vaultVars => VaultInv'
<1> SUFFICES ASSUME VaultInv, [VaultNext]_vaultVars PROVE VaultInv'
  OBVIOUS
<1>1. CASE VaultNext
  <2>1. CASE \E c \in Clients : \E type \in Types : WriteRecord(c, type) \/ TearsRecord(c, type)
    BY <2>1, WriteStep, TearsRecordStep
  <2>2. CASE \E c \in Clients : \E id \in DOMAIN minted : Finds(c, id)
    BY <2>2, FindStep
  <2>3. CASE \E c \in Clients : Buries(c) \/ TearsTombstone(c)
    BY <2>3, BuryStep, TearsTombstoneStep
  <2>4. CASE \E c \in Clients : Exports(c) \/ ExportsFile(c)
    BY <2>4, ExportStep, ExportFileStep
  <2>5. CASE \E c \in Clients : RefusesAtOnce(c) \/ RefusesBundle(c)
    BY <2>5, RefuseStep
  <2>6. CASE \E c \in Clients : \E b \in bundles : Imports(c, b)
    BY <2>6, ImportStep
  <2>7. CASE \E c \in Clients : Skips(c) \/ RestoresFile(c) \/ Imported(c)
    BY <2>7, SkipStep, RestoreStep, ImportedStep
  <2>8. CASE Restart \/ Redeploy
    BY <2>8, EndStep
  <2> QED
    BY <1>1, <2>1, <2>2, <2>3, <2>4, <2>5, <2>6, <2>7, <2>8 DEF VaultNext
<1>2. CASE UNCHANGED vaultVars
  <2>1. UNCHANGED <<stored, unended, minted, gone, owed, thread, bundles>>
    BY <1>2 DEF vaultVars
  <2>2. DiskOK' /\ Grows
    BY <2>1, QuietDisk DEF VaultInv
  <2>3. BundlesOK' /\ ThreadsOK'
    BY <2>1, <2>2, BundlesStay, ThreadStays DEF VaultInv, BundlesOK, ThreadsOK
  <2> QED
    BY <2>2, <2>3 DEF VaultInv
<1> QED
  BY <1>1, <1>2

\* Whatever is written, cut short, exported, refused or imported, a file of the
\* memory holds what it is due to hold, or a line that no read gets past.
THEOREM VaultInvHolds == VaultSpec => []VaultInv
<1>1. VaultInit => VaultInv
  BY VaultInvInit
<1>2. VaultInv /\ [VaultNext]_vaultVars => VaultInv'
  BY VaultInvNext
<1> QED
  BY <1>1, <1>2, PTL DEF VaultSpec

\* memory_service.py:182-195: a forgotten record is shown by no read, for any
\* number of clients, records, bundles and faults.
THEOREM ForgottenRecordsStay == VaultSpec => []ForgottenStaysForgotten
<1>1. VaultInv => ForgottenStaysForgotten
  <2> SUFFICES ASSUME VaultInv, NEW types \in SUBSET Types, NEW id \in Shown(types), id \in gone PROVE FALSE
    BY DEF ForgottenStaysForgotten
  <2>1. Reads(types) /\ id \notin ForgottenIds
    BY DEF Shown, ActiveRecords
  <2>2. Holds(stored["forgotten"], Due("forgotten", gone, owed)) /\ id \in Due("forgotten", gone, owed)
    BY DEF VaultInv, DiskOK, MemoryFiles, Due
  <2>3. id \in Ids(Range(stored["forgotten"]))
    BY <2>1, <2>2 DEF Holds, Reads, HasTornLine
  <2>4. id # 0
    BY DEF VaultInv, DiskOK
  <2> QED
    BY <2>1, <2>3, <2>4 DEF ForgottenIds
<1> QED
  BY <1>1, VaultInvHolds, PTL

\* memory_service.py:30-54, state_service.py:66-87: a record whose write was
\* answered is shown by every read that returns, until it is forgotten.
THEOREM AnsweredRecordsStay == VaultSpec => []AnsweredIsKept
<1>1. VaultInv => AnsweredIsKept
  <2> SUFFICES ASSUME VaultInv, NEW id \in owed, Reads({minted[id]}), id \notin ForgottenIds
               PROVE  id \in Shown({minted[id]})
    BY DEF AnsweredIsKept
  <2>1. PICK t \in Types : t = minted[id]
    BY DEF VaultInv, DiskOK
  <2>2. Holds(stored[t], Due(t, gone, owed)) /\ id \in Due(t, gone, owed) /\ stored[t] \in Seq(Lines)
    BY <2>1 DEF VaultInv, DiskOK, MemoryFiles, Files, Due
  <2>3. id \in Ids(Range(stored[t]))
    BY <2>1, <2>2 DEF Holds, Reads, HasTornLine
  <2>4. PICK i \in DOMAIN stored[t] : stored[t][i].id = id
    BY <2>3 DEF Ids, Range
  <2>5. i \in DOMAIN Rows({t}) /\ Rows({t})[i] = stored[t][i]
    <3>1. CASE t = "factual"
      <4>1. Rows({t}) = stored[t] \o <<>>
        BY <3>1 DEF Rows
      <4> QED
        BY <2>2, <2>4, <4>1
    <3>2. CASE t = "personal"
      <4>1. Rows({t}) = <<>> \o stored[t]
        BY <3>2 DEF Rows
      <4> QED
        BY <2>2, <2>4, <4>1
    <3> QED
      BY <3>1, <3>2 DEF Types
  <2>6. i \in ActiveRecords({t})
    BY <2>1, <2>4, <2>5 DEF ActiveRecords
  <2> QED
    BY <2>1, <2>4, <2>5, <2>6 DEF Shown
<1> QED
  BY <1>1, VaultInvHolds, PTL

---------------------------------------------------------------------------
(* Trajectories: rows are only added, and what is read is the beginning of  *)
(* what is there.                                                           *)

Immunity == {"healthy", "watch", "inflamed", "quarantine", "none"}
Stops ==
  {"none", "immune_inflamed", "immune_quarantine", "requires_human_confirmation", "no_useful_next_goal",
   "max_steps_reached"}
RowsOf(stream) ==
  [stream : {stream}, immune : Immunity, next : BOOLEAN, human : BOOLEAN, hidden : BOOLEAN, stop : Stops]
AnyRow == RowsOf("steps") \cup RowsOf("loops")

\* The beginning of a ledger.
Begins(p, s) == p \in Seq(AnyRow) /\ Len(p) <= Len(s) /\ \A i \in 1..Len(p) : p[i] = s[i]

Walk ==
  [at : {"think", "persist", "decide", "report"}, goal : Goal, index : Nat, task : SUBSET Risks,
   steps : Seq(RowsOf("steps")), row : RowsOf("steps") \cup {<<>>}, stop : Stops]

Fits(t) ==
  /\ t.at \in {"idle", "done"} \/ t \in Walk
  /\ t.at \in {"persist", "decide"} => t.row \in RowsOf("steps")

WalkersOK ==
  /\ walker = [w \in Walkers |-> walker[w]] /\ \A w \in Walkers : Fits(walker[w])
  /\ lore \subseteq Risks

RowsOK ==
  /\ rows = [steps |-> rows["steps"], loops |-> rows["loops"]]
  /\ rows["steps"] \in Seq(RowsOf("steps")) /\ rows["loops"] \in Seq(RowsOf("loops"))

\* What a gate has read of the ledgers: twice, steps and then loops, and the second
\* time no less than the first.
ReadAs(t, p1, p2, q1, q2) ==
  /\ t.read[1] = p1 \o q1 /\ t.read[2] = p2 \o q2
  /\ t.next <= 1 => p1 = <<>>
  /\ t.next <= 2 => q1 = <<>>
  /\ t.next <= 3 => p2 = <<>>
  /\ t.next <= 4 => q2 = <<>>
  /\ t.next >= 4 => Len(p1) <= Len(p2)
  /\ t.next >= 5 => Len(q1) <= Len(q2)

HasRead(l) ==
  \E p1, p2, q1, q2 \in Seq(AnyRow) :
    /\ Begins(p1, rows["steps"]) /\ Begins(p2, rows["steps"])
    /\ Begins(q1, rows["loops"]) /\ Begins(q2, rows["loops"])
    /\ ReadAs(learner[l], p1, p2, q1, q2)

\* What was decided of the ledgers remains so.
Earned(l) ==
  /\ \E m \in 0..Len(rows["steps"]), n \in 0..Len(rows["loops"]) :
       /\ Cardinality(AtLeast(Beginning(m, n), learner[l].asked.score)) >= learner[l].asked.samples
       /\ AverageAtLeast(Beginning(m, n), learner[l].asked.score)
  /\ learner[l].asked.samples >= 10 => rows["steps"] # <<>> /\ rows["loops"] # <<>>
  /\ learner[l].witness /\ manifest.there

Places ==
  {"idle", "read", "open", "write", "hash", "manifest", "pack", "judge", "done", "eligible_for_human_review",
   "blocked"}

DatasetFile == [there : BOOLEAN, whole : BOOLEAN]
Request ==
  [at : Places, asks : {"none", "export", "package", "gate"}, asked : Threshold, next : 1..5,
   read : [1..2 -> Seq(AnyRow)], witness : BOOLEAN, hash : DatasetFile]

Learning(l) ==
  LET t == learner[l] IN
  /\ t \in Request
  /\ t.at = "idle" => t = Free
  /\ t.at \in {"open", "write", "hash", "manifest", "pack"} => t.asks \in {"export", "package"}
  /\ t.at = "read" => t.asks # "none"
  /\ t.at = "judge" => t.asks = "gate" /\ t.next = 5
  /\ t.at = "read" => t.next \in (IF t.asks = "gate" THEN 1..4 ELSE 1..2)
  /\ t.at \in {"read", "judge"} /\ t.asks = "gate" => HasRead(l)
  /\ t.at = "eligible_for_human_review" => Earned(l)

\* An export or a packaging is under way.
Busy(l) == learner[l].asks \in {"export", "package"} /\ learner[l].at \notin {"idle", "done"}

\* As long as none overlapped and none was broken off, a dataset is whole unless it is
\* being written, and so are a manifest and what it was made of.
Packaging ==
  /\ smudged \in BOOLEAN /\ sft \in DatasetFile
  /\ ~smudged =>
       /\ \A k, l \in Learners : Busy(k) /\ Busy(l) => k = l
       /\ sft.there => sft.whole \/ \E l \in Learners : learner[l].at = "write"
       /\ \A l \in Learners : /\ learner[l].at = "hash" => sft.whole
                              /\ learner[l].at \in {"manifest", "pack"} => learner[l].hash.whole
       /\ manifest.there => \/ manifest.whole /\ manifest.dataset.whole
                            \/ \E l \in Learners : learner[l].at = "pack"

TrajectoryInv ==
  /\ WalkersOK /\ RowsOK
  /\ learner = [l \in Learners |-> learner[l]] /\ \A l \in Learners : Learning(l)
  /\ Packaging

LEMMA BeginningsExtend ==
  ASSUME NEW s \in Seq(AnyRow), NEW t \in Seq(AnyRow), Begins(s, t), NEW p, Begins(p, s)
  PROVE  Begins(p, t)
BY DEF Begins

LEMMA AppendBegins ==
  ASSUME NEW s \in Seq(AnyRow), NEW row \in AnyRow
  PROVE  Begins(s, Append(s, row))
BY DEF Begins

LEMMA WholeBegins == \A s \in Seq(AnyRow) : Begins(s, s) /\ Begins(<<>>, s)
BY DEF Begins

\* What two sequences one after the other hold.
LEMMA Joined ==
  ASSUME NEW s \in Seq(AnyRow), NEW t \in Seq(AnyRow)
  PROVE  /\ s \o t \in Seq(AnyRow) /\ Len(s \o t) = Len(s) + Len(t) /\ DOMAIN (s \o t) = 1..(Len(s) + Len(t))
         /\ \A i \in 1..(Len(s) + Len(t)) : (s \o t)[i] = IF i <= Len(s) THEN s[i] ELSE t[i - Len(s)]
OBVIOUS

LEMMA CountIsNat ==
  ASSUME NEW s \in Seq(AnyRow), NEW score
  PROVE  /\ IsFiniteSet(AtLeast(s, score)) /\ Cardinality(AtLeast(s, score)) \in Nat
         /\ Cardinality(AtLeast(s, score)) <= Len(s)
<1>1. AtLeast(s, score) \in SUBSET (1..Len(s))
  BY DEF AtLeast
<1>2. IsFiniteSet(1..Len(s)) /\ Cardinality(1..Len(s)) = Len(s)
  <2>1. Len(s) \in Nat
    OBVIOUS
  <2>2. IsFiniteSet(1..Len(s)) /\ Cardinality(1..Len(s)) = IF 1 > Len(s) THEN 0 ELSE Len(s) - 1 + 1
    BY <2>1, FS_Interval
  <2> QED
    BY <2>1, <2>2
<1>3. Cardinality(AtLeast(s, score)) <= Cardinality(1..Len(s)) /\ IsFiniteSet(AtLeast(s, score))
  BY <1>1, <1>2, FS_Subset
<1> QED
  BY <1>2, <1>3, FS_CardinalityType

\* The beginning of a ledger that a request has read, and stays one.
LEMMA BeginningIsRead ==
  ASSUME NEW p \in Seq(AnyRow), NEW s \in Seq(AnyRow), Begins(p, s)
  PROVE  Len(p) \in 0..Len(s) /\ SubSeq(s, 1, Len(p)) = p
<1>1. Len(p) \in Nat /\ Len(s) \in Nat /\ Len(p) <= Len(s) /\ \A i \in 1..Len(p) : p[i] = s[i]
  BY DEF Begins
<1>2. SubSeq(s, 1, Len(p)) = [i \in 1..Len(p) |-> s[i]]
  BY <1>1
<1>3. p = [i \in 1..Len(p) |-> p[i]]
  OBVIOUS
<1> QED
  BY <1>1, <1>2, <1>3

LEMMA BeginningStays ==
  ASSUME NEW s \in Seq(AnyRow), NEW t \in Seq(AnyRow), Begins(s, t), NEW m \in 0..Len(s)
  PROVE  m \in 0..Len(t) /\ SubSeq(t, 1, m) = SubSeq(s, 1, m)
<1>1. Len(s) \in Nat /\ Len(t) \in Nat /\ Len(s) <= Len(t) /\ \A i \in 1..m : t[i] = s[i]
  BY DEF Begins
<1>2. SubSeq(s, 1, m) = [i \in 1..m |-> s[i]] /\ SubSeq(t, 1, m) = [i \in 1..m |-> t[i]]
  BY <1>1
<1> QED
  BY <1>1, <1>2

---------------------------------------------------------------------------
(* The threads of /step and /loop. *)

RowsOnlyGrow ==
  /\ Begins(rows["steps"], rows'["steps"]) /\ Begins(rows["loops"], rows'["loops"])

LEMMA RowsAre ==
  ASSUME RowsOK
  PROVE  rows["steps"] \in Seq(AnyRow) /\ rows["loops"] \in Seq(AnyRow)
BY DEF RowsOK, AnyRow

\* A walker that appends a row, or none.
LEMMA RowsAppended ==
  ASSUME RowsOK,
         \/ rows' = rows
         \/ \E k \in {"steps", "loops"} : \E row \in RowsOf(k) : rows' = [rows EXCEPT ![k] = Append(@, row)]
  PROVE  RowsOK' /\ RowsOnlyGrow
<1>1. CASE rows' = rows
  BY <1>1, RowsAre, WholeBegins DEF RowsOK, RowsOnlyGrow
<1>2. ASSUME NEW k \in {"steps", "loops"}, NEW row \in RowsOf(k), rows' = [rows EXCEPT ![k] = Append(@, row)]
      PROVE  RowsOK' /\ RowsOnlyGrow
  <2>1. CASE k = "steps"
    <3>1. rows' = [steps |-> Append(rows["steps"], row), loops |-> rows["loops"]]
      BY <1>2, <2>1 DEF RowsOK
    <3>2. row \in AnyRow
      BY <2>1 DEF AnyRow
    <3>3. Append(rows["steps"], row) \in Seq(RowsOf("steps"))
      BY <2>1 DEF RowsOK
    <3> QED
      BY <3>1, <3>2, <3>3, RowsAre, AppendBegins, WholeBegins DEF RowsOK, RowsOnlyGrow
  <2>2. CASE k = "loops"
    <3>1. rows' = [steps |-> rows["steps"], loops |-> Append(rows["loops"], row)]
      BY <1>2, <2>2 DEF RowsOK
    <3>2. row \in AnyRow
      BY <2>2 DEF AnyRow
    <3>3. Append(rows["loops"], row) \in Seq(RowsOf("loops"))
      BY <2>2 DEF RowsOK
    <3> QED
      BY <3>1, <3>2, <3>3, RowsAre, AppendBegins, WholeBegins DEF RowsOK, RowsOnlyGrow
  <2> QED
    BY <2>1, <2>2
<1> QED
  BY <1>1, <1>2

\* What learners know stays true while rows are added.
LEMMA GrowthKeepsLearning ==
  ASSUME TrajectoryInv, RowsOK', RowsOnlyGrow, UNCHANGED learnVars
  PROVE  (\A l \in Learners : Learning(l)') /\ Packaging'
<1>1. UNCHANGED <<learner, sft, manifest, smudged>>
  BY DEF learnVars
<1>2. /\ rows["steps"] \in Seq(AnyRow) /\ rows["loops"] \in Seq(AnyRow)
      /\ rows'["steps"] \in Seq(AnyRow) /\ rows'["loops"] \in Seq(AnyRow)
  BY RowsAre DEF TrajectoryInv, RowsOK, AnyRow
<1>3. ASSUME NEW l \in Learners, HasRead(l)
      PROVE  HasRead(l)'
  <2>1. \A p : Begins(p, rows["steps"]) => Begins(p, rows'["steps"])
    BY <1>2, BeginningsExtend DEF RowsOnlyGrow
  <2>2. \A p : Begins(p, rows["loops"]) => Begins(p, rows'["loops"])
    BY <1>2, BeginningsExtend DEF RowsOnlyGrow
  <2> QED
    <3>1. PICK p1 \in Seq(AnyRow), p2 \in Seq(AnyRow), q1 \in Seq(AnyRow), q2 \in Seq(AnyRow) :
            /\ Begins(p1, rows["steps"]) /\ Begins(p2, rows["steps"])
            /\ Begins(q1, rows["loops"]) /\ Begins(q2, rows["loops"])
            /\ ReadAs(learner[l], p1, p2, q1, q2)
      BY <1>3 DEF HasRead
    <3>2. ReadAs(learner'[l], p1, p2, q1, q2)
      BY <1>1, <3>1
    <3> QED
      BY <2>1, <2>2, <3>1, <3>2 DEF HasRead
<1>4. ASSUME NEW l \in Learners, Earned(l)
      PROVE  Earned(l)'
  <2>1. PICK m \in 0..Len(rows["steps"]), n \in 0..Len(rows["loops"]) :
          /\ Cardinality(AtLeast(Beginning(m, n), learner[l].asked.score)) >= learner[l].asked.samples
          /\ AverageAtLeast(Beginning(m, n), learner[l].asked.score)
    BY <1>4 DEF Earned
  <2>2. m \in 0..Len(rows'["steps"]) /\ n \in 0..Len(rows'["loops"]) /\ Beginning(m, n)' = Beginning(m, n)
    BY <1>2, BeginningStays DEF RowsOnlyGrow, Beginning
  <2>3. learner[l].asked.samples >= 10 => rows'["steps"] # <<>> /\ rows'["loops"] # <<>>
    <3> SUFFICES ASSUME learner[l].asked.samples >= 10 PROVE rows'["steps"] # <<>> /\ rows'["loops"] # <<>>
      OBVIOUS
    <3>1. Len(rows["steps"]) > 0 /\ Len(rows["loops"]) > 0
      BY <1>2, <1>4 DEF Earned
    <3>2. Len(rows["steps"]) <= Len(rows'["steps"]) /\ Len(rows["loops"]) <= Len(rows'["loops"])
      BY DEF RowsOnlyGrow, Begins
    <3> QED
      BY <1>2, <3>1, <3>2
  <2>4. /\ Cardinality(AtLeast(Beginning(m, n)', learner'[l].asked.score)) >= learner'[l].asked.samples
        /\ AverageAtLeast(Beginning(m, n)', learner'[l].asked.score)
    BY <1>1, <2>1, <2>2
  <2> QED
    BY <1>1, <1>4, <2>2, <2>3, <2>4 DEF Earned
<1>5. ASSUME NEW l \in Learners
      PROVE  Learning(l)'
  BY <1>1, <1>3, <1>4 DEF TrajectoryInv, Learning
<1> QED
  BY <1>1, <1>5 DEF TrajectoryInv, Packaging, Busy

LEMMA WalkStep ==
  ASSUME TrajectoryInv, NEW w \in Walkers,
         AsksFor(w) \/ Thinks(w) \/ PersistsStep(w) \/ Decides(w) \/ PersistsLoop(w)
  PROVE  TrajectoryInv'
<1> DEFINE t == walker[w]
<1>1. WalkersOK /\ RowsOK /\ Fits(t)
  BY DEF TrajectoryInv, WalkersOK
<1> SUFFICES ASSUME NEW next, walker' = [walker EXCEPT ![w] = next], Fits(next), lore' \subseteq Risks,
                    UNCHANGED learnVars,
                    \/ rows' = rows
                    \/ \E k \in {"steps", "loops"} : \E row \in RowsOf(k) : rows' = [rows EXCEPT ![k] = Append(@, row)]
             PROVE  TrajectoryInv'
  <2>1. CASE AsksFor(w)
    <3>1. PICK goal \in Goals : walker' = [walker EXCEPT ![w] = Begun(goal)] /\ UNCHANGED <<lore, rows, learnVars>>
      BY <2>1 DEF AsksFor
    <3>2. goal.risks \subseteq Risks /\ goal \in Goal
      BY TrajectoryAssumption DEF Goal
    <3>3. Fits(Begun(goal))
      BY <3>2 DEF Begun, Fits, Walk, Stops
    <3> QED
      BY <1>1, <3>1, <3>3 DEF WalkersOK
  <2>2. CASE Thinks(w)
    <3>1. t \in Walk /\ lore \subseteq Risks
      BY <1>1, <2>2 DEF Thinks, Fits, WalkersOK
    <3>2. PICK evidence \in SUBSET lore, hidden \in BOOLEAN :
            LET text == t.task \cup evidence \cup Sentence(t.goal.aware)
                immune == ScanText(text)
                row == Row("steps", immune, t.goal.path, RequiresHuman(immune, t.goal.path), hidden, "none")
            IN  /\ walker' = [walker EXCEPT ![w].at = "persist", ![w].task = text, ![w].row = row]
                /\ lore' = lore \cup text
      BY <2>2 DEF Thinks
    <3> DEFINE text == t.task \cup evidence \cup Sentence(t.goal.aware)
               immune == ScanText(text)
               row == Row("steps", immune, t.goal.path, RequiresHuman(immune, t.goal.path), hidden, "none")
               next == [t EXCEPT !.at = "persist", !.task = text, !.row = row]
    <3>3. immune \in Immunity
      BY DEF ScanText, Scan, State, Immunity
    <3>4. t.goal.path \in BOOLEAN /\ RequiresHuman(immune, t.goal.path) \in BOOLEAN
      BY <3>1 DEF Walk, Goal, RequiresHuman
    <3>5. text \subseteq Risks
      BY <3>1, <3>2 DEF Walk, Sentence, Risks
    <3> HIDE DEF text, immune
    <3>6. row \in RowsOf("steps")
      BY <3>2, <3>3, <3>4 DEF Row, RowsOf, Stops
    <3>7. /\ walker' = [walker EXCEPT ![w].at = "persist", ![w].task = text, ![w].row = row]
          /\ lore' = lore \cup text
      BY <3>2 DEF text, immune
    <3> HIDE DEF row
    <3>8. walker' = [walker EXCEPT ![w] = next]
      BY <1>1, <3>7 DEF WalkersOK
    <3>9. Fits(next)
      BY <3>1, <3>5, <3>6 DEF Fits, Walk
    <3>10. UNCHANGED <<rows, learnVars>>
      BY <2>2 DEF Thinks
    <3> QED
      BY <3>1, <3>5, <3>7, <3>8, <3>9, <3>10
  <2>3. CASE PersistsStep(w)
    <3>1. t \in Walk /\ t.row \in RowsOf("steps")
      BY <1>1, <2>3 DEF PersistsStep, Fits
    <3> DEFINE onwards == [t EXCEPT !.at = "decide", !.steps = Append(@, t.row)]
    <3>2. rows' = [rows EXCEPT !["steps"] = Append(@, t.row)] /\ UNCHANGED <<lore, learnVars>>
      BY <2>3 DEF PersistsStep
    <3>3. walker' = [walker EXCEPT ![w] = Over] \/ walker' = [walker EXCEPT ![w] = onwards]
      <4>1. walker' = IF walker[w].goal.loop
                      THEN [walker EXCEPT ![w].at = "decide", ![w].steps = Append(@, walker[w].row)]
                      ELSE [walker EXCEPT ![w] = Over]
        BY <2>3 DEF PersistsStep
      <4>2. [walker EXCEPT ![w].at = "decide", ![w].steps = Append(@, walker[w].row)] = [walker EXCEPT ![w] = onwards]
        BY <1>1 DEF WalkersOK
      <4> QED
        BY <4>1, <4>2
    <3>4. Fits(Over)
      BY DEF Over, Fits
    <3>5. Append(t.steps, t.row) \in Seq(RowsOf("steps"))
      BY <3>1 DEF Walk
    <3>6. Fits(onwards)
      BY <3>1, <3>5 DEF Fits, Walk
    <3> HIDE DEF onwards
    <3> QED
      BY <1>1, <3>1, <3>2, <3>3, <3>4, <3>6 DEF WalkersOK
  <2>4. CASE Decides(w)
    <3>1. t \in Walk /\ t.row \in RowsOf("steps")
      BY <1>1, <2>4 DEF Decides, Fits
    <3>2. PICK stop : stop = StopReason(t.row, t.index, MaxSteps(t.goal.wants))
      OBVIOUS
    <3>3. stop \in Stops
      BY <3>2 DEF StopReason, Stops
    <3> DEFINE at == IF stop = "none" THEN "think" ELSE "report"
               next == [t EXCEPT !.at = at, !.index = @ + 1, !.stop = stop]
    <3>4. at \in {"think", "report"}
      OBVIOUS
    <3>5. walker' = [walker EXCEPT ![w].at = at, ![w].index = @ + 1, ![w].stop = stop]
          /\ UNCHANGED <<lore, rows, learnVars>>
      BY <2>4, <3>2 DEF Decides
    <3> HIDE DEF at
    <3>6. walker' = [walker EXCEPT ![w] = next]
      BY <1>1, <3>5 DEF WalkersOK
    <3>7. Fits(next)
      <4>1. t.index + 1 \in Nat
        BY <3>1 DEF Walk
      <4>2. next \in Walk /\ next.at = at
        BY <3>1, <3>3, <3>4, <4>1 DEF Walk
      <4> QED
        BY <3>4, <4>2 DEF Fits
    <3> QED
      BY <1>1, <3>5, <3>6, <3>7 DEF WalkersOK
  <2>5. CASE PersistsLoop(w)
    <3>1. t.stop \in Stops
      BY <1>1, <2>5 DEF PersistsLoop, Fits, Walk
    <3>2. PICK hidden \in BOOLEAN :
            rows' = [rows EXCEPT !["loops"] = Append(@, Row("loops", "none", FALSE, FALSE, hidden, t.stop))]
      BY <2>5 DEF PersistsLoop
    <3>3. Row("loops", "none", FALSE, FALSE, hidden, t.stop) \in RowsOf("loops")
      BY <3>1 DEF Row, RowsOf, Immunity
    <3>4. Fits(Over)
      BY DEF Over, Fits
    <3>5. walker' = [walker EXCEPT ![w] = Over] /\ UNCHANGED <<lore, learnVars>>
      BY <2>5 DEF PersistsLoop
    <3> QED
      BY <1>1, <3>2, <3>3, <3>4, <3>5 DEF WalkersOK
  <2> QED
    BY <2>1, <2>2, <2>3, <2>4, <2>5
<1>2. RowsOK' /\ RowsOnlyGrow
  BY <1>1, RowsAppended
<1>3. (\A l \in Learners : Learning(l)') /\ Packaging'
  BY <1>2, GrowthKeepsLearning
<1>4. WalkersOK'
  BY <1>1 DEF WalkersOK
<1> QED
  BY <1>2, <1>3, <1>4 DEF TrajectoryInv, learnVars

---------------------------------------------------------------------------
(* The requests under /learning. *)

\* A request l that goes on alone: only what it knows is in question.
LEMMA OneLearner ==
  ASSUME TrajectoryInv, NEW l \in Learners, NEW next, learner' = [learner EXCEPT ![l] = next],
         UNCHANGED <<walkVars, rows>>, manifest.there => manifest'.there, Learning(l)', Packaging'
  PROVE  TrajectoryInv'
<1>1. WalkersOK' /\ RowsOK'
  BY DEF TrajectoryInv, walkVars, WalkersOK, RowsOK
<1>2. learner' = [k \in Learners |-> learner'[k]] /\ \A k \in Learners \ {l} : learner'[k] = learner[k]
  BY DEF TrajectoryInv
<1>3. ASSUME NEW k \in Learners \ {l}
      PROVE  Learning(k)'
  <2>1. learner'[k] = learner[k] /\ rows' = rows
    BY <1>2
  <2>2. HasRead(k)' <=> HasRead(k)
    BY <2>1 DEF HasRead
  <2>3. Earned(k) => Earned(k)'
    BY <2>1 DEF Earned, Beginning
  <2> QED
    BY <2>1, <2>2, <2>3 DEF TrajectoryInv, Learning
<1> QED
  BY <1>1, <1>2, <1>3 DEF TrajectoryInv

LEMMA PairIsFunction ==
  ASSUME NEW S, NEW a \in S, NEW b \in S
  PROVE  <<a, b>> \in [1..2 -> S] /\ <<a, b>>[1] = a /\ <<a, b>>[2] = b
OBVIOUS

LEMMA FreeIsARequest ==
  /\ Free \in Request /\ Done \in Request /\ Done.at = "done" /\ Done.asks = "none" /\ Free.read \in [1..2 -> Seq(AnyRow)]
  /\ Free.next = 1 /\ Free.read[1] = <<>> /\ Free.read[2] = <<>> /\ MissingFile \in DatasetFile
<1>1. MissingFile \in DatasetFile
  BY DEF MissingFile, DatasetFile
<1>2. PICK none : none = <<>> /\ none \in Seq(AnyRow)
  <2>1. <<>> \in Seq(AnyRow)
    OBVIOUS
  <2> QED
    BY Zenon, <2>1
<1>3. Free.read = <<none, none>> /\ Free.next = 1
  BY <1>2 DEF Free
<1>6. Free.read \in [1..2 -> Seq(AnyRow)] /\ Free.read[1] = <<>> /\ Free.read[2] = <<>>
  <2>1. <<none, none>> \in [1..2 -> Seq(AnyRow)] /\ <<none, none>>[1] = none /\ <<none, none>>[2] = none
    BY <1>2, PairIsFunction
  <2> QED
    BY <1>2, <1>3, <2>1
<1>4. Free \in Request
  BY <1>1, <1>6 DEF Free, Request, Places, Usual, Threshold
<1>5. Done \in Request /\ Done.at = "done" /\ Done.asks = "none"
  BY <1>4 DEF Done, Request, Places, Free
<1> QED
  BY <1>1, <1>3, <1>4, <1>5, <1>6

\* An export or a packaging begins.
LEMMA AskStep ==
  ASSUME TrajectoryInv, NEW l \in Learners, AsksToExport(l) \/ AsksToPackage(l)
  PROVE  TrajectoryInv'
<1> DEFINE t == learner[l]
<1>1. Learning(l) /\ t = Free /\ t.at = "idle" /\ learner = [k \in Learners |-> learner[k]] /\ Packaging
  BY DEF TrajectoryInv, Learning, AsksToExport, AsksToPackage
<1>2. PICK at \in {"read", "hash"}, asks \in {"export", "package"} :
        /\ learner' = [learner EXCEPT ![l].at = at, ![l].asks = asks]
        /\ at = "hash" => sft.there
        /\ smudged' = (smudged \/ Overlaps(l))
        /\ UNCHANGED <<walkVars, rows, sft, manifest>>
  BY DEF AsksToExport, AsksToPackage
<1> DEFINE next == [t EXCEPT !.at = at, !.asks = asks]
<1>3. learner' = [learner EXCEPT ![l] = next]
  BY <1>1, <1>2
<1>4. next \in Request /\ next.at = at /\ next.asks = asks /\ next.next = 1
  BY <1>1, FreeIsARequest DEF Request, Places
<1> HIDE DEF next
<1>5. learner'[l] = next /\ \A k \in Learners \ {l} : learner'[k] = learner[k]
  BY <1>1, <1>3
<1>6. Learning(l)'
  BY <1>4, <1>5 DEF Learning
<1>7. Packaging'
  <2>1. smudged' \in BOOLEAN /\ sft' \in DatasetFile
    BY <1>1, <1>2 DEF Packaging
  <2>2. ASSUME ~smudged'
        PROVE  /\ ~smudged /\ \A k \in Learners \ {l} : ~Busy(k)
               /\ \A k \in Learners \ {l} : ~Busy(k)'
    BY <1>2, <1>5, <2>2 DEF Overlaps, Busy
  <2>3. ASSUME ~smudged', sft.there
        PROVE  sft.whole
    <3>1. sft.whole \/ \E k \in Learners : learner[k].at = "write"
      BY <1>1, <2>2, <2>3 DEF Packaging
    <3>2. ASSUME NEW k \in Learners, learner[k].at = "write"
          PROVE  FALSE
      BY <1>1, <2>2, <2>3, <3>2 DEF TrajectoryInv, Learning, Busy
    <3> QED
      BY <3>1, <3>2
  <2>4. ASSUME ~smudged', NEW k \in Learners
        PROVE  /\ learner'[k].at = "hash" => sft'.whole
               /\ learner'[k].at \in {"manifest", "pack"} => learner'[k].hash.whole
    BY <1>1, <1>2, <1>4, <1>5, <2>2, <2>3, <2>4 DEF Packaging
  <2>5. ASSUME ~smudged'
        PROVE  /\ \A k, m \in Learners : Busy(k)' /\ Busy(m)' => k = m
               /\ sft'.there => sft'.whole
    BY <1>1, <1>2, <2>2, <2>3, <2>5 DEF Packaging
  <2>6. ASSUME ~smudged', manifest'.there
        PROVE  manifest'.whole /\ manifest'.dataset.whole
    <3>1. (manifest.whole /\ manifest.dataset.whole) \/ \E k \in Learners : learner[k].at = "pack"
      BY <1>1, <1>2, <2>2, <2>6 DEF Packaging
    <3>2. ASSUME NEW k \in Learners, learner[k].at = "pack"
          PROVE  FALSE
      BY <1>1, <2>2, <2>6, <3>2 DEF TrajectoryInv, Learning, Busy
    <3> QED
      BY <1>2, <3>1, <3>2
  <2> QED
    BY <2>1, <2>4, <2>5, <2>6 DEF Packaging
<1> QED
  BY <1>2, <1>3, <1>6, <1>7, OneLearner

\* What happens to a package when l is as busy as it was, and no file changes.
LEMMA PackagingStays ==
  ASSUME TrajectoryInv, NEW l \in Learners, NEW next, learner' = [learner EXCEPT ![l] = next],
         UNCHANGED <<sft, manifest, smudged>>,
         (next.asks \in {"export", "package"} /\ next.at \notin {"idle", "done"}) => Busy(l),
         learner[l].at \notin {"write", "pack"}, next.at \notin {"hash", "pack"},
         next.at = "manifest" => learner[l].at = "hash" /\ next.hash = sft
  PROVE  Packaging'
<1>1. Packaging /\ learner'[l] = next /\ \A k \in Learners \ {l} : learner'[k] = learner[k]
  BY DEF TrajectoryInv
<1>2. \A k \in Learners : Busy(k)' => Busy(k)
  BY <1>1 DEF Busy
<1>3. \A k \in Learners : learner[k].at \in {"write", "pack"} => learner'[k].at = learner[k].at
  BY <1>1
<1>4. ASSUME ~smudged, NEW k \in Learners
      PROVE  /\ learner'[k].at = "hash" => sft.whole
             /\ learner'[k].at \in {"manifest", "pack"} => learner'[k].hash.whole
  BY <1>1, <1>4 DEF Packaging
<1> QED
  BY <1>1, <1>2, <1>3, <1>4 DEF Packaging

LEMMA AsksTheGateStep ==
  ASSUME TrajectoryInv, NEW l \in Learners, AsksTheGate(l)
  PROVE  TrajectoryInv'
<1> DEFINE t == learner[l]
<1>1. Learning(l) /\ t = Free /\ t.at = "idle" /\ learner = [k \in Learners |-> learner[k]]
  BY DEF TrajectoryInv, Learning, AsksTheGate
<1>2. PICK witness \in BOOLEAN, wanted \in Thresholds :
        learner' = [learner EXCEPT ![l].at = "read", ![l].asks = "gate", ![l].witness = witness, ![l].asked = wanted]
  BY DEF AsksTheGate
<1> DEFINE next == [t EXCEPT !.at = "read", !.asks = "gate", !.witness = witness, !.asked = wanted]
<1>3. learner' = [learner EXCEPT ![l] = next]
  BY <1>1, <1>2
<1>4. next \in Request /\ next.at = "read" /\ next.asks = "gate" /\ next.next = 1 /\ next.read = Free.read
  BY <1>1, FreeIsARequest, TrajectoryAssumption DEF Request, Places
<1> HIDE DEF next
<1>5. learner'[l] = next /\ UNCHANGED <<walkVars, rows, sft, manifest, smudged>>
  BY <1>1, <1>3 DEF AsksTheGate
<1>6. HasRead(l)'
  <2>1. /\ rows["steps"] \in Seq(AnyRow) /\ rows["loops"] \in Seq(AnyRow)
        /\ <<>> \in Seq(AnyRow) /\ Begins(<<>>, rows["steps"]) /\ Begins(<<>>, rows["loops"])
    BY RowsAre, WholeBegins DEF TrajectoryInv
  <2>2. <<>> \o <<>> = <<>>
    OBVIOUS
  <2>3. ReadAs(next, <<>>, <<>>, <<>>, <<>>)
    BY <1>4, <2>2, FreeIsARequest DEF ReadAs
  <2> QED
    BY <1>5, <2>1, <2>3 DEF HasRead
<1>7. Learning(l)'
  BY <1>4, <1>5, <1>6 DEF Learning
<1>8. Packaging'
  BY <1>1, <1>3, <1>4, <1>5, PackagingStays
<1> QED
  BY <1>3, <1>5, <1>7, <1>8, OneLearner

LEMMA NothingMore == \A s \in Seq(AnyRow) : s \o <<>> = s /\ <<>> \o s = s
OBVIOUS

LEMMA Ledgers ==
  ToRead[1] = "steps" /\ ToRead[2] = "loops" /\ ToRead[3] = "steps" /\ ToRead[4] = "loops"
BY DEF ToRead

LEMMA PairUpdated ==
  ASSUME NEW S, NEW f \in [1..2 -> S], NEW a
  PROVE  /\ [f EXCEPT ![1] = a][1] = a /\ [f EXCEPT ![1] = a][2] = f[2]
         /\ [f EXCEPT ![2] = a][2] = a /\ [f EXCEPT ![2] = a][1] = f[1]
OBVIOUS

\* One more ledger in what a gate has read.
OneMore(read, t, n) == read = [t.read EXCEPT ![IF n <= 2 THEN 1 ELSE 2] = @ \o rows[ToRead[n]]]

LEMMA GateReads ==
  ASSUME RowsOK, NEW l \in Learners, HasRead(l), NEW n \in 1..4, learner[l].next = n, learner[l] \in Request,
         NEW next, next.next = n + 1, OneMore(next.read, learner[l], n)
  PROVE  \E p1, p2, q1, q2 \in Seq(AnyRow) :
           /\ Begins(p1, rows["steps"]) /\ Begins(p2, rows["steps"])
           /\ Begins(q1, rows["loops"]) /\ Begins(q2, rows["loops"])
           /\ ReadAs(next, p1, p2, q1, q2)
<1> DEFINE s == rows["steps"]
           p == rows["loops"]
<1>1. PICK p1 \in Seq(AnyRow), p2 \in Seq(AnyRow), q1 \in Seq(AnyRow), q2 \in Seq(AnyRow) :
        /\ Begins(p1, s) /\ Begins(p2, s) /\ Begins(q1, p) /\ Begins(q2, p)
        /\ ReadAs(learner[l], p1, p2, q1, q2)
  BY DEF HasRead
<1>2. s \in Seq(AnyRow) /\ p \in Seq(AnyRow) /\ learner[l].read \in [1..2 -> Seq(AnyRow)]
  BY RowsAre DEF Request
<1>3. /\ Begins(s, s) /\ Begins(p, p) /\ Len(p1) <= Len(s) /\ Len(q1) <= Len(p)
  BY <1>1, <1>2, WholeBegins DEF Begins
<1>4. learner[l].read[1] = p1 \o q1 /\ learner[l].read[2] = p2 \o q2
  BY <1>1 DEF ReadAs
<1> HIDE DEF s, p
<1>5. CASE n = 1
  <2>0. next.read = [learner[l].read EXCEPT ![1] = learner[l].read[1] \o s] /\ next.next = 2
    BY <1>5, Ledgers DEF s, OneMore
  <2>1. p1 = <<>> /\ q1 = <<>> /\ p2 = <<>> /\ q2 = <<>>
    BY <1>1, <1>5 DEF ReadAs
  <2>2. next.read[1] = (p1 \o q1) \o s /\ next.read[2] = p2 \o q2
    <3>1. next.read[1] = learner[l].read[1] \o s /\ next.read[2] = learner[l].read[2]
      BY <1>2, <2>0, PairUpdated, SMTT(30)
    <3> QED
      BY <1>4, <3>1
  <2>3. (p1 \o q1) \o s = s \o q1
    BY <1>2, <2>1, NothingMore
  <2>4. ReadAs(next, s, p2, q1, q2)
    BY <2>1, <2>2, <2>3, <2>0 DEF ReadAs
  <2> QED
    BY <1>1, <1>2, <1>3, <2>4 DEF s, p
<1>6. CASE n = 2
  <2>0. next.read = [learner[l].read EXCEPT ![1] = learner[l].read[1] \o p] /\ next.next = 3
    BY <1>6, Ledgers DEF p, OneMore
  <2>1. q1 = <<>> /\ p2 = <<>> /\ q2 = <<>>
    BY <1>1, <1>6 DEF ReadAs
  <2>2. next.read[1] = (p1 \o q1) \o p /\ next.read[2] = p2 \o q2
    <3>1. next.read[1] = learner[l].read[1] \o p /\ next.read[2] = learner[l].read[2]
      BY <1>2, <2>0, PairUpdated, SMTT(30)
    <3> QED
      BY <1>4, <3>1
  <2>3. (p1 \o q1) \o p = p1 \o p
    BY <1>1, <2>1, NothingMore
  <2>4. ReadAs(next, p1, p2, p, q2)
    BY <2>1, <2>2, <2>3, <2>0 DEF ReadAs
  <2> QED
    BY <1>1, <1>2, <1>3, <2>4 DEF s, p
<1>7. CASE n = 3
  <2>0. next.read = [learner[l].read EXCEPT ![2] = learner[l].read[2] \o s] /\ next.next = 4
    BY <1>7, Ledgers DEF s, OneMore
  <2>1. p2 = <<>> /\ q2 = <<>>
    BY <1>1, <1>7 DEF ReadAs
  <2>2. next.read[1] = p1 \o q1 /\ next.read[2] = (p2 \o q2) \o s
    <3>1. next.read[2] = learner[l].read[2] \o s /\ next.read[1] = learner[l].read[1]
      BY <1>2, <2>0, PairUpdated, SMTT(30)
    <3> QED
      BY <1>4, <3>1
  <2>3. (p2 \o q2) \o s = s \o q2
    BY <1>2, <2>1, NothingMore
  <2>4. ReadAs(next, p1, s, q1, q2)
    BY <1>3, <2>1, <2>2, <2>3, <2>0 DEF ReadAs
  <2> QED
    BY <1>1, <1>2, <1>3, <2>4 DEF s, p
<1>8. CASE n = 4
  <2>0. next.read = [learner[l].read EXCEPT ![2] = learner[l].read[2] \o p] /\ next.next = 5
    BY <1>8, Ledgers DEF p, OneMore
  <2>1. q2 = <<>> /\ Len(p1) <= Len(p2)
    BY <1>1, <1>8 DEF ReadAs
  <2>2. next.read[1] = p1 \o q1 /\ next.read[2] = (p2 \o q2) \o p
    <3>1. next.read[2] = learner[l].read[2] \o p /\ next.read[1] = learner[l].read[1]
      BY <1>2, <2>0, PairUpdated, SMTT(30)
    <3> QED
      BY <1>4, <3>1
  <2>3. (p2 \o q2) \o p = p2 \o p
    BY <1>1, <2>1, NothingMore
  <2>4. ReadAs(next, p1, p2, q1, p)
    BY <1>3, <2>1, <2>2, <2>3, <2>0 DEF ReadAs
  <2> QED
    BY <1>1, <1>2, <1>3, <2>4 DEF s, p
<1> QED
  BY <1>5, <1>6, <1>7, <1>8

LEMMA ReadsLedgerStep ==
  ASSUME TrajectoryInv, NEW l \in Learners, ReadsLedger(l)
  PROVE  TrajectoryInv'
<1> DEFINE t == learner[l]
           n == t.next
           last == IF t.asks = "gate" THEN n = 4 ELSE n = 2
           at == IF ~last THEN "read" ELSE IF t.asks = "gate" THEN "judge" ELSE "open"
           round == IF n <= 2 THEN 1 ELSE 2
           read == [t.read EXCEPT ![round] = @ \o rows[ToRead[n]]]
           next == [t EXCEPT !.read = read, !.next = n + 1, !.at = at]
<1>1. /\ Learning(l) /\ t.at = "read" /\ learner = [k \in Learners |-> learner[k]] /\ RowsOK /\ t \in Request
      /\ (t.asks = "gate" => HasRead(l))
  BY DEF TrajectoryInv, Learning, ReadsLedger
<1>2. n \in (IF t.asks = "gate" THEN 1..4 ELSE 1..2) /\ n \in 1..4
  BY <1>1 DEF Learning
<1>3. UNCHANGED <<walkVars, rows, sft, manifest, smudged>>
  BY DEF ReadsLedger
<1>4. learner' = [learner EXCEPT ![l] = next]
  BY <1>1 DEF ReadsLedger
<1>5. read \in [1..2 -> Seq(AnyRow)]
  <2>1. rows[ToRead[n]] \in Seq(AnyRow)
    BY <1>1, <1>2, Ledgers, RowsAre
  <2>2. t.read[round] \o rows[ToRead[n]] \in Seq(AnyRow) /\ t.read \in [1..2 -> Seq(AnyRow)]
    BY <1>1, <2>1 DEF Request
  <2> QED
    BY <2>2
<1>6. at \in {"read", "judge", "open"} /\ n + 1 \in 1..5
  BY <1>2
<1> HIDE DEF read, at
<1>7. next \in Request /\ next.at = at /\ next.next = n + 1 /\ next.read = read /\ next.asks = t.asks
  BY <1>1, <1>5, <1>6 DEF Request, Places
<1> HIDE DEF next
<1>8. learner'[l] = next
  BY <1>1, <1>4
<1>9. HasRead(l)' \/ t.asks # "gate"
  <2>1. SUFFICES ASSUME t.asks = "gate"
                 PROVE  HasRead(l)'
    OBVIOUS
  <2>2. \E p1, p2, q1, q2 \in Seq(AnyRow) :
           /\ Begins(p1, rows["steps"]) /\ Begins(p2, rows["steps"])
           /\ Begins(q1, rows["loops"]) /\ Begins(q2, rows["loops"])
           /\ ReadAs(next, p1, p2, q1, q2)
    BY <1>1, <1>2, <1>7, <2>1, GateReads DEF read, OneMore
  <2> QED
    BY <1>3, <1>8, <2>2 DEF HasRead
<1>10. Learning(l)'
  <2>1. CASE t.asks = "gate"
    BY <1>1, <1>2, <1>7, <1>8, <1>9, <2>1 DEF Learning, at
  <2>2. CASE t.asks # "gate"
    <3>1. t.asks \in {"export", "package"} /\ n \in 1..2
      BY <1>1, <1>2, <2>2 DEF Learning, Request
    <3> QED
      BY <1>1, <1>2, <1>7, <1>8, <2>2, <3>1 DEF Learning, at
  <2> QED
    BY <2>1, <2>2
<1>11. Packaging'
  <2>1. next.at \notin {"hash", "manifest", "pack", "idle", "done"} /\ t.at \notin {"write", "pack"}
    BY <1>1, <1>6, <1>7
  <2>2. (next.asks \in {"export", "package"} /\ next.at \notin {"idle", "done"}) => Busy(l)
    BY <1>1, <1>7 DEF Busy
  <2> QED
    BY <1>3, <1>4, <2>1, <2>2, PackagingStays
<1> QED
  BY <1>3, <1>4, <1>10, <1>11, OneLearner

LEMMA OpensDatasetStep ==
  ASSUME TrajectoryInv, NEW l \in Learners, OpensDataset(l)
  PROVE  TrajectoryInv'
<1> DEFINE t == learner[l]
           next == [t EXCEPT !.at = "write"]
<1>1. Learning(l) /\ t.at = "open" /\ t \in Request /\ t.asks \in {"export", "package"} /\ Packaging
  BY DEF TrajectoryInv, Learning, OpensDataset
<1>2. learner' = [learner EXCEPT ![l] = next] /\ sft' = OpenedFile
      /\ UNCHANGED <<walkVars, rows, manifest, smudged>>
  BY DEF TrajectoryInv, OpensDataset
<1>3. next \in Request /\ next.at = "write" /\ next.asks = t.asks
  BY <1>1 DEF Request, Places
<1> HIDE DEF next
<1>4. learner'[l] = next /\ \A k \in Learners \ {l} : learner'[k] = learner[k]
  BY <1>2 DEF TrajectoryInv
<1>5. Learning(l)'
  BY <1>1, <1>3, <1>4 DEF Learning
<1>6. Packaging'
  <2>1. Busy(l) /\ \A k \in Learners : Busy(k)' <=> Busy(k)
    BY <1>1, <1>3, <1>4 DEF Busy
  <2>2. ASSUME ~smudged, NEW k \in Learners \ {l}, learner[k].at \in {"hash", "manifest", "pack"}
        PROVE  FALSE
    <3>1. Busy(k)
      BY <2>2 DEF TrajectoryInv, Learning, Busy
    <3> QED
      BY <1>1, <2>1, <2>2, <3>1 DEF Packaging
  <2>3. sft' \in DatasetFile
    BY <1>2 DEF DatasetFile, OpenedFile
  <2>4. \E k \in Learners : learner'[k].at = "write"
    BY <1>3, <1>4
  <2>5. ASSUME ~smudged, NEW k \in Learners
        PROVE  learner'[k].at \notin {"hash", "manifest", "pack"} /\ learner[k].at # "pack"
    BY <1>1, <1>3, <1>4, <2>2, <2>5
  <2> QED
    BY <1>1, <1>2, <2>1, <2>3, <2>4, <2>5 DEF Packaging
<1> QED
  BY <1>2, <1>5, <1>6, OneLearner

LEMMA WritesDatasetStep ==
  ASSUME TrajectoryInv, NEW l \in Learners, WritesDataset(l)
  PROVE  TrajectoryInv'
<1> DEFINE t == learner[l]
           onwards == [t EXCEPT !.at = "hash", !.read = Free.read]
<1>1. Learning(l) /\ t.at = "write" /\ t \in Request /\ t.asks \in {"export", "package"} /\ Packaging
  BY DEF TrajectoryInv, Learning, WritesDataset
<1>4. sft' = WholeFile /\ UNCHANGED <<walkVars, rows, manifest, smudged>>
  BY DEF WritesDataset
<1>5. onwards \in Request /\ onwards.at = "hash" /\ onwards.asks = t.asks
  BY <1>1, FreeIsARequest DEF Request, Places
<1>6. learner' = [learner EXCEPT ![l] = onwards] \/ learner' = [learner EXCEPT ![l] = Done]
  BY DEF TrajectoryInv, WritesDataset
<1> HIDE DEF onwards
<1>7. PICK next \in {onwards, Done} : learner' = [learner EXCEPT ![l] = next]
  BY <1>6
<1>8. next \in Request /\ next.at \in {"hash", "done"} /\ (next.at = "hash" => next.asks = t.asks)
  BY <1>5, FreeIsARequest
<1>9. learner'[l] = next /\ \A k \in Learners \ {l} : learner'[k] = learner[k]
  BY <1>7 DEF TrajectoryInv
<1>10. Learning(l)'
  BY <1>1, <1>8, <1>9 DEF Learning
<1>11. Packaging'
  <2>1. Busy(l) /\ \A k \in Learners : Busy(k)' => Busy(k)
    BY <1>1, <1>8, <1>9 DEF Busy
  <2>2. sft' \in DatasetFile /\ sft'.whole
    BY <1>4 DEF DatasetFile, WholeFile
  <2>3. ASSUME ~smudged, NEW k \in Learners, learner'[k].at \in {"manifest", "pack"}
        PROVE  learner'[k].hash.whole
    BY <1>1, <1>8, <1>9, <2>3 DEF Packaging
  <2>4. \A k \in Learners : learner[k].at = "pack" => learner'[k].at = "pack"
    BY <1>1, <1>9
  <2> QED
    BY <1>1, <1>4, <2>1, <2>2, <2>3, <2>4 DEF Packaging
<1> QED
  BY <1>4, <1>7, <1>10, <1>11, OneLearner

LEMMA HashesDatasetStep ==
  ASSUME TrajectoryInv, NEW l \in Learners, HashesDataset(l)
  PROVE  TrajectoryInv'
<1> DEFINE t == learner[l]
           next == [t EXCEPT !.at = "manifest", !.hash = sft]
<1>1. Learning(l) /\ t.at = "hash" /\ t \in Request /\ t.asks \in {"export", "package"} /\ sft \in DatasetFile
  BY DEF TrajectoryInv, Learning, HashesDataset, Packaging
<1>2. learner' = [learner EXCEPT ![l] = next] /\ UNCHANGED <<walkVars, rows, sft, manifest, smudged>>
  BY DEF TrajectoryInv, HashesDataset
<1>3. next \in Request /\ next.at = "manifest" /\ next.asks = t.asks /\ next.hash = sft
  BY <1>1 DEF Request, Places
<1> HIDE DEF next
<1>4. learner'[l] = next
  BY <1>2 DEF TrajectoryInv
<1>5. Learning(l)'
  BY <1>1, <1>3, <1>4 DEF Learning
<1>6. Packaging'
  <2>1. Busy(l)
    BY <1>1 DEF Busy
  <2> QED
    BY <1>1, <1>2, <1>3, <2>1, PackagingStays
<1> QED
  BY <1>2, <1>5, <1>6, OneLearner

LEMMA OpensManifestStep ==
  ASSUME TrajectoryInv, NEW l \in Learners, OpensManifest(l)
  PROVE  TrajectoryInv'
<1> DEFINE next == [learner[l] EXCEPT !.at = "pack"]
<1>1. /\ learner[l].at = "manifest" /\ learner[l] \in Request /\ Learning(l) /\ Packaging
      /\ learner[l].asks \in {"export", "package"}
  BY DEF TrajectoryInv, Learning, OpensManifest
<1>2. /\ learner' = [learner EXCEPT ![l] = next] /\ manifest'.there
      /\ UNCHANGED <<walkVars, rows, sft, smudged>>
  BY DEF TrajectoryInv, OpensManifest
<1>3. next \in Request /\ next.at = "pack" /\ next.asks = learner[l].asks /\ next.hash = learner[l].hash
  BY <1>1 DEF Request, Places
<1> HIDE DEF next
<1>4. learner'[l] = next /\ \A k \in Learners \ {l} : learner'[k] = learner[k]
  BY <1>2 DEF TrajectoryInv
<1>5. Learning(l)'
  BY <1>1, <1>3, <1>4 DEF Learning
<1>6. Packaging'
  <2>1. \A k \in Learners : Busy(k)' => Busy(k)
    BY <1>1, <1>3, <1>4 DEF Busy
  <2>2. \A k \in Learners : learner[k].at = "write" => learner'[k].at = "write"
    BY <1>1, <1>4
  <2>3. ASSUME ~smudged, NEW k \in Learners
        PROVE  /\ learner'[k].at = "hash" => sft.whole
               /\ learner'[k].at \in {"manifest", "pack"} => learner'[k].hash.whole
    BY <1>1, <1>3, <1>4, <2>3 DEF Packaging
  <2>4. \E k \in Learners : learner'[k].at = "pack"
    BY <1>3, <1>4
  <2> QED
    BY <1>1, <1>2, <2>1, <2>2, <2>3, <2>4 DEF Packaging
<1> QED
  BY <1>2, <1>5, <1>6, OneLearner

LEMMA WritesManifestStep ==
  ASSUME TrajectoryInv, NEW l \in Learners, WritesManifest(l)
  PROVE  TrajectoryInv'
<1>1. learner[l].at = "pack" /\ Packaging
  BY DEF TrajectoryInv, WritesManifest
<1>2. /\ learner' = [learner EXCEPT ![l] = Done]
      /\ manifest' = [there |-> TRUE, whole |-> TRUE, dataset |-> learner[l].hash]
      /\ UNCHANGED <<walkVars, rows, sft, smudged>>
  BY DEF WritesManifest
<1>3. learner'[l] = Done /\ \A k \in Learners \ {l} : learner'[k] = learner[k]
  BY <1>2 DEF TrajectoryInv
<1>4. Learning(l)'
  BY <1>3, FreeIsARequest DEF Learning
<1>5. Packaging'
  <2>1. \A k \in Learners : Busy(k)' => Busy(k)
    BY <1>3, FreeIsARequest DEF Busy
  <2>2. \A k \in Learners : learner[k].at = "write" => learner'[k].at = "write"
    BY <1>1, <1>3
  <2>3. ASSUME ~smudged, NEW k \in Learners
        PROVE  /\ learner'[k].at = "hash" => sft.whole
               /\ learner'[k].at \in {"manifest", "pack"} => learner'[k].hash.whole
    BY <1>1, <1>3, <2>3, FreeIsARequest DEF Packaging
  <2>4. ~smudged => manifest'.whole /\ manifest'.dataset.whole
    BY <1>1, <1>2 DEF Packaging
  <2> QED
    BY <1>1, <1>2, <2>1, <2>2, <2>3, <2>4 DEF Packaging
<1> QED
  BY <1>2, <1>4, <1>5, OneLearner

LEMMA BreaksOffStep ==
  ASSUME TrajectoryInv, NEW l \in Learners, BreaksOffLearning(l)
  PROVE  TrajectoryInv'
<1>1. learner' = [learner EXCEPT ![l] = Done] /\ smudged' = TRUE /\ UNCHANGED <<walkVars, rows, sft, manifest>>
  BY DEF BreaksOffLearning
<1>2. learner'[l] = Done
  BY <1>1 DEF TrajectoryInv
<1>3. Learning(l)'
  BY <1>2, FreeIsARequest DEF Learning
<1>4. Packaging'
  BY <1>1 DEF TrajectoryInv, Packaging
<1> QED
  BY <1>1, <1>3, <1>4, OneLearner

LEMMA Quotient ==
  ASSUME NEW n \in Nat, n >= 10
  PROVE  Thousandths(n, n) > 900
<1>1. /\ 2000 * n + n \in Int /\ 2 * n \in Int /\ 2 * n > 0
      /\ 2000 * n + n = 1000 * (2 * n) + n /\ 0 <= n /\ n < 2 * n
  OBVIOUS
<1>2. \A a, b, r \in Int : b > 0 /\ a = 1000 * b + r /\ 0 <= r /\ r < b => a \div b = 1000
  BY Z3
<1>3. (2000 * n + n) \div (2 * n) = 1000
  BY <1>1, <1>2
<1> QED
  BY <1>3 DEF Thousandths

\* A gate that finds rows of one kind only is blocked.
LEMMA OneKindIsDrift ==
  ASSUME NEW s \in Seq(AnyRow), Len(s) >= 10, NEW kind \in {"steps", "loops"},
         \A i \in 1..Len(s) : s[i].stream = kind
  PROVE  DriftBlocks(s)
<1>1. {i \in DOMAIN s : s[i].stream = kind} = 1..Len(s) /\ Len(s) \in Nat
  OBVIOUS
<1>2. Cardinality(1..Len(s)) = IF 1 > Len(s) THEN 0 ELSE Len(s) - 1 + 1
  BY <1>1, FS_Interval
<1>3. OfStream(s, kind) = Len(s)
  <2>1. Cardinality(1..Len(s)) = Len(s)
    BY <1>1, <1>2
  <2>2. OfStream(s, kind) = Cardinality({i \in DOMAIN s : s[i].stream = kind})
    BY Zenon DEF OfStream
  <2> QED
    BY Zenon, <1>1, <2>1, <2>2
<1> QED
  BY <1>1, <1>3, Quotient DEF DriftBlocks

LEMMA JudgesStep ==
  ASSUME TrajectoryInv, NEW l \in Learners, Judges(l)
  PROVE  TrajectoryInv'
<1> DEFINE t == learner[l]
           at == IF Eligible(t.read, t.asked, t.witness) THEN "eligible_for_human_review" ELSE "blocked"
           next == [t EXCEPT !.at = at]
<1>1. Learning(l) /\ t.at = "judge" /\ t \in Request /\ t.asks = "gate" /\ t.next = 5 /\ HasRead(l) /\ RowsOK
  BY DEF TrajectoryInv, Learning, Judges
<1>2. learner' = [learner EXCEPT ![l] = next] /\ UNCHANGED <<walkVars, rows, sft, manifest, smudged>>
  BY DEF TrajectoryInv, Judges
<1>3. at \in {"eligible_for_human_review", "blocked"}
  OBVIOUS
<1>4. ASSUME at = "eligible_for_human_review"
      PROVE  Earned(l)
  <2> DEFINE s == rows["steps"]
             p == rows["loops"]
  <2>1. PICK p1 \in Seq(AnyRow), p2 \in Seq(AnyRow), q1 \in Seq(AnyRow), q2 \in Seq(AnyRow) :
          /\ Begins(p1, s) /\ Begins(p2, s) /\ Begins(q1, p) /\ Begins(q2, p)
          /\ ReadAs(t, p1, p2, q1, q2)
    BY <1>1 DEF HasRead
  <2>2. /\ t.read[1] = p1 \o q1 /\ t.read[2] = p2 \o q2 /\ Len(p1) <= Len(p2) /\ Len(q1) <= Len(q2)
    BY <1>1, <2>1 DEF ReadAs
  <2>3. /\ Cardinality(AtLeast(p1 \o q1, t.asked.score)) >= t.asked.samples
        /\ AverageAtLeast(p1 \o q1, t.asked.score) /\ ~DriftBlocks(p2 \o q2) /\ manifest.there /\ t.witness
    BY <1>4, <2>2 DEF Eligible
  <2>4. s \in Seq(AnyRow) /\ p \in Seq(AnyRow)
    BY <1>1, RowsAre
  <2>5. /\ \A i \in 1..Len(p2) : p2[i].stream = "steps"
        /\ \A i \in 1..Len(q2) : q2[i].stream = "loops"
    <3>1. s \in Seq(RowsOf("steps")) /\ p \in Seq(RowsOf("loops"))
      BY <1>1 DEF RowsOK
    <3>2. /\ Len(p2) <= Len(s) /\ \A i \in 1..Len(p2) : p2[i] = s[i]
          /\ Len(q2) <= Len(p) /\ \A i \in 1..Len(q2) : q2[i] = p[i]
      BY <2>1 DEF Begins
    <3>3. /\ \A i \in 1..Len(s) : s[i].stream = "steps"
          /\ \A i \in 1..Len(p) : p[i].stream = "loops"
      <4>1. /\ \A i \in 1..Len(s) : s[i] \in RowsOf("steps")
            /\ \A i \in 1..Len(p) : p[i] \in RowsOf("loops")
        BY <3>1
      <4> QED
        BY <4>1 DEF RowsOf
    <3> HIDE DEF s, p
    <3>4. Len(s) \in Nat /\ Len(p) \in Nat /\ Len(p2) \in Nat /\ Len(q2) \in Nat
      BY <2>4
    <3>5. 1..Len(p2) \subseteq 1..Len(s) /\ 1..Len(q2) \subseteq 1..Len(p)
      BY <3>2, <3>4
    <3> QED
      BY <3>2, <3>3, <3>5
  <2> HIDE DEF s, p
  <2>6. Len(p1) \in 0..Len(s) /\ Len(q1) \in 0..Len(p) /\ Beginning(Len(p1), Len(q1)) = p1 \o q1
    BY <2>1, <2>4, BeginningIsRead DEF Beginning, s, p
  <2>7. ASSUME t.asked.samples >= 10
        PROVE  Len(p2) + Len(q2) >= 10 /\ Len(p2) \in Nat /\ Len(q2) \in Nat
    <3> DEFINE r == p1 \o q1
    <3>4. r \in Seq(AnyRow) /\ Len(r) = Len(p1) + Len(q1)
      BY Joined
    <3> HIDE DEF r
    <3>1. Cardinality(AtLeast(r, t.asked.score)) <= Len(r) /\ Cardinality(AtLeast(r, t.asked.score)) \in Nat
      BY <3>4, CountIsNat
    <3>2. Cardinality(AtLeast(r, t.asked.score)) >= t.asked.samples /\ t.asked.samples \in Int
      BY <1>1, <2>3 DEF r, Request, Threshold
    <3>3. Len(p1) \in Nat /\ Len(q1) \in Nat /\ Len(p2) \in Nat /\ Len(q2) \in Nat
      OBVIOUS
    <3> QED
      BY <2>2, <2>7, <3>1, <3>2, <3>3, <3>4
  <2>8. t.asked.samples >= 10 => q2 # <<>>
    <3>1. SUFFICES ASSUME t.asked.samples >= 10, q2 = <<>>
                   PROVE  FALSE
      OBVIOUS
    <3>2. p2 \o q2 = p2 /\ Len(q2) = 0
      BY <3>1, NothingMore
    <3> QED
      BY <2>3, <2>5, <2>7, <3>1, <3>2, OneKindIsDrift
  <2>9. t.asked.samples >= 10 => p2 # <<>>
    <3>1. SUFFICES ASSUME t.asked.samples >= 10, p2 = <<>>
                   PROVE  FALSE
      OBVIOUS
    <3>2. p2 \o q2 = q2 /\ Len(p2) = 0
      BY <3>1, NothingMore
    <3> QED
      BY <2>3, <2>5, <2>7, <3>1, <3>2, OneKindIsDrift
  <2>10. t.asked.samples >= 10 => s # <<>> /\ p # <<>>
    <3> SUFFICES ASSUME t.asked.samples >= 10 PROVE s # <<>> /\ p # <<>>
      OBVIOUS
    <3>1. Len(p2) > 0 /\ Len(q2) > 0 /\ Len(p2) <= Len(s) /\ Len(q2) <= Len(p)
      BY <2>1, <2>8, <2>9 DEF Begins
    <3> QED
      BY <2>4, <3>1
  <2> QED
    BY <2>3, <2>6, <2>10, Zenon DEF Earned, s, p
<1> HIDE DEF at
<1>5. next \in Request /\ next.at = at /\ next.asks = "gate" /\ next.witness = t.witness
      /\ next.asked = t.asked
  BY <1>1, <1>3 DEF Request, Places
<1> HIDE DEF next
<1>6. learner'[l] = next
  BY <1>2 DEF TrajectoryInv
<1>7. Learning(l)'
  <2>1. Earned(l) => Earned(l)'
    BY <1>2, <1>5, <1>6 DEF Earned, Beginning
  <2> QED
    BY <1>3, <1>4, <1>5, <1>6, <2>1 DEF Learning
<1>8. Packaging'
  BY <1>1, <1>2, <1>3, <1>5, PackagingStays
<1> QED
  BY <1>2, <1>7, <1>8, OneLearner

---------------------------------------------------------------------------
(* The initial state, and every step. *)

LEMMA TrajectoryInitInv ==
  ASSUME TrajectoryInit
  PROVE  TrajectoryInv
<1>1. WalkersOK
  BY DEF TrajectoryInit, WalkersOK, Fits, Risks
<1>2. RowsOK
  <2>1. PICK old \in OldRows :
          rows = [steps |-> [i \in 1..old.steps |-> OldStep], loops |-> [i \in 1..old.loops |-> OldLoop]]
    BY DEF TrajectoryInit
  <2>2. old.steps \in Nat /\ old.loops \in Nat
    BY TrajectoryAssumption
  <2>3. OldStep \in RowsOf("steps") /\ OldLoop \in RowsOf("loops")
    BY DEF OldStep, OldLoop, Row, RowsOf, Immunity, Stops
  <2>4. /\ [i \in 1..old.steps |-> OldStep] \in Seq(RowsOf("steps"))
        /\ [i \in 1..old.loops |-> OldLoop] \in Seq(RowsOf("loops"))
    BY <2>2, <2>3
  <2> QED
    BY <2>1, <2>4 DEF RowsOK
<1>3. learner = [l \in Learners |-> learner[l]] /\ \A l \in Learners : learner[l] = Free
  BY DEF TrajectoryInit
<1>4. Free.at = "idle" /\ Free.asks = "none"
  BY DEF Free
<1>5. \A l \in Learners : Learning(l)
  BY <1>3, <1>4, FreeIsARequest DEF Learning
<1>6. Packaging
  <2>1. \A l \in Learners : learner[l].at = "idle" /\ ~Busy(l)
    BY <1>3, <1>4 DEF Busy
  <2>2. sft \in DatasetFile /\ ~sft.there /\ ~manifest.there /\ smudged = FALSE
    BY FreeIsARequest DEF TrajectoryInit, MissingFile, MissingManifest
  <2> QED
    BY <2>1, <2>2 DEF Packaging
<1> QED
  BY <1>1, <1>2, <1>3, <1>5, <1>6 DEF TrajectoryInv

LEMMA TrajectoryNextInv ==
  ASSUME TrajectoryInv, [TrajectoryNext]_trajectoryVars
  PROVE  TrajectoryInv'
<1>1. CASE UNCHANGED trajectoryVars
  BY <1>1 DEF trajectoryVars, walkVars, learnVars, TrajectoryInv, WalkersOK, RowsOK, Learning, HasRead, Earned,
              Beginning, Packaging, Busy
<1>2. ASSUME NEW w \in Walkers, AsksFor(w) \/ Thinks(w) \/ PersistsStep(w) \/ Decides(w) \/ PersistsLoop(w)
      PROVE  TrajectoryInv'
  BY <1>2, WalkStep
<1>3. ASSUME NEW l \in Learners,
             \/ AsksToExport(l) \/ AsksToPackage(l) \/ AsksTheGate(l) \/ ReadsLedger(l) \/ OpensDataset(l)
             \/ WritesDataset(l) \/ HashesDataset(l) \/ OpensManifest(l) \/ WritesManifest(l) \/ Judges(l)
             \/ BreaksOffLearning(l)
      PROVE  TrajectoryInv'
  BY <1>3, AskStep, AsksTheGateStep, ReadsLedgerStep, OpensDatasetStep, WritesDatasetStep, HashesDatasetStep,
     OpensManifestStep, WritesManifestStep, JudgesStep, BreaksOffStep
<1> QED
  BY <1>1, <1>2, <1>3 DEF TrajectoryNext

\* Rows are only added to the ledgers; a request under /learning has read beginnings of
\* them, the second time no less; a dataset or a manifest is whole unless it is being
\* written (_append, _score_stream, export_sft, package).
THEOREM TrajectoryInvHolds == TrajectorySpec => []TrajectoryInv
<1>1. TrajectoryInit => TrajectoryInv
  BY TrajectoryInitInv
<1>2. TrajectoryInv /\ [TrajectoryNext]_trajectoryVars => TrajectoryInv'
  BY TrajectoryNextInv
<1> QED
  BY <1>1, <1>2, PTL DEF TrajectorySpec

\* Whatever thresholds a request asks for, what promotion_gate lets through is good
\* enough by them on a beginning of each ledger, is of both kinds from ten samples on,
\* and has a manifest, a whole one of a whole dataset unless an export or a packaging
\* was disturbed or is still at it.
THEOREM EligibleIsAlwaysEarned == TrajectorySpec => []EligibleIsEarned
<1>1. TrajectoryInv => EligibleIsEarned
  BY DEF TrajectoryInv, Learning, Earned, Packaging, EligibleIsEarned
<1> QED
  BY <1>1, TrajectoryInvHolds, PTL

---------------------------------------------------------------------------
(* Health: what a report relies on while others repair. *)

Stages ==
  {"idle", "system", "store", "repair", "recheck", "filesystem", "emitter", "trajectories", "audit",
   "ended", "called", "skipped"}
PastFilesystem == {"emitter", "trajectories", "audit", "ended", "called", "skipped"}
PastStore == PastFilesystem \cup {"filesystem"}
Checks == {"system", "schema", "store", "filesystem", "emitter", "trajectories"}

Reports == [at : Stages, failed : SUBSET Checks, disturbed : BOOLEAN, runs : Nat]

HealthTypes ==
  /\ monitor \in [Monitors -> Reports]
  /\ database \in Seq(Database)
  /\ named \in 0..Len(database) /\ handle \in [Monitors -> 0..Len(database)]
  /\ directories \subseteq RequiredDirs

StoreIsFine == named = 0 \/ StoreHolds(named)

\* What a check has found, or has seen to, is still so.
Upholds(m) ==
  ~monitor[m].disturbed =>
    /\ monitor[m].at \in PastStore /\ "store" \notin monitor[m].failed => StoreIsFine
    /\ monitor[m].at \in PastFilesystem /\ "filesystem" \notin monitor[m].failed => directories = RequiredDirs

HealthInv == HealthTypes /\ \A m \in Monitors : Upholds(m)

\* A step after which the store is no worse and no directory is missing that was not.
Mends ==
  /\ StoreIsFine => StoreIsFine'
  /\ directories = RequiredDirs => directories' = RequiredDirs

LEMMA OneMonitor ==
  ASSUME HealthInv, HealthTypes', Mends, NEW m \in Monitors,
         \A k \in Monitors \ {m} : monitor'[k] = monitor[k], Upholds(m)'
  PROVE  HealthInv'
BY DEF HealthInv, Upholds, Mends

LEMMA InReport ==
  /\ "store" \in Checks /\ "filesystem" \in Checks /\ "emitter" \in Checks /\ "trajectories" \in Checks
  /\ "repair" \in Stages /\ "recheck" \in Stages /\ "filesystem" \in Stages /\ "emitter" \in Stages
  /\ "trajectories" \in Stages /\ "audit" \in Stages
BY DEF Checks, Stages

\* What Found does to a report.
LEMMA FoundDoes ==
  ASSUME HealthTypes, NEW m \in Monitors, NEW name \in Checks, NEW passes \in BOOLEAN, NEW at \in Stages,
         Found(m, name, passes, at)
  PROVE  /\ monitor' \in [Monitors -> Reports]
         /\ \A k \in Monitors \ {m} : monitor'[k] = monitor[k]
         /\ monitor'[m].at = at /\ monitor'[m].disturbed = monitor[m].disturbed
         /\ monitor[m].failed \subseteq monitor'[m].failed
         /\ passes \/ name \in monitor'[m].failed
<1>1. PICK failed : failed = IF passes THEN monitor[m].failed ELSE monitor[m].failed \cup {name}
  OBVIOUS
<1> DEFINE found == [monitor[m] EXCEPT !.at = at, !.failed = failed]
<1>2. monitor' = [monitor EXCEPT ![m] = found]
  BY <1>1 DEF Found, HealthTypes
<1>3. /\ failed \in SUBSET Checks /\ monitor[m].failed \subseteq failed
      /\ passes \/ name \in failed
  BY <1>1 DEF HealthTypes, Reports
<1>4. /\ found \in Reports
      /\ found.at = at /\ found.disturbed = monitor[m].disturbed /\ found.failed = failed
  BY <1>3 DEF HealthTypes, Reports
<1> HIDE DEF found
<1>5. monitor' \in [Monitors -> Reports] /\ monitor'[m] = found
      /\ \A k \in Monitors \ {m} : monitor'[k] = monitor[k]
  BY <1>2, <1>4 DEF HealthTypes
<1> QED
  BY <1>3, <1>4, <1>5

LEMMA ReportStep ==
  ASSUME HealthInv, NEW m \in Monitors, ReportBegins(m) \/ ChecksInstallation(m)
  PROVE  HealthInv'
<1>1. UNCHANGED <<database, named, handle, directories>>
  BY DEF ReportBegins, ChecksInstallation
<1>2. Mends
  BY <1>1 DEF Mends, StoreIsFine, StoreHolds
<1>3. CASE ReportBegins(m)
  <2> DEFINE begun == [Quiet EXCEPT !.at = "system", !.runs = monitor[m].runs + 1]
  <2>1. begun \in Reports /\ begun.at = "system"
    <3>1. monitor[m].runs + 1 \in Nat
      BY DEF HealthInv, HealthTypes, Reports
    <3> QED
      BY <3>1 DEF Quiet, Stages, Reports
  <2>2. monitor' = [monitor EXCEPT ![m] = begun]
    BY <1>3 DEF ReportBegins
  <2> HIDE DEF begun
  <2>3. HealthTypes' /\ (\A k \in Monitors \ {m} : monitor'[k] = monitor[k]) /\ monitor'[m].at = "system"
    BY <1>1, <2>1, <2>2 DEF HealthInv, HealthTypes
  <2> QED
    BY <1>2, <2>3, OneMonitor DEF Upholds, PastStore, PastFilesystem
<1>4. CASE ChecksInstallation(m)
  <2> DEFINE found == [monitor[m] EXCEPT !.at = "store", !.failed = IF schemaFile THEN {} ELSE {"system", "schema"}]
  <2>1. found \in Reports /\ found.at = "store"
    BY DEF Stages, Checks, HealthInv, HealthTypes, Reports
  <2>2. monitor' = [monitor EXCEPT ![m] = found]
    BY <1>4 DEF ChecksInstallation, HealthInv, HealthTypes
  <2> HIDE DEF found
  <2>3. HealthTypes' /\ (\A k \in Monitors \ {m} : monitor'[k] = monitor[k]) /\ monitor'[m].at = "store"
    BY <1>1, <2>1, <2>2 DEF HealthInv, HealthTypes
  <2> QED
    BY <1>2, <2>3, OneMonitor DEF Upholds, PastStore, PastFilesystem
<1> QED
  BY <1>3, <1>4

\* The checks that repair nothing.
LEMMA CheckStep ==
  ASSUME HealthInv, NEW m \in Monitors,
         \/ ChecksStore(m) \/ RechecksStore(m) \/ ChecksEmitter(m) \/ ChecksRecentTrajectories(m)
  PROVE  HealthInv'
<1> USE DEF PastStore, PastFilesystem
<1>1. UNCHANGED <<database, named, handle, directories>> /\ HealthTypes /\ Upholds(m)
  BY DEF ChecksStore, RechecksStore, ChecksEmitter, ChecksRecentTrajectories, HealthInv
<1>2. Mends
  BY <1>1 DEF Mends, StoreIsFine, StoreHolds
<1>3. StoreIsFine' <=> StoreIsFine
  BY <1>1 DEF StoreIsFine, StoreHolds
<1>4. CASE ChecksStore(m)
  <2> DEFINE at == IF named = 0 \/ StoreHolds(named) THEN "filesystem" ELSE "repair"
  <2>1. Found(m, "store", TRUE, at) /\ (at = "filesystem" => StoreIsFine) /\ at \in {"filesystem", "repair"}
    BY <1>4 DEF ChecksStore, StoreIsFine
  <2>2. at \in Stages /\ "store" \in Checks
    BY InReport
  <2> HIDE DEF at
  <2>3. /\ monitor' \in [Monitors -> Reports]
        /\ \A k \in Monitors \ {m} : monitor'[k] = monitor[k]
        /\ monitor'[m].at = at
    BY <1>1, <2>1, <2>2, FoundDoes
  <2> QED
    BY <1>1, <1>2, <1>3, <2>1, <2>3, OneMonitor DEF Upholds, HealthTypes
<1>5. CASE RechecksStore(m)
  <2>1. PICK passes \in BOOLEAN : Found(m, "store", passes, "filesystem") /\ (passes => StoreHolds(named))
    BY <1>5 DEF RechecksStore, StoreHolds
  <2>2. /\ monitor' \in [Monitors -> Reports]
        /\ \A k \in Monitors \ {m} : monitor'[k] = monitor[k]
        /\ monitor'[m].at = "filesystem"
        /\ ~StoreHolds(named) => "store" \in monitor'[m].failed
    BY <1>1, <2>1, FoundDoes, InReport
  <2> QED
    BY <1>1, <1>2, <1>3, <2>2, OneMonitor DEF Upholds, HealthTypes, StoreIsFine
<1>6. CASE ChecksEmitter(m)
  <2>1. PICK passes \in BOOLEAN : Found(m, "emitter", passes, "trajectories") /\ monitor[m].at = "emitter"
    BY <1>6 DEF ChecksEmitter
  <2>2. /\ monitor' \in [Monitors -> Reports]
        /\ \A k \in Monitors \ {m} : monitor'[k] = monitor[k]
        /\ monitor'[m].at = "trajectories" /\ monitor'[m].disturbed = monitor[m].disturbed
        /\ monitor[m].failed \subseteq monitor'[m].failed
    BY <1>1, <2>1, FoundDoes, InReport
  <2> QED
    BY <1>1, <1>2, <1>3, <2>1, <2>2, OneMonitor DEF Upholds, HealthTypes
<1>7. CASE ChecksRecentTrajectories(m)
  <2>1. PICK passes \in BOOLEAN : Found(m, "trajectories", passes, "audit") /\ monitor[m].at = "trajectories"
    BY <1>7 DEF ChecksRecentTrajectories
  <2>2. /\ monitor' \in [Monitors -> Reports]
        /\ \A k \in Monitors \ {m} : monitor'[k] = monitor[k]
        /\ monitor'[m].at = "audit" /\ monitor'[m].disturbed = monitor[m].disturbed
        /\ monitor[m].failed \subseteq monitor'[m].failed
    BY <1>1, <2>1, FoundDoes, InReport
  <2> QED
    BY <1>1, <1>2, <1>3, <2>1, <2>2, OneMonitor DEF Upholds, HealthTypes
<1> QED
  BY <1>4, <1>5, <1>6, <1>7

LEMMA FilesystemStep ==
  ASSUME HealthInv, NEW m \in Monitors, ChecksFilesystem(m)
  PROVE  HealthInv'
<1> USE DEF PastStore, PastFilesystem
<1>1. UNCHANGED <<database, named, handle>> /\ HealthTypes /\ Upholds(m) /\ monitor[m].at = "filesystem"
  BY DEF ChecksFilesystem, HealthInv, surroundings
<1>2. PICK made \in SUBSET (RequiredDirs \ directories) :
        /\ directories' = directories \cup made
        /\ Found(m, "filesystem", directories \cup made = RequiredDirs, "emitter")
  BY DEF ChecksFilesystem
<1>3. Mends /\ directories' \subseteq RequiredDirs
  BY <1>1, <1>2 DEF Mends, StoreIsFine, StoreHolds, HealthTypes
<1>4. StoreIsFine' <=> StoreIsFine
  BY <1>1 DEF StoreIsFine, StoreHolds
<1>5. /\ monitor' \in [Monitors -> Reports]
      /\ \A k \in Monitors \ {m} : monitor'[k] = monitor[k]
      /\ monitor'[m].at = "emitter" /\ monitor'[m].disturbed = monitor[m].disturbed
      /\ monitor[m].failed \subseteq monitor'[m].failed
      /\ directories' # RequiredDirs => "filesystem" \in monitor'[m].failed
  BY <1>1, <1>2, FoundDoes, InReport
<1> QED
  BY <1>1, <1>3, <1>4, <1>5, OneMonitor DEF Upholds, HealthTypes

\* A repair leaves whatever the name stands for at least as good as it was, although
\* it may go to another file.
LEMMA RepairStep ==
  ASSUME HealthInv, NEW m \in Monitors, RepairsStore(m)
  PROVE  HealthInv'
<1> DEFINE opens == handle[m] = 0
           fresh == [wal |-> TRUE, tables |-> {}, lacks |-> "nothing", sound |-> TRUE, rows |-> <<>>, failures |-> {}]
           all == IF opens /\ named = 0 THEN Append(database, fresh) ELSE database
           n == IF ~opens THEN handle[m] ELSE IF named = 0 THEN Len(all) ELSE named
           file == [all[n] EXCEPT !.wal = @ \/ opens]
           created == SchemaCreated(file)
           at == IF SchemaRaises(file) THEN "filesystem" ELSE "recheck"
<1>1. /\ database' = [all EXCEPT ![n] = created]
      /\ handle' = [handle EXCEPT ![m] = n]
      /\ named' = IF opens THEN n ELSE named
      /\ Found(m, "store", ~SchemaRaises(file), at)
      /\ directories' = directories
  BY DEF RepairsStore
<1>2. HealthTypes /\ monitor[m].at = "repair"
  BY DEF HealthInv, RepairsStore
<1>3. fresh \in Database
  BY DEF Database
<1>4. /\ all \in Seq(Database) /\ n \in 1..Len(all)
      /\ Len(database) <= Len(all) /\ \A i \in 1..Len(database) : all[i] = database[i]
  <2> HIDE DEF fresh
  <2> QED
    BY <1>2, <1>3 DEF HealthTypes
<1>5. all[n] \in Database /\ (opens /\ named = 0 => all[n] = fresh) /\ (~(opens /\ named = 0) => all[n] = database[n])
  <2> HIDE DEF fresh
  <2> QED
    BY <1>2, <1>3, <1>4 DEF HealthTypes
<1> HIDE DEF all, n
<1>6. /\ file \in Database /\ file.lacks = all[n].lacks /\ file.sound = all[n].sound
      /\ file.tables = all[n].tables /\ (all[n].wal => file.wal)
  BY <1>5 DEF Database
<1>7. /\ created \in Database /\ created.wal = file.wal /\ created.sound = file.sound /\ created.lacks = file.lacks
      /\ file.lacks = "nothing" => created.tables = Tables
  <2> HIDE DEF file
  <2> QED
    BY <1>6 DEF SchemaCreated, SchemaRaises, Database, Tables
<1> HIDE DEF created
<1>8. database' \in Seq(Database) /\ Len(database') = Len(all) /\ database'[n] = created
      /\ \A i \in 1..Len(all) : i # n => database'[i] = all[i]
  BY <1>1, <1>4, <1>7
<1>9. named' \in 0..Len(database') /\ handle' \in [Monitors -> 0..Len(database')]
  BY <1>1, <1>2, <1>4, <1>8 DEF HealthTypes
<1>10. Mends
  <2> SUFFICES ASSUME StoreIsFine
               PROVE  StoreIsFine'
    BY <1>1 DEF Mends
  <2>1. CASE named' = n
    <3>1. all[n].wal /\ all[n].sound /\ all[n].lacks = "nothing"
      <4>1. CASE opens /\ named = 0
        BY <1>5, <4>1
      <4>2. CASE ~(opens /\ named = 0)
        <5>1. named = n
          BY <1>1, <1>4, <2>1, <4>2 DEF n
        <5> QED
          BY <1>4, <1>5, <4>2, <5>1 DEF StoreIsFine, StoreHolds
      <4> QED
        BY <4>1, <4>2
    <3> QED
      BY <1>4, <1>6, <1>7, <1>8, <2>1, <3>1 DEF StoreIsFine, StoreHolds
  <2>2. CASE named' # n
    <3>1. named' = named /\ ~opens
      BY <1>1, <2>2
    <3>2. named = 0 \/ database'[named] = database[named]
      BY <1>2, <1>4, <1>8, <2>2, <3>1 DEF HealthTypes
    <3> QED
      BY <3>1, <3>2 DEF StoreIsFine, StoreHolds
  <2> QED
    BY <2>1, <2>2
<1> HIDE DEF file
<1>11. /\ monitor' \in [Monitors -> Reports]
       /\ \A k \in Monitors \ {m} : monitor'[k] = monitor[k]
       /\ monitor'[m].at = at /\ (at = "filesystem" => "store" \in monitor'[m].failed)
  BY <1>1, <1>2, FoundDoes, InReport
<1>12. Upholds(m)'
  BY <1>11 DEF Upholds, PastStore, PastFilesystem
<1>13. HealthTypes'
  BY <1>1, <1>2, <1>8, <1>9, <1>11 DEF HealthTypes
<1> QED
  BY <1>10, <1>11, <1>12, <1>13, OneMonitor

LEMMA AuditStep ==
  ASSUME HealthInv, NEW m \in Monitors, Audits(m)
  PROVE  HealthInv'
<1>1. UNCHANGED <<named, handle, directories>> /\ HealthTypes /\ Upholds(m) /\ monitor[m].at = "audit"
  BY DEF Audits, HealthInv
<1>2. PICK at \in {"ended", "called", "skipped"} : monitor' = [monitor EXCEPT ![m].at = at]
  BY DEF Audits
<1> DEFINE moved == [monitor[m] EXCEPT !.at = at]
<1>3. /\ moved \in Reports
      /\ moved.disturbed = monitor[m].disturbed /\ moved.failed = monitor[m].failed
  BY <1>1, <1>2 DEF HealthTypes, Stages, Reports
<1>4. monitor' = [monitor EXCEPT ![m] = moved]
  BY <1>1, <1>2 DEF HealthTypes
<1> HIDE DEF moved
<1>5. /\ monitor' \in [Monitors -> Reports]
      /\ (\A k \in Monitors \ {m} : monitor'[k] = monitor[k]) /\ monitor'[m] = moved
  BY <1>1, <1>3, <1>4 DEF HealthTypes
<1>6. database' \in Seq(Database) /\ Len(database') = Len(database)
      /\ \A i \in 1..Len(database) : /\ database'[i].wal = database[i].wal /\ database'[i].tables = database[i].tables
                                      /\ database'[i].lacks = database[i].lacks /\ database'[i].sound = database[i].sound
  <2>1. CASE database' = database
    BY <1>1, <2>1 DEF HealthTypes
  <2>2. CASE database' = [database EXCEPT ![named].failures = @ \cup monitor[m].failed] /\ named # 0
    <3> DEFINE logged == [database[named] EXCEPT !.failures = @ \cup monitor[m].failed]
    <3>1. named \in 1..Len(database) /\ database[named] \in Database
      BY <1>1, <2>2 DEF HealthTypes
    <3>2. /\ logged \in Database
          /\ logged.wal = database[named].wal /\ logged.tables = database[named].tables
          /\ logged.lacks = database[named].lacks /\ logged.sound = database[named].sound
      BY <1>1, <3>1 DEF Database, HealthTypes, Checks, Reports
    <3>3. database' = [database EXCEPT ![named] = logged]
      BY <2>2
    <3> HIDE DEF logged
    <3> QED
      BY <1>1, <3>1, <3>2, <3>3 DEF HealthTypes
  <2> QED
    BY <2>1, <2>2 DEF Audits
<1>7. StoreIsFine' <=> StoreIsFine
  BY <1>1, <1>6 DEF StoreIsFine, StoreHolds, HealthTypes
<1>8. HealthTypes'
  BY <1>1, <1>5, <1>6 DEF HealthTypes
<1>9. Upholds(m)'
  BY <1>1, <1>3, <1>5, <1>7 DEF Upholds, PastStore, PastFilesystem
<1> QED
  BY <1>1, <1>5, <1>7, <1>8, <1>9, OneMonitor DEF Mends

\* Whatever is lost is known to have disturbed every report.
LEMMA DamageStep ==
  ASSUME HealthInv, Damages
  PROVE  HealthInv'
<1>1. HealthTypes /\ handle' = handle
  BY DEF HealthInv, Damages
<1>2. monitor' \in [Monitors -> Reports]
      /\ \A m \in Monitors : monitor'[m].disturbed
  <2>1. ASSUME NEW m \in Monitors
        PROVE  /\ [monitor[m] EXCEPT !.disturbed = TRUE] \in Reports
               /\ [monitor[m] EXCEPT !.disturbed = TRUE].disturbed
    BY <1>1 DEF HealthTypes, Reports
  <2>2. monitor' = [m \in Monitors |-> [monitor[m] EXCEPT !.disturbed = TRUE]]
    BY DEF Damages
  <2> QED
    BY <2>1, <2>2
<1>3. /\ database' \in Seq(Database) /\ Len(database) <= Len(database')
      /\ named' \in 0..Len(database') /\ directories' \subseteq RequiredDirs
  <2>1. CASE \E old \in OldDatabases : database' = Append(database, old) /\ named' = Len(database) + 1 /\ directories' = directories
    BY <1>1, <2>1, HealthAssumption DEF HealthTypes
  <2>2. CASE named # 0 /\ database' = [database EXCEPT ![named].sound = FALSE] /\ UNCHANGED <<named, directories>>
    <3>1. named \in 1..Len(database) /\ database[named] \in Database
      BY <1>1, <2>2 DEF HealthTypes
    <3>2. [database[named] EXCEPT !.sound = FALSE] \in Database
      BY <3>1 DEF Database
    <3> QED
      BY <1>1, <2>2, <3>1, <3>2 DEF HealthTypes
  <2>3. CASE database' = database /\ named' \in {0, named} /\ directories' \subseteq directories
    BY <1>1, <2>3 DEF HealthTypes
  <2> QED
    BY <2>1, <2>2, <2>3 DEF Damages
<1> QED
  BY <1>1, <1>2, <1>3 DEF HealthInv, HealthTypes, Upholds

LEMMA HealthStep == HealthInv /\ [HealthNext]_healthVars => HealthInv'
<1> SUFFICES ASSUME HealthInv, [HealthNext]_healthVars
             PROVE  HealthInv'
  OBVIOUS
<1>1. CASE HealthNext
  BY <1>1, ReportStep, CheckStep, RepairStep, FilesystemStep, AuditStep, DamageStep DEF HealthNext
<1>2. CASE UNCHANGED healthVars
  BY <1>2 DEF healthVars, HealthInv, HealthTypes, Upholds, StoreIsFine, StoreHolds
<1> QED
  BY <1>1, <1>2

LEMMA HealthInvInit == HealthInit => HealthInv
<1> SUFFICES ASSUME HealthInit
             PROVE  HealthInv
  OBVIOUS
<1>1. Quiet \in Reports /\ Quiet.at = "idle"
  BY DEF Quiet, Stages, Reports
<1>2. database \in Seq(Database) /\ Len(database) = 1
  BY HealthAssumption DEF HealthInit
<1>3. named \in 0..1 /\ handle \in [Monitors -> 0..1] /\ directories = RequiredDirs
  BY DEF HealthInit
<1>4. monitor = [m \in Monitors |-> Quiet]
  BY DEF HealthInit
<1> QED
  BY <1>1, <1>2, <1>3, <1>4 DEF HealthInv, HealthTypes, Upholds, PastStore, PastFilesystem

\* What every report in progress may rely on, although others repair.
THEOREM HealthInvHolds == HealthSpec => []HealthInv
BY HealthInvInit, HealthStep, PTL DEF HealthSpec

\* A report that passed undisturbed is true of the database that bears the name and of
\* the directories (health.py: repairs are automatic and idempotent).
THEOREM PassedReportsAreTrue == HealthSpec => []PassedReportIsTrue
<1>1. HealthInv => PassedReportIsTrue
  BY DEF HealthInv, Upholds, PassedReportIsTrue, PastStore, PastFilesystem, StoreIsFine
<1> QED
  BY <1>1, HealthInvHolds, PTL

---------------------------------------------------------------------------
(* Advice: which option comes out first. *)

\* What the choice depends on.
Weighed(q) ==
  /\ q.allowed \in BOOLEAN /\ q.risk \in {"high", "elevated", "low"}

Mismatched(q) ==
  q.estimate \in {"act_reversible", "act_irreversible"} /\ q.authority \in {"observe", "interpret", "prepare"}

\* Its options: the two that are inserted in front, and the three there always are.
Options == {"authority_mismatch", "refuse_or_narrow", "interpret_only", "prepare_plan", "ask_witness"}
InFront(q) == (IF Mismatched(q) THEN 1 ELSE 0) + (IF Refuses(q) THEN 1 ELSE 0)

LEMMA OptionsAre ==
  ASSUME NEW q
  PROVE  /\ DOMAIN GenerateOptions(q) = 1..(InFront(q) + 3) /\ InFront(q) \in 0..2
         /\ GenerateOptions(q)[InFront(q) + 1] = "interpret_only"
         /\ GenerateOptions(q)[InFront(q) + 2] = "prepare_plan"
         /\ GenerateOptions(q)[InFront(q) + 3] = "ask_witness"
         /\ Mismatched(q) => GenerateOptions(q)[1] = "authority_mismatch"
         /\ Refuses(q) => GenerateOptions(q)[InFront(q)] = "refuse_or_narrow"
<1> DEFINE s1 == IF Mismatched(q) THEN <<"authority_mismatch">> ELSE <<>>
           s2 == IF Refuses(q) THEN <<"refuse_or_narrow">> ELSE <<>>
           s3 == <<"interpret_only", "prepare_plan", "ask_witness">>
<1>1. s1 \in Seq(Options) /\ s2 \in Seq(Options) /\ s3 \in Seq(Options) /\ GenerateOptions(q) = s1 \o s2 \o s3
  <2>1. s1 \in Seq(Options) /\ s2 \in Seq(Options) /\ s3 \in Seq(Options)
    <3>1. <<"authority_mismatch">> \in Seq(Options) /\ <<"refuse_or_narrow">> \in Seq(Options) /\ <<>> \in Seq(Options)
      BY DEF Options
    <3>2. s3 \in Seq(Options)
      BY DEF Options
    <3> QED
      BY <3>1, <3>2
  <2>2. GenerateOptions(q) = s1 \o s2 \o s3
    BY Zenon DEF GenerateOptions, Mismatched, Refuses
  <2> QED
    BY <2>1, <2>2
<1>2. /\ Len(s1) = IF Mismatched(q) THEN 1 ELSE 0
      /\ Len(s2) = IF Refuses(q) THEN 1 ELSE 0
      /\ Len(s3) = 3 /\ s3[1] = "interpret_only" /\ s3[2] = "prepare_plan" /\ s3[3] = "ask_witness"
      /\ Mismatched(q) => s1[1] = "authority_mismatch"
      /\ Refuses(q) => s2[1] = "refuse_or_narrow"
  OBVIOUS
<1> HIDE DEF s1, s2, s3
<1>3. /\ s1 \o s2 \in Seq(Options) /\ Len(s1 \o s2) = InFront(q)
      /\ Mismatched(q) => (s1 \o s2)[1] = "authority_mismatch"
      /\ Refuses(q) => (s1 \o s2)[InFront(q)] = "refuse_or_narrow"
  <2>1. s1 \o s2 \in Seq(Options) /\ Len(s1 \o s2) = Len(s1) + Len(s2)
        /\ \A i \in 1..(Len(s1) + Len(s2)) : (s1 \o s2)[i] = IF i <= Len(s1) THEN s1[i] ELSE s2[i - Len(s1)]
    BY <1>1
  <2> QED
    BY <1>2, <2>1 DEF InFront
<1> DEFINE t == s1 \o s2
<1> HIDE DEF t
<1>4. t \in Seq(Options) /\ Len(t) = InFront(q) /\ GenerateOptions(q) = t \o s3
      /\ (Mismatched(q) => t[1] = "authority_mismatch") /\ (Refuses(q) => t[InFront(q)] = "refuse_or_narrow")
  BY <1>1, <1>3 DEF t
<1>5. /\ DOMAIN (t \o s3) = 1..(Len(t) + Len(s3))
      /\ \A i \in 1..(Len(t) + Len(s3)) : (t \o s3)[i] = IF i <= Len(t) THEN t[i] ELSE s3[i - Len(t)]
  BY <1>1, <1>4
<1>6. InFront(q) \in 0..2 /\ (Mismatched(q) => InFront(q) >= 1) /\ (Refuses(q) => InFront(q) >= 1)
  BY DEF InFront
<1> DEFINE n == InFront(q)
           all == GenerateOptions(q)
<1> HIDE DEF n, all
<1>7. /\ DOMAIN all = 1..(n + 3) /\ n \in 0..2
      /\ \A i \in 1..(n + 3) : all[i] = IF i <= n THEN t[i] ELSE s3[i - n]
  BY <1>2, <1>4, <1>5, <1>6 DEF n, all
<1>8. all[n + 1] = s3[1] /\ all[n + 2] = s3[2] /\ all[n + 3] = s3[3]
  <2>1. n \in Int /\ n >= 0
    BY <1>7
  <2>2. /\ n + 1 \in 1..(n + 3) /\ n + 2 \in 1..(n + 3) /\ n + 3 \in 1..(n + 3)
        /\ ~(n + 1 <= n) /\ ~(n + 2 <= n) /\ ~(n + 3 <= n)
        /\ (n + 1) - n = 1 /\ (n + 2) - n = 2 /\ (n + 3) - n = 3
    BY <2>1
  <2>3. all[n + 1] = s3[1]
    BY <1>7, <2>2
  <2>4. all[n + 2] = s3[2]
    BY <1>7, <2>2
  <2>5. all[n + 3] = s3[3]
    BY <1>7, <2>2
  <2> QED
    BY <2>3, <2>4, <2>5
<1>9. (Mismatched(q) => all[1] = t[1]) /\ (Refuses(q) => all[n] = t[n])
  BY <1>6, <1>7 DEF n
<1> QED
  BY <1>2, <1>4, <1>7, <1>8, <1>9 DEF n, all

\* The option that beats every other is the first of the best.
LEMMA BestIsTheWinner ==
  ASSUME NEW q, NEW w \in DOMAIN GenerateOptions(q),
         \A i \in DOMAIN GenerateOptions(q) : ScoreOption(GenerateOptions(q)[i], q) \in Int,
         \A i \in DOMAIN GenerateOptions(q) :
           i # w => ScoreOption(GenerateOptions(q)[i], q) < ScoreOption(GenerateOptions(q)[w], q)
  PROVE  Best(q) = GenerateOptions(q)[w]
<1> DEFINE options == GenerateOptions(q)
           score(i) == ScoreOption(options[i], q)
           best == {i \in DOMAIN options : \A j \in DOMAIN options : score(j) <= score(i)}
<1> HIDE DEF options, score
<1>1. /\ w \in DOMAIN options /\ \A i \in DOMAIN options : score(i) \in Int
      /\ \A i \in DOMAIN options : i # w => score(i) < score(w)
  BY DEF options, score
<1>2. best = {w}
  BY <1>1
<1>3. Best(q) = options[Min(best)]
  BY DEF Best, options, score
<1>4. w \in Int /\ w <= w
  BY <1>1, OptionsAre DEF options
<1>5. Min({w}) = w
  BY <1>4 DEF Min
<1> QED
  BY <1>2, <1>3, <1>5 DEF options

LEMMA Scores ==
  ASSUME NEW q, Weighed(q), q.risk # "high",
         NEW fails \in {0, 12}, fails = (IF q.prophet = "fail" /\ q.risk # "low" THEN 12 ELSE 0)
  PROVE  /\ ScoreOption("interpret_only", q) =
              62 + (IF q.risk = "elevated" THEN -4 ELSE 0) + (IF q.allowed THEN 0 ELSE -20) - fails
         /\ ScoreOption("prepare_plan", q) =
              58 + (IF q.risk = "elevated" THEN 8 ELSE 0) + (IF q.allowed THEN 0 ELSE -20) - fails
         /\ ScoreOption("ask_witness", q) =
              60 + (IF q.risk = "elevated" THEN 8 ELSE 0) + (IF q.allowed THEN 0 ELSE -20) - fails
         /\ ScoreOption("authority_mismatch", q) =
              68 + (IF q.risk = "elevated" THEN 8 ELSE 0) + (IF q.allowed THEN 0 ELSE -20) - fails
         /\ ScoreOption("refuse_or_narrow", q) =
              68 + (IF q.risk = "elevated" THEN 8 ELSE 0) + (IF q.allowed THEN 0 ELSE 20) + fails
BY DEF ScoreOption, If, RequiresWitness, Narrowing, Weighed

\* Which option wins, when the risk is not high.
LEMMA BestIs ==
  ASSUME NEW q, Weighed(q), q.risk # "high"
  PROVE  Best(q) = IF ~q.allowed THEN "refuse_or_narrow"
                   ELSE IF Mismatched(q) THEN "authority_mismatch"
                   ELSE IF q.risk = "elevated" THEN "ask_witness" ELSE "interpret_only"
<1> DEFINE n == InFront(q)
           options == GenerateOptions(q)
           score(k) == ScoreOption(k, q)
<1>1. /\ DOMAIN options = 1..(n + 3) /\ n \in 0..2
      /\ options[n + 1] = "interpret_only" /\ options[n + 2] = "prepare_plan" /\ options[n + 3] = "ask_witness"
      /\ Mismatched(q) => options[1] = "authority_mismatch"
      /\ Refuses(q) => options[n] = "refuse_or_narrow"
  BY OptionsAre
<1>2. /\ Refuses(q) <=> ~q.allowed
      /\ n = (IF Mismatched(q) THEN 1 ELSE 0) + (IF ~q.allowed THEN 1 ELSE 0)
  BY DEF Refuses, InFront
<1>3. PICK fails \in {0, 12} : fails = (IF q.prophet = "fail" /\ q.risk # "low" THEN 12 ELSE 0)
  OBVIOUS
<1>4. PICK more \in {0, 8} : more = IF q.risk = "elevated" THEN 8 ELSE 0
  OBVIOUS
<1>5. /\ score("interpret_only") = 62 + (IF q.risk = "elevated" THEN -4 ELSE 0) + (IF q.allowed THEN 0 ELSE -20) - fails
      /\ score("prepare_plan") = 58 + more + (IF q.allowed THEN 0 ELSE -20) - fails
      /\ score("ask_witness") = 60 + more + (IF q.allowed THEN 0 ELSE -20) - fails
      /\ score("authority_mismatch") = 68 + more + (IF q.allowed THEN 0 ELSE -20) - fails
      /\ score("refuse_or_narrow") = 68 + more + (IF q.allowed THEN 0 ELSE 20) + fails
  BY <1>3, <1>4, Scores
<1>6. ASSUME NEW k \in {"interpret_only", "prepare_plan", "ask_witness", "authority_mismatch", "refuse_or_narrow"}
      PROVE  score(k) \in Int
  BY <1>3, <1>4, <1>5, <1>6
<1> HIDE DEF n, options, score
<1>7. ASSUME NEW i \in DOMAIN options
      PROVE  \/ i = n + 1 \/ i = n + 2 \/ i = n + 3
             \/ i = 1 /\ Mismatched(q)
             \/ i = n /\ ~q.allowed
  BY <1>1, <1>2
<1>8. CASE ~q.allowed
  <2>1. n \in DOMAIN options /\ options[n] = "refuse_or_narrow"
    BY <1>1, <1>2, <1>8
  <2>2. ASSUME NEW i \in DOMAIN options
        PROVE  score(options[i]) \in Int /\ (i # n => score(options[i]) < score(options[n]))
    BY <1>1, <1>2, <1>3, <1>4, <1>5, <1>7, <1>8, <2>1
  <2>3. Best(q) = options[n]
    BY <2>1, <2>2, BestIsTheWinner DEF options, score
  <2> QED
    BY <1>8, <2>1, <2>3
<1>9. CASE q.allowed /\ Mismatched(q)
  <2>1. n = 1 /\ 1 \in DOMAIN options /\ options[1] = "authority_mismatch"
    BY <1>1, <1>2, <1>9
  <2>2. ASSUME NEW i \in DOMAIN options
        PROVE  score(options[i]) \in Int /\ (i # 1 => score(options[i]) < score(options[1]))
    BY <1>1, <1>2, <1>3, <1>4, <1>5, <1>7, <1>9, <2>1
  <2>3. Best(q) = options[1]
    BY <2>1, <2>2, BestIsTheWinner DEF options, score
  <2> QED
    BY <1>9, <2>1, <2>3
<1>10. CASE q.allowed /\ ~Mismatched(q) /\ q.risk = "elevated"
  <2>1. n = 0 /\ 3 \in DOMAIN options /\ options[3] = "ask_witness"
    BY <1>1, <1>2, <1>10
  <2>2. ASSUME NEW i \in DOMAIN options
        PROVE  score(options[i]) \in Int /\ (i # 3 => score(options[i]) < score(options[3]))
    BY <1>1, <1>2, <1>3, <1>4, <1>5, <1>7, <1>10, <2>1
  <2>3. Best(q) = options[3]
    BY <2>1, <2>2, BestIsTheWinner DEF options, score
  <2> QED
    BY <1>10, <2>1, <2>3
<1>11. CASE q.allowed /\ ~Mismatched(q) /\ q.risk # "elevated"
  <2>1. n = 0 /\ 1 \in DOMAIN options /\ options[1] = "interpret_only"
    BY <1>1, <1>2, <1>11
  <2>2. ASSUME NEW i \in DOMAIN options
        PROVE  score(options[i]) \in Int /\ (i # 1 => score(options[i]) < score(options[1]))
    BY <1>1, <1>2, <1>3, <1>4, <1>5, <1>7, <1>11, <2>1
  <2>3. Best(q) = options[1]
    BY <2>1, <2>2, BestIsTheWinner DEF options, score
  <2> QED
    BY <1>11, <2>1, <2>3
<1> QED
  BY <1>8, <1>9, <1>10, <1>11

\* When the risk is high the recommendation does not depend on the scores.
LEMMA RecommendationIsRight ==
  ASSUME NEW q, Weighed(q)
  PROVE  /\ Refuses(q) <=> Recommendation(q) = "refuse_or_narrow"
         /\ ~Refuses(q) /\ Mismatched(q) => Recommendation(q) = "authority_mismatch"
         /\ q.risk = "elevated" => RequiresWitness(Recommendation(q))
<1>1. CASE q.risk = "high"
  BY <1>1 DEF Recommendation, Refuses
<1>2. CASE q.risk # "high"
  <2>1. Recommendation(q) = Best(q) /\ (Refuses(q) <=> ~q.allowed)
    BY <1>2 DEF Recommendation, Refuses
  <2>2. Best(q) = IF ~q.allowed THEN "refuse_or_narrow"
                   ELSE IF Mismatched(q) THEN "authority_mismatch"
                   ELSE IF q.risk = "elevated" THEN "ask_witness" ELSE "interpret_only"
    BY <1>2, BestIs
  <2> QED
    BY <2>1, <2>2 DEF RequiresWitness
<1> QED
  BY <1>1, <1>2

\* A remote provider is routed to only with its key, and offline only when named.
LEMMA RouteIsRight ==
  ASSUME NEW q \in Queries, Route(q) \in RemoteProviders
  PROVE  Route(q) \in q.keys /\ (q.offline => q.forced = Route(q))
<1> DEFINE local == [q EXCEPT !.hard = FALSE]
<1>1. local.hard = FALSE /\ local.keys = q.keys
  BY DEF Queries
<1>2. "local" \notin RemoteProviders /\ "echo" \notin RemoteProviders
  BY DEF RemoteProviders
<1>3. ASSUME NEW p, RouteHard(p) \in RemoteProviders
      PROVE  p.hard /\ RouteHard(p) \in p.keys
  BY <1>2, <1>3 DEF RouteHard
<1> HIDE DEF local
<1>4. Route(q) = IF q.authority \notin {"interpret", "observe"} THEN "local"
                 ELSE IF q.forced = "echo" THEN "echo"
                 ELSE IF q.forced \notin {"echo", "none"} /\ q.modelKnown
                      THEN IF q.forced \in q.keys THEN q.forced ELSE "local"
                      ELSE RouteHard(IF q.offline THEN local ELSE q)
  BY DEF Route, local
<1> QED
  BY <1>1, <1>2, <1>3, <1>4

\* The deciders only advise, and what they advise is lawful (deliberation.py: bounded
\* next steps; model_registry.py: offline means here).
THEOREM AdviceIsAlwaysLawful == AdviceSpec => []AdviceIsLawful
<1>1. AdviceInit => AdviceIsLawful
  BY DEF AdviceInit, Nothing, AdviceIsLawful, RecommendationIsLawful, OfflineStaysHere
<1>2. ASSUME Deliberate
      PROVE  AdviceIsLawful'
  <2>1. PICK t \in Tasks :
          /\ asked' = Collected(t)
          /\ advice' = [kind |-> "deliberation", refused |-> Refuses(Collected(t)), recommendation |-> Recommendation(Collected(t))]
    BY <1>2 DEF Deliberate
  <2> DEFINE q == Collected(t)
  <2>2. Weighed(q)
    BY DEF Collected, Weighed, RiskLabel, GuardianAllows
  <2> HIDE DEF q
  <2>3. asked'.estimate = q.estimate /\ asked'.authority = q.authority /\ asked'.risk = q.risk
    BY <2>1, <2>2 DEF q
  <2>4. advice'.kind = "deliberation" /\ advice'.refused = Refuses(q) /\ advice'.recommendation = Recommendation(q)
    BY <2>1 DEF q
  <2> QED
    BY <2>2, <2>3, <2>4, RecommendationIsRight
       DEF AdviceIsLawful, RecommendationIsLawful, OfflineStaysHere, Mismatched
<1>3. ASSUME Propose
      PROVE  AdviceIsLawful'
  <2>1. PICK q \in Queries :
          /\ asked' = q
          /\ advice' = [kind |-> "proposal", provider |-> Route(q)]
    BY <1>3 DEF Propose
  <2>2. advice'.kind = "proposal" /\ advice'.provider = Route(q)
    BY <2>1
  <2> QED
    BY <2>1, <2>2, RouteIsRight DEF AdviceIsLawful, RecommendationIsLawful, OfflineStaysHere
<1>4. ASSUME UNCHANGED adviceVars, AdviceIsLawful
      PROVE  AdviceIsLawful'
  BY <1>4 DEF adviceVars, AdviceIsLawful, RecommendationIsLawful, OfflineStaysHere
<1> QED
  BY <1>1, <1>2, <1>3, <1>4, PTL DEF AdviceSpec, AdviceNext
===============================================================================
