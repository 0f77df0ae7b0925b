--------------------------- MODULE SectorsManager ---------------------------
(***************************************************************************)
(* The sectors of one process: solution/src/sectors_manager.rs, as the     *)
(* workers of the process use it for ReadProc and WriteProc                *)
(* (solution/src/atomic_register.rs).                                      *)
(*                                                                         *)
(* AtomicRegister has one worker and sees a sector as a pair (data, tag).  *)
(* Here are the files, the map of the metadata, and several workers whose  *)
(* steps interleave at the locks and file operations.                      *)
(*                                                                         *)
(* Tags are positive numbers, and the content written under a tag is named *)
(* by the tag: 0 is both the tag and the content of an unwritten sector.   *)
(***************************************************************************)
EXTENDS Naturals, Sequences, FiniteSets

CONSTANTS
    Sector, Worker,
    PerFile,      \* METADATAS_PER_FILE
    Faults,       \* subset of {"crash", "disk"}
    MaxTag,       \* bound: highest tag written
    MaxJobs, MaxCrashes   \* bounds: commands handled, crashes

ASSUME SectorsAssumption ==
    /\ PerFile \in Nat \ {0}
    /\ MaxTag \in Nat /\ MaxJobs \in Nat /\ MaxCrashes \in Nat

VARIABLES
    data,        \* the data files: content of each sector, 0 when there is no file
    metadata,    \* the metadata files, each a sequence of [sector, tag]
    info,        \* metadata_info_map: location of a sector's entry
    total,       \* metadata_total_size, in entries
    job,         \* what each worker is doing
    replies,     \* the pairs sent in Value
    jobs, crashes

vars == <<data, metadata, info, total, job, replies, jobs, crashes>>

-----------------------------------------------------------------------------
(* The metadata files *)

Location(f, o) == [file |-> f, offset |-> o]

EntryAt(loc) == metadata[loc.file][loc.offset]

FileContent(f) == IF f \in DOMAIN metadata THEN metadata[f] ELSE <<>>

\* Mutant of NewLocation: the offset is not reduced to the file.
NewLocation_NoModulo(n) == Location((n \div PerFile) + 1, n + 1)

NewLocation(n) == Location((n \div PerFile) + 1, (n % PerFile) + 1)

EntryLocation(s) == IF s \in DOMAIN info THEN info[s] ELSE NewLocation(total)

\* Mutant of PutEntry: an entry is appended even if the sector has one.
PutEntry_Append(file, o, e) == Append(file, e)

PutEntry(file, o, e) ==
    IF o = Len(file) + 1 THEN Append(file, e) ELSE [file EXCEPT ![o] = e]

WithFile(f, file) ==
    IF f = Len(metadata) + 1 THEN Append(metadata, file) ELSE [metadata EXCEPT ![f] = file]

\* What SectorsManagerImplementation::new finds: the locations of all entries, the last
\* one of a sector if there are several.
Locations == UNION {{Location(f, o) : o \in DOMAIN metadata[f]} : f \in DOMAIN metadata}

Precedes(a, b) == a.file < b.file \/ (a.file = b.file /\ a.offset < b.offset)

ScannedInfo ==
    [s \in {EntryAt(loc).sector : loc \in Locations} |->
        CHOOSE loc \in Locations :
            /\ EntryAt(loc).sector = s
            /\ \A l \in Locations : EntryAt(l).sector = s => ~Precedes(loc, l)]

-----------------------------------------------------------------------------
(* read_data and read_metadata *)

ReadData(s) == IF s \in DOMAIN info THEN data[s] ELSE 0
ReadMetadata(s) == IF s \in DOMAIN info THEN EntryAt(info[s]).tag ELSE 0

-----------------------------------------------------------------------------
(* The workers *)

Idle == [step |-> "idle"]

\* A ReadProc or WriteProc goes to any register that is ready, whatever sector it is for
\* and whoever else is busy with that sector.
MayBegin(w) == job[w] = Idle /\ jobs < MaxJobs

Become(w, j) == job' = [job EXCEPT ![w] = j]

\* ReadProc: the data first ...
BeginRead(w, s) ==
    /\ MayBegin(w)
    /\ Become(w, [step |-> "read_metadata", sector |-> s, data |-> ReadData(s)])
    /\ jobs' = jobs + 1
    /\ UNCHANGED <<data, metadata, info, total, replies, crashes>>

\* ... and then, under a lock of its own, the metadata.
EndRead(w) ==
    /\ job[w].step = "read_metadata"
    /\ replies' = replies \cup {[sector |-> job[w].sector, data |-> job[w].data,
                                 tag |-> ReadMetadata(job[w].sector)]}
    /\ Become(w, Idle)
    /\ UNCHANGED <<data, metadata, info, total, jobs, crashes>>

\* Mutant of IsNewer: the tag is not compared.
IsNewer_Any(s, tag) == TRUE

IsNewer(s, tag) == tag > ReadMetadata(s)

\* WriteProc: the sector is written if the tag is newer than the metadata is now. `seen' is
\* the tag it was compared with; no lock is kept until the files are written.
BeginWrite(w, s, tag) ==
    /\ MayBegin(w)
    /\ Become(w, IF IsNewer(s, tag)
                 THEN [step |-> "write_data", sector |-> s, tag |-> tag,
                       seen |-> ReadMetadata(s)]
                 ELSE Idle)
    /\ jobs' = jobs + 1
    /\ UNCHANGED <<data, metadata, info, total, replies, crashes>>

\* The file is renamed into place without a lock. On an error, before or after the rename,
\* write returns.
WriteData(w) ==
    /\ job[w].step = "write_data"
    /\ LET written == [data EXCEPT ![job[w].sector] = job[w].tag]
       IN  \/ data' = written /\ Become(w, [job[w] EXCEPT !.step = "write_metadata"])
           \/ "disk" \in Faults /\ data' \in {data, written} /\ Become(w, Idle)
    /\ UNCHANGED <<metadata, info, total, replies, jobs, crashes>>

\* Under both locks: read the file, change one entry, replace the file, and only then
\* record where the entry is.
WriteMetadata(w) ==
    /\ job[w].step = "write_metadata"
    /\ LET s == job[w].sector
           loc == EntryLocation(s)
           written == WithFile(loc.file, PutEntry(FileContent(loc.file), loc.offset,
                                                  [sector |-> s, tag |-> job[w].tag]))
       IN  \/ /\ metadata' = written
              /\ info' = [u \in DOMAIN info \cup {s} |-> IF u = s THEN loc ELSE info[u]]
              /\ total' = IF s \in DOMAIN info THEN total ELSE total + 1
           \/ /\ "disk" \in Faults
              /\ metadata' \in {metadata, written}
              /\ UNCHANGED <<info, total>>
    /\ Become(w, Idle)
    /\ UNCHANGED <<data, replies, jobs, crashes>>

-----------------------------------------------------------------------------
(* The process stops at any point and starts again: SectorsManagerImplementation::new *)

CrashAndRestart ==
    /\ "crash" \in Faults
    /\ crashes < MaxCrashes
    /\ info' = ScannedInfo
    /\ total' = Cardinality(Locations)
    /\ job' = [w \in Worker |-> Idle]
    /\ crashes' = crashes + 1
    /\ UNCHANGED <<data, metadata, replies, jobs>>

-----------------------------------------------------------------------------
Init ==
    /\ data = [s \in Sector |-> 0]
    /\ metadata = <<>>
    /\ info = [s \in {} |-> Location(1, 1)]
    /\ total = 0
    /\ job = [w \in Worker |-> Idle]
    /\ replies = {}
    /\ jobs = 0 /\ crashes = 0

Next ==
    \/ \E w \in Worker : \/ \E s \in Sector : BeginRead(w, s)
                         \/ EndRead(w)
                         \/ \E s \in Sector : \E tag \in 1..MaxTag : BeginWrite(w, s, tag)
                         \/ WriteData(w)
                         \/ WriteMetadata(w)
    \/ CrashAndRestart

Spec == Init /\ [][Next]_vars
-----------------------------------------------------------------------------
(* Properties *)

\* Every variable holds a value the code's types allow, and no metadata file is longer
\* than METADATAS_FILE_SIZE.
TypeOK ==
    /\ data \in [Sector -> 0..MaxTag]
    /\ \A f \in DOMAIN metadata : /\ Len(metadata[f]) \in 1..PerFile
                                  /\ \A e \in {metadata[f][o] : o \in DOMAIN metadata[f]} :
                                        e \in [sector : Sector, tag : 1..MaxTag]
    /\ DOMAIN info \subseteq Sector /\ total \in Nat
    /\ jobs \in 0..MaxJobs /\ crashes \in 0..MaxCrashes

\* A restart finds the metadata of every sector where it was, whatever was being written
\* and whatever failed before: the map in memory agrees with a scan of the files.
RestartFindsMetadata ==
    \A s \in DOMAIN info : s \in DOMAIN ScannedInfo /\ ScannedInfo[s] = info[s]

\* The tag of a sector is lowered by nothing but a WriteProc of that sector whose comparison
\* is out of date: it found an older tag than its own, and another WriteProc has put a newer
\* one there since. No crash, restart, failed write, or write of another sector whose entry
\* is in the same file or took the place of a lost one, ever takes a tag back.
TagLoweredByRaceOnly ==
    [][\A s \in Sector : ReadMetadata(s)' < ReadMetadata(s) =>
          \E w \in Worker : /\ job[w].step = "write_metadata" /\ job[w].sector = s
                            /\ job[w].seen < job[w].tag
                            /\ ReadMetadata(s)' = job[w].tag]_vars

\* A Value pairs a tag with the content that was written under it.
ReadPairWritten == \A r \in replies : r.data = r.tag
=============================================================================
