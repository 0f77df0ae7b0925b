------------------------ MODULE SectorsManagerProofs ------------------------
(***************************************************************************)
(* Proofs about SectorsManager, for every number of sectors, workers and   *)
(* entries per file, under every fault.                                    *)
(***************************************************************************)
EXTENDS SectorsManager, FiniteSetTheorems, SequenceTheorems, TLAPS

Entry == [sector : Sector, tag : 1..MaxTag]

\* The places of the first n entries.
Slots(n) == {NewLocation(i) : i \in 0..(n - 1)}

FilesTyped ==
    /\ metadata \in Seq(Seq(Entry))
    /\ \A f \in DOMAIN metadata : metadata[f] # <<>>

ReadJob == [step : {"read_metadata"}, sector : Sector, data : 0..MaxTag]
WriteJob == [step : {"write_data", "write_metadata"}, sector : Sector, tag : 1..MaxTag,
             seen : Nat]

JobsTyped == job \in [Worker -> {Idle} \cup ReadJob \cup WriteJob]

\* The files hold the entries of metadata_total_size without a gap, and at most one more:
\* that of a write which failed after its file was replaced.
FilesFilled == \E n \in {total, total + 1} : Locations = Slots(n)

\* The map leads every sector to its entry ...
InfoPlaced == \A s \in DOMAIN info : info[s] \in Slots(total) /\ EntryAt(info[s]).sector = s

\* ... and every entry below metadata_total_size is in the map.
SlotsKnown ==
    \A loc \in Slots(total) :
        EntryAt(loc).sector \in DOMAIN info /\ info[EntryAt(loc).sector] = loc

\* The entry beyond metadata_total_size is that of a sector the map does not have.
ExtraUnknown ==
    NewLocation(total) \in Locations =>
        EntryAt(NewLocation(total)).sector \notin DOMAIN info

LayoutInv ==
    /\ TypeOK /\ FilesTyped /\ JobsTyped
    /\ FilesFilled /\ InfoPlaced /\ SlotsKnown /\ ExtraUnknown

\* A worker writes a tag that is newer than the one it was compared with.
SeenOlder ==
    \A w \in Worker :
        job[w].step \in {"write_data", "write_metadata"} => job[w].seen < job[w].tag

TagInv == LayoutInv /\ SeenOlder

-----------------------------------------------------------------------------
(* Places of entries *)

\* An entry is in a file, at an offset within the file.
LEMMA PlaceOfEntry ==
    ASSUME NEW n \in Nat
    PROVE  /\ NewLocation(n) = Location(NewLocation(n).file, NewLocation(n).offset)
           /\ NewLocation(n).file \in Nat \ {0} /\ NewLocation(n).offset \in 1..PerFile
           /\ NewLocation(n).file = (n \div PerFile) + 1
           /\ NewLocation(n).offset = (n % PerFile) + 1
  <1>1. n \div PerFile \in Nat
    BY SectorsAssumption
  <1>2. n % PerFile \in 0..(PerFile - 1)
    BY SectorsAssumption
  <1> QED
    BY <1>1, <1>2, SectorsAssumption DEF NewLocation, Location

\* No two entries have the same place.
LEMMA PlacesApart ==
    ASSUME NEW m \in Nat, NEW n \in Nat, NewLocation(m) = NewLocation(n)
    PROVE  m = n
  <1>1. (m \div PerFile) + 1 = (n \div PerFile) + 1 /\ (m % PerFile) + 1 = (n % PerFile) + 1
    BY PlaceOfEntry
  <1> QED
    BY <1>1, SectorsAssumption

\* An entry follows the one before it, in the same file or at the start of the next.
LEMMA PlaceBefore ==
    ASSUME NEW n \in Nat \ {0}
    PROVE  LET loc == NewLocation(n)
               before == NewLocation(n - 1)
           IN  IF loc.offset = 1
               THEN before.file = loc.file - 1
               ELSE before.file = loc.file /\ before.offset = loc.offset - 1
  <1>1. IF n % PerFile = 0 THEN (n - 1) \div PerFile = (n \div PerFile) - 1
        ELSE /\ (n - 1) \div PerFile = n \div PerFile
             /\ (n - 1) % PerFile = (n % PerFile) - 1
    BY SectorsAssumption
  <1>2. n - 1 \in Nat
    OBVIOUS
  <1>3. /\ n \div PerFile \in Nat /\ n % PerFile \in Nat
        /\ (n - 1) \div PerFile \in Nat /\ (n - 1) % PerFile \in Nat
    BY <1>2, SectorsAssumption
  <1>4. /\ NewLocation(n).file = (n \div PerFile) + 1
        /\ NewLocation(n).offset = (n % PerFile) + 1
        /\ NewLocation(n - 1).file = ((n - 1) \div PerFile) + 1
        /\ NewLocation(n - 1).offset = ((n - 1) % PerFile) + 1
    BY <1>2, PlaceOfEntry
  <1> QED
    BY <1>1, <1>3, <1>4

\* The first entry is at the start of the first file.
LEMMA FirstPlace == NewLocation(0) = Location(1, 1)
  <1>1. 0 \div PerFile = 0 /\ 0 % PerFile = 0
    BY SectorsAssumption
  <1> QED
    BY <1>1 DEF NewLocation

LEMMA OneMoreSlot ==
    ASSUME NEW n \in Nat
    PROVE  /\ Slots(n + 1) = Slots(n) \cup {NewLocation(n)}
           /\ NewLocation(n) \notin Slots(n)
  <1>1. 0..((n + 1) - 1) = (0..(n - 1)) \cup {n}
    OBVIOUS
  <1>2. \A i \in 0..(n - 1) : NewLocation(i) # NewLocation(n)
    BY PlacesApart
  <1> QED
    BY <1>1, <1>2 DEF Slots

\* n entries have n places.
LEMMA CountSlots ==
    ASSUME NEW n \in Nat
    PROVE  Cardinality(Slots(n)) = n
  <1> DEFINE I == 0..(n - 1)
             g == [i \in I |-> NewLocation(i)]
  <1>1. IsFiniteSet(I) /\ Cardinality(I) = n
    BY FS_Interval
  <1>2. g \in Bijection(I, Slots(n))
    <2>1. \A i, j \in I : g[i] = g[j] => i = j
      BY PlacesApart
    <2>2. g \in [I -> Slots(n)]
      BY DEF Slots
    <2>3. \A l \in Slots(n) : \E i \in I : g[i] = l
      BY DEF Slots
    <2> QED
      BY <2>1, <2>2, <2>3 DEF Bijection, Injection, Surjection, IsInjective
  <1>3. ExistsBijection(I, Slots(n))
    BY <1>2 DEF ExistsBijection
  <1> QED
    BY <1>1, <1>3, FS_Bijection

-----------------------------------------------------------------------------
(* Files *)

\* A sequence with one element replaced.
LEMMA ReplacedElement ==
    ASSUME NEW S, NEW q \in Seq(S), NEW i \in DOMAIN q, NEW e \in S,
           NEW new, new = [q EXCEPT ![i] = e]
    PROVE  /\ new \in Seq(S) /\ DOMAIN new = DOMAIN q /\ new # <<>>
           /\ new[i] = e /\ \A k \in DOMAIN q : k # i => new[k] = q[k]
  <1>1. DOMAIN q = 1..Len(q) /\ Len(q) \in Nat
    OBVIOUS
  <1>2. new \in Seq(S) /\ Len(new) = Len(q)
    BY <1>1, ExceptSeq
  <1>3. Len(new) # 0
    BY <1>1, <1>2
  <1>4. new # <<>>
    BY <1>3
  <1> QED
    BY <1>2, <1>4

\* A sequence with one element appended.
LEMMA AppendedElement ==
    ASSUME NEW S, NEW q \in Seq(S), NEW e \in S, NEW new, new = Append(q, e)
    PROVE  /\ new \in Seq(S) /\ DOMAIN new = DOMAIN q \cup {Len(q) + 1} /\ new # <<>>
           /\ new[Len(q) + 1] = e /\ \A k \in DOMAIN q : new[k] = q[k]
  <1>1. DOMAIN q = 1..Len(q) /\ Len(q) \in Nat
    OBVIOUS
  <1>2. /\ new \in Seq(S) /\ Len(new) = Len(q) + 1 /\ new[Len(q) + 1] = e
        /\ \A k \in 1..Len(q) : new[k] = q[k]
    OBVIOUS
  <1>3. DOMAIN new = 1..(Len(q) + 1) /\ Len(new) # 0
    BY <1>1, <1>2
  <1>4. new # <<>>
    BY <1>3
  <1> QED
    BY <1>1, <1>2, <1>3, <1>4

LEMMA PlaceIsPairOf ==
    ASSUME NEW f, NEW o, NEW g, NEW k, Location(f, o) = Location(g, k)
    PROVE  f = g /\ o = k
  <1>1. Location(f, o).file = Location(g, k).file /\ Location(f, o).offset = Location(g, k).offset
    OBVIOUS
  <1> QED
    BY <1>1 DEF Location

\* What is on disc, as files and offsets.
LEMMA PlacesOnDisc ==
    ASSUME FilesTyped, NEW f, NEW o
    PROVE  Location(f, o) \in Locations <=>
              f \in 1..Len(metadata) /\ o \in 1..Len(metadata[f])
  <1>1. DOMAIN metadata = 1..Len(metadata)
    BY DEF FilesTyped
  <1>2. \A g \in 1..Len(metadata) : DOMAIN metadata[g] = 1..Len(metadata[g])
    BY DEF FilesTyped
  <1> QED
    BY <1>1, <1>2, PlaceIsPairOf DEF Locations

LEMMA PlaceIsPair ==
    ASSUME NEW loc \in Locations
    PROVE  loc = Location(loc.file, loc.offset)
  BY DEF Locations, Location

\* Replacing one entry of a file leaves all others.
LEMMA ReplacedEntry ==
    ASSUME FilesTyped, NEW loc \in Locations, NEW e \in Entry,
           metadata' = WithFile(loc.file, PutEntry(FileContent(loc.file), loc.offset, e))
    PROVE  /\ FilesTyped' /\ Locations' = Locations
           /\ EntryAt(loc)' = e
           /\ \A l \in Locations : l # loc => EntryAt(l)' = EntryAt(l)
  <1> DEFINE f == loc.file
             o == loc.offset
             file == metadata[f]
             new == [file EXCEPT ![o] = e]
  <1>1. loc = Location(f, o) /\ f \in 1..Len(metadata) /\ o \in 1..Len(file)
    BY PlaceIsPair, PlacesOnDisc
  <1>2. /\ metadata \in Seq(Seq(Entry)) /\ Len(metadata) \in Nat
        /\ DOMAIN metadata = 1..Len(metadata)
        /\ file \in Seq(Entry) /\ Len(file) \in Nat /\ DOMAIN file = 1..Len(file)
    BY <1>1 DEF FilesTyped
  <1>3. f # Len(metadata) + 1 /\ o # Len(file) + 1 /\ f \in DOMAIN metadata
    BY <1>1, <1>2
  <1>4. metadata' = [metadata EXCEPT ![f] = new]
    BY <1>3 DEF WithFile, PutEntry, FileContent
  <1>5. /\ new \in Seq(Entry) /\ DOMAIN new = DOMAIN file /\ new[o] = e /\ new # <<>>
        /\ \A k \in DOMAIN file : k # o => new[k] = file[k]
    <2>1. file \in Seq(Entry) /\ o \in DOMAIN file /\ new = [file EXCEPT ![o] = e]
      BY <1>1, <1>2
    <2> HIDE DEF f, o, file, new
    <2> QED
      BY <2>1, ReplacedElement
  <1> HIDE DEF new
  <1>6. /\ metadata' \in Seq(Seq(Entry)) /\ DOMAIN metadata' = DOMAIN metadata
        /\ metadata'[f] = new
        /\ \A g \in DOMAIN metadata : g # f => metadata'[g] = metadata[g]
    BY <1>2, <1>3, <1>4, <1>5, ReplacedElement
  <1>7. FilesTyped'
    BY <1>5, <1>6 DEF FilesTyped
  <1>8. \A g \in DOMAIN metadata : DOMAIN metadata'[g] = DOMAIN metadata[g]
    BY <1>5, <1>6
  <1>9. Locations' = Locations
    BY <1>6, <1>8 DEF Locations
  <1>10. EntryAt(loc)' = e
    BY <1>5, <1>6 DEF EntryAt
  <1>11. ASSUME NEW l \in Locations, l # loc PROVE EntryAt(l)' = EntryAt(l)
    <2>1. l = Location(l.file, l.offset)
      BY PlaceIsPair
    <2>2. l.file \in DOMAIN metadata /\ l.offset \in DOMAIN metadata[l.file]
      BY DEF Locations, Location
    <2>3. CASE l.file # f
      BY <1>6, <2>2, <2>3 DEF EntryAt
    <2>4. CASE l.file = f
      <3>1. l.offset # o
        BY <1>1, <1>11, <2>1, <2>4
      <3> QED
        BY <1>5, <1>6, <2>2, <2>4, <3>1 DEF EntryAt
    <2> QED
      BY <2>3, <2>4
  <1> QED
    BY <1>7, <1>9, <1>10, <1>11

\* The entry after the last goes to the end of the last file, or to a new file if that is
\* full.
LEMMA AddedEntry ==
    ASSUME FilesTyped, NEW n \in Nat, Locations = Slots(n), NEW loc, loc = NewLocation(n),
           NEW e \in Entry,
           metadata' = WithFile(loc.file, PutEntry(FileContent(loc.file), loc.offset, e))
    PROVE  /\ FilesTyped' /\ Locations' = Slots(n + 1)
           /\ EntryAt(loc)' = e
           /\ \A l \in Locations : EntryAt(l)' = EntryAt(l)
  <1> DEFINE f == loc.file
             o == loc.offset
             file == FileContent(f)
             new == Append(file, e)
  <1>1. /\ loc = Location(f, o) /\ f \in Nat \ {0} /\ o \in 1..PerFile /\ PerFile \in Nat
    BY PlaceOfEntry, SectorsAssumption
  <1>2. /\ metadata \in Seq(Seq(Entry)) /\ Len(metadata) \in Nat
        /\ DOMAIN metadata = 1..Len(metadata)
        /\ \A g \in 1..Len(metadata) : /\ metadata[g] \in Seq(Entry) /\ metadata[g] # <<>>
                                       /\ Len(metadata[g]) \in Nat \ {0}
                                       /\ DOMAIN metadata[g] = 1..Len(metadata[g])
    BY DEF FilesTyped
  <1>3. ~(f \in 1..Len(metadata) /\ o \in 1..Len(metadata[f]))
    <2>1. loc \notin Locations
      BY OneMoreSlot
    <2> QED
      BY <1>1, <2>1, PlacesOnDisc
  <1>4. \/ f = Len(metadata) + 1 /\ o = 1
        \/ f \in 1..Len(metadata) /\ o = Len(metadata[f]) + 1
    <2>1. CASE n = 0
      <3>1. f = 1 /\ o = 1
        BY <2>1, FirstPlace DEF Location
      <3>2. Locations = {}
        BY <2>1 DEF Slots
      <3>3. Len(metadata) = 0
        <4>1. ASSUME Len(metadata) # 0 PROVE FALSE
          <5>1. 1 \in 1..Len(metadata) /\ 1 \in 1..Len(metadata[1])
            BY <1>2, <4>1
          <5>2. Location(1, 1) \in Locations
            BY <5>1, PlacesOnDisc
          <5> QED
            BY <3>2, <5>2
        <4> QED
          BY <4>1
      <3> QED
        BY <3>1, <3>3
    <2>2. CASE n # 0
      <3> DEFINE b == NewLocation(n - 1)
      <3>1. n - 1 \in Nat /\ n - 1 \in 0..(n - 1)
        BY <2>2
      <3>2. b \in Locations /\ b = Location(b.file, b.offset)
        BY <3>1, PlaceOfEntry DEF Slots
      <3>3. b.file \in 1..Len(metadata) /\ b.offset \in 1..Len(metadata[b.file])
        BY <3>2, PlacesOnDisc
      <3>4. IF o = 1 THEN b.file = f - 1 ELSE b.file = f /\ b.offset = o - 1
        BY <2>2, PlaceBefore
      <3> HIDE DEF b
      <3>5. CASE o = 1
        <4>1. f - 1 \in 1..Len(metadata)
          BY <3>3, <3>4, <3>5
        <4>2. f \notin 1..Len(metadata)
          BY <1>2, <1>3, <3>5
        <4> QED
          BY <1>1, <1>2, <3>5, <4>1, <4>2
      <3>6. CASE o # 1
        <4>1. f \in 1..Len(metadata) /\ o - 1 \in 1..Len(metadata[f])
          BY <3>3, <3>4, <3>6
        <4> QED
          BY <1>1, <1>2, <1>3, <4>1
      <3> QED
        BY <3>5, <3>6
    <2> QED
      BY <2>1, <2>2
  <1>5. file \in Seq(Entry) /\ Len(file) \in Nat /\ o = Len(file) + 1
    <2>1. CASE f = Len(metadata) + 1 /\ o = 1
      <3>1. file = <<>>
        BY <1>2, <2>1 DEF FileContent
      <3> QED
        <4>1. <<>> \in Seq(Entry) /\ Len(<<>>) = 0
          BY EmptySeq
        <4> HIDE DEF f, o, file
        <4> QED
          BY <2>1, <3>1, <4>1
    <2>2. CASE f \in 1..Len(metadata) /\ o = Len(metadata[f]) + 1
      BY <1>2, <2>2 DEF FileContent
    <2> QED
      BY <1>4, <2>1, <2>2
  <1>6. /\ new \in Seq(Entry) /\ new # <<>> /\ DOMAIN new = DOMAIN file \cup {o}
        /\ new[o] = e /\ \A k \in DOMAIN file : new[k] = file[k]
    BY <1>5, AppendedElement
  <1>7. metadata' = WithFile(f, new)
    BY <1>5 DEF PutEntry
  <1> HIDE DEF new
  <1>8. /\ metadata' \in Seq(Seq(Entry)) /\ DOMAIN metadata' = DOMAIN metadata \cup {f}
        /\ metadata'[f] = new
        /\ \A g \in DOMAIN metadata : g # f => metadata'[g] = metadata[g]
    <2>1. CASE f = Len(metadata) + 1
      <3>1. metadata' = Append(metadata, new)
        BY <1>7, <2>1 DEF WithFile
      <3> QED
        <4>1. /\ metadata' \in Seq(Seq(Entry)) /\ metadata'[Len(metadata) + 1] = new
              /\ DOMAIN metadata' = DOMAIN metadata \cup {Len(metadata) + 1}
              /\ \A k \in DOMAIN metadata : metadata'[k] = metadata[k]
          <5>1. metadata \in Seq(Seq(Entry)) /\ new \in Seq(Entry)
            BY <1>2, <1>6
          <5> QED
            BY <3>1, <5>1, AppendedElement
        <4> HIDE DEF f
        <4> QED
          BY <2>1, <4>1
    <2>2. CASE f \in 1..Len(metadata)
      <3>1. metadata' = [metadata EXCEPT ![f] = new]
        <4>1. f # Len(metadata) + 1
          BY <1>2, <2>2
        <4> QED
          BY <1>7, <4>1 DEF WithFile
      <3> QED
        BY <1>2, <1>6, <2>2, <3>1, ReplacedElement
    <2> QED
      BY <1>4, <2>1, <2>2
  <1>9. FilesTyped'
    BY <1>6, <1>8 DEF FilesTyped
  <1>10. \A g \in DOMAIN metadata : g # f => DOMAIN metadata'[g] = DOMAIN metadata[g]
    BY <1>8
  <1>11. f \in DOMAIN metadata => file = metadata[f]
    BY DEF FileContent
  <1>12. f \notin DOMAIN metadata => DOMAIN file = {}
    BY DEF FileContent
  <1> HIDE DEF file
  <1>13. Locations' = Locations \cup {Location(f, o)}
    <2>1. ASSUME NEW l \in Locations' PROVE l \in Locations \cup {Location(f, o)}
      <3>1. PICK g \in DOMAIN metadata' : \E k \in DOMAIN metadata'[g] : l = Location(g, k)
        BY DEF Locations, Location
      <3>2. CASE g = f
        BY <1>6, <1>8, <1>11, <1>12, <3>1, <3>2 DEF Locations
      <3>3. CASE g # f
        BY <1>8, <1>10, <3>1, <3>3 DEF Locations
      <3> QED
        BY <3>2, <3>3
    <2>2. ASSUME NEW l \in Locations PROVE l \in Locations'
      <3>0. PICK g \in DOMAIN metadata : \E k \in DOMAIN metadata[g] : l = Location(g, k)
        BY DEF Locations
      <3>1. PICK k \in DOMAIN metadata[g] : l = Location(g, k)
        BY <3>0
      <3>2. k \in DOMAIN metadata'[g] /\ g \in DOMAIN metadata'
        BY <1>6, <1>8, <1>10, <1>11, <3>1
      <3> QED
        BY <3>1, <3>2 DEF Locations, Location
    <2>3. Location(f, o) \in Locations'
      <3>1. f \in DOMAIN metadata' /\ o \in DOMAIN metadata'[f]
        BY <1>6, <1>8
      <3> HIDE DEF f, o
      <3> QED
        BY <3>1 DEF Locations, Location
    <2> QED
      BY <2>1, <2>2, <2>3
  <1>14. EntryAt(loc)' = e
    BY <1>6, <1>8 DEF EntryAt
  <1>15. ASSUME NEW l \in Locations PROVE EntryAt(l)' = EntryAt(l)
    <2>1. l.file \in DOMAIN metadata /\ l.offset \in DOMAIN metadata[l.file]
      BY DEF Locations, Location
    <2> QED
      <3>1. CASE l.file # f
        BY <1>8, <2>1, <3>1 DEF EntryAt
      <3>2. CASE l.file = f
        BY <1>6, <1>8, <1>11, <2>1, <3>2 DEF EntryAt
      <3> QED
        BY <3>1, <3>2
  <1> QED
    BY <1>1, <1>9, <1>13, <1>14, <1>15, OneMoreSlot

\* No file is longer than METADATAS_FILE_SIZE.
LEMMA FileSizes ==
    ASSUME NEW m \in Seq(Seq(Entry)), \A f \in DOMAIN m : m[f] # <<>>, NEW n \in Nat,
           \A f \in DOMAIN m : \A o \in DOMAIN m[f] : Location(f, o) \in Slots(n)
    PROVE  \A f \in DOMAIN m : /\ Len(m[f]) \in 1..PerFile
                               /\ \A e \in {m[f][o] : o \in DOMAIN m[f]} : e \in Entry
  <1> SUFFICES ASSUME NEW f \in DOMAIN m
               PROVE  /\ Len(m[f]) \in 1..PerFile
                      /\ \A e \in {m[f][o] : o \in DOMAIN m[f]} : e \in Entry
    OBVIOUS
  <1>1. m[f] \in Seq(Entry) /\ m[f] # <<>>
    OBVIOUS
  <1>2. Len(m[f]) \in Nat \ {0} /\ DOMAIN m[f] = 1..Len(m[f])
    BY <1>1
  <1>3. PICK i \in 0..(n - 1) : Location(f, Len(m[f])) = NewLocation(i)
    BY <1>2 DEF Slots
  <1>4. Len(m[f]) \in 1..PerFile
    <2>1. i \in Nat
      BY <1>3
    <2>2. Location(f, Len(m[f])).offset \in 1..PerFile
      BY <1>3, <2>1, PlaceOfEntry
    <2> QED
      BY <2>2 DEF Location
  <1> QED
    BY <1>1, <1>4

-----------------------------------------------------------------------------
(* Restarts find what is in the map *)

\* Each sector has at most one entry, so that a scan finds that one.
LEMMA ScanFinds ==
    ASSUME LayoutInv
    PROVE  /\ \A loc \in Locations : /\ EntryAt(loc).sector \in DOMAIN ScannedInfo
                                     /\ ScannedInfo[EntryAt(loc).sector] = loc
           /\ \A s \in DOMAIN ScannedInfo : /\ ScannedInfo[s] \in Locations
                                            /\ EntryAt(ScannedInfo[s]).sector = s
           /\ \A loc \in Locations : EntryAt(loc) \in Entry
           /\ Slots(total) \subseteq Locations
  <1>1. total \in Nat
    BY DEF LayoutInv, TypeOK
  <1>2. /\ Slots(total) \subseteq Locations
        /\ \A loc \in Locations : loc \in Slots(total) \/ loc = NewLocation(total)
    BY <1>1, OneMoreSlot DEF LayoutInv, FilesFilled
  <1>3. ASSUME NEW l \in Locations, NEW k \in Locations, EntryAt(l).sector = EntryAt(k).sector
        PROVE  l = k
    BY <1>2, <1>3 DEF LayoutInv, SlotsKnown, ExtraUnknown
  <1>4. ASSUME NEW l \in Locations
        PROVE  ~Precedes(l, l) /\ EntryAt(l) \in Entry
    <2>1. l.file \in DOMAIN metadata /\ l.offset \in DOMAIN metadata[l.file]
      BY DEF Locations, Location
    <2>2. metadata[l.file] \in Seq(Entry) /\ l.file \in Nat
      BY <2>1 DEF LayoutInv, FilesTyped
    <2>3. l.offset \in Nat /\ EntryAt(l) \in Entry
      BY <2>1, <2>2 DEF EntryAt
    <2> QED
      BY <2>2, <2>3 DEF Precedes
  <1>5. ASSUME NEW loc \in Locations
        PROVE  /\ EntryAt(loc).sector \in DOMAIN ScannedInfo
               /\ ScannedInfo[EntryAt(loc).sector] = loc
    <2> DEFINE s == EntryAt(loc).sector
               Last(l) == /\ EntryAt(l).sector = s
                          /\ \A k \in Locations : EntryAt(k).sector = s => ~Precedes(l, k)
    <2>1. s \in DOMAIN ScannedInfo /\ ScannedInfo[s] = CHOOSE l \in Locations : Last(l)
      BY DEF ScannedInfo
    <2>2. Last(loc)
      BY <1>3, <1>4
    <2>3. \A l \in Locations : Last(l) => l = loc
      BY <1>3
    <2> HIDE DEF Last
    <2>4. (CHOOSE l \in Locations : Last(l)) = loc
      BY <2>2, <2>3
    <2> QED
      BY <2>1, <2>4
  <1>6. \A s \in DOMAIN ScannedInfo : \E loc \in Locations : EntryAt(loc).sector = s
    BY DEF ScannedInfo
  <1> QED
    BY <1>2, <1>4, <1>5, <1>6

\* The map agrees with a scan of the files.
LEMMA ScanAgrees == LayoutInv => RestartFindsMetadata
  <1> SUFFICES ASSUME LayoutInv, NEW s \in DOMAIN info
               PROVE  s \in DOMAIN ScannedInfo /\ ScannedInfo[s] = info[s]
    BY DEF RestartFindsMetadata
  <1>1. info[s] \in Locations /\ EntryAt(info[s]).sector = s
    BY ScanFinds DEF LayoutInv, InfoPlaced
  <1> QED
    BY <1>1, ScanFinds

-----------------------------------------------------------------------------
(* The layout is kept *)

LEMMA LayoutInit == Init => LayoutInv
  <1> SUFFICES ASSUME Init PROVE LayoutInv
    OBVIOUS
  <1>1. metadata = <<>> /\ DOMAIN metadata = {} /\ total = 0 /\ DOMAIN info = {}
    BY DEF Init
  <1>2. TypeOK
    BY <1>1, SectorsAssumption DEF Init, TypeOK
  <1>3. FilesTyped
    BY <1>1, EmptySeq DEF FilesTyped
  <1>4. JobsTyped
    BY DEF Init, JobsTyped
  <1>5. Locations = {} /\ Slots(0) = {}
    BY <1>1 DEF Locations, Slots
  <1> QED
    BY <1>1, <1>2, <1>3, <1>4, <1>5
       DEF LayoutInv, FilesFilled, InfoPlaced, SlotsKnown, ExtraUnknown

\* Steps that leave the metadata and its map alone.
LEMMA QuietLayout ==
    ASSUME LayoutInv, UNCHANGED <<metadata, info, total>>, JobsTyped',
           data' \in [Sector -> 0..MaxTag], jobs' \in 0..MaxJobs, crashes' \in 0..MaxCrashes
    PROVE  LayoutInv'
  <1>1. TypeOK'
    BY DEF LayoutInv, TypeOK
  <1>2. FilesTyped'
    BY DEF LayoutInv, FilesTyped
  <1>3. Locations' = Locations
    BY DEF Locations
  <1>4. FilesFilled'
    BY <1>3 DEF LayoutInv, FilesFilled
  <1>5. InfoPlaced' /\ SlotsKnown'
    BY DEF LayoutInv, InfoPlaced, SlotsKnown, EntryAt, Slots, NewLocation
  <1>6. ExtraUnknown'
    BY <1>3 DEF LayoutInv, ExtraUnknown, EntryAt, NewLocation
  <1> QED
    BY <1>1, <1>2, <1>4, <1>5, <1>6 DEF LayoutInv

\* What a change of an entry leaves on disc.
LEMMA WrittenEntry ==
    ASSUME LayoutInv, NEW s \in Sector, NEW loc, loc = EntryLocation(s),
           NEW e \in Entry,
           metadata' = WithFile(loc.file, PutEntry(FileContent(loc.file), loc.offset, e))
    PROVE  /\ FilesTyped' /\ EntryAt(loc)' = e
           /\ \A l \in Locations : l # loc => EntryAt(l)' = EntryAt(l)
           /\ IF s \in DOMAIN info
              THEN loc \in Slots(total) /\ loc = info[s] /\ Locations' = Locations
              ELSE loc = NewLocation(total) /\ Locations' = Slots(total + 1)
           /\ \A f \in DOMAIN metadata' :
                 /\ Len(metadata'[f]) \in 1..PerFile
                 /\ \A x \in {metadata'[f][o] : o \in DOMAIN metadata'[f]} : x \in Entry
  <1>1. total \in Nat /\ FilesTyped /\ Slots(total) \subseteq Locations
    BY ScanFinds DEF LayoutInv, TypeOK
  <1>2. /\ FilesTyped' /\ EntryAt(loc)' = e
        /\ \A l \in Locations : l # loc => EntryAt(l)' = EntryAt(l)
        /\ IF s \in DOMAIN info
           THEN loc \in Slots(total) /\ loc = info[s] /\ Locations' = Locations
           ELSE loc = NewLocation(total) /\ Locations' = Slots(total + 1)
    <2>1. CASE s \in DOMAIN info
      <3>1. loc = info[s] /\ loc \in Slots(total) /\ loc \in Locations
        BY <1>1, <2>1 DEF EntryLocation, LayoutInv, InfoPlaced
      <3> QED
        BY <1>1, <2>1, <3>1, ReplacedEntry
    <2>2. CASE s \notin DOMAIN info /\ Locations = Slots(total)
      <3>1. loc = NewLocation(total)
        BY <2>2 DEF EntryLocation
      <3> QED
        BY <1>1, <2>2, <3>1, AddedEntry
    <2>3. CASE s \notin DOMAIN info /\ Locations = Slots(total + 1)
      <3>1. loc = NewLocation(total) /\ loc \in Locations
        BY <1>1, <2>3, OneMoreSlot DEF EntryLocation
      <3> QED
        BY <1>1, <2>3, <3>1, ReplacedEntry
    <2> QED
      BY <2>1, <2>2, <2>3 DEF LayoutInv, FilesFilled
  <1>3. PICK n \in Nat : Locations' = Slots(n)
    BY <1>1, <1>2 DEF LayoutInv, FilesFilled
  <1>4. \A f \in DOMAIN metadata' : \A o \in DOMAIN metadata'[f] : Location(f, o) \in Slots(n)
    BY <1>3 DEF Locations
  <1>5. metadata' \in Seq(Seq(Entry)) /\ \A f \in DOMAIN metadata' : metadata'[f] # <<>>
    BY <1>2 DEF FilesTyped
  <1> QED
    BY <1>2, <1>4, <1>5, FileSizes

\* write_metadata keeps the layout, whether it succeeds or fails before or after the file
\* was replaced.
LEMMA WriteMetadataLayout ==
    ASSUME LayoutInv, NEW w \in Worker, WriteMetadata(w)
    PROVE  LayoutInv'
  <1>1. PICK s \in Sector, tag \in 1..MaxTag : s = job[w].sector /\ tag = job[w].tag
    BY DEF WriteMetadata, LayoutInv, JobsTyped, Idle, ReadJob, WriteJob
  <1>2. PICK loc : loc = EntryLocation(s)
    OBVIOUS
  <1> DEFINE e == [sector |-> s, tag |-> tag]
             written == WithFile(loc.file, PutEntry(FileContent(loc.file), loc.offset, e))
  <1>3. /\ \/ /\ metadata' = written
              /\ info' = [u \in DOMAIN info \cup {s} |-> IF u = s THEN loc ELSE info[u]]
              /\ total' = IF s \in DOMAIN info THEN total ELSE total + 1
           \/ metadata' \in {metadata, written} /\ UNCHANGED <<info, total>>
        /\ job' = [job EXCEPT ![w] = Idle]
        /\ UNCHANGED <<data, replies, jobs, crashes>>
    BY <1>1, <1>2 DEF WriteMetadata, Become
  <1>4. JobsTyped'
    BY <1>3 DEF LayoutInv, JobsTyped
  <1>5. e \in Entry /\ e.sector = s
    BY DEF Entry
  <1> HIDE DEF e
  <1>6. total \in Nat /\ DOMAIN info \subseteq Sector /\ Slots(total) \subseteq Locations
    BY ScanFinds DEF LayoutInv, TypeOK
  <1>7. CASE metadata' = metadata /\ UNCHANGED <<info, total>>
    BY <1>3, <1>4, <1>7, QuietLayout DEF LayoutInv, TypeOK
  <1>8. CASE metadata' = written
    <2>1. /\ FilesTyped' /\ EntryAt(loc)' = e
          /\ \A l \in Locations : l # loc => EntryAt(l)' = EntryAt(l)
          /\ IF s \in DOMAIN info
             THEN loc \in Slots(total) /\ loc = info[s] /\ Locations' = Locations
             ELSE loc = NewLocation(total) /\ Locations' = Slots(total + 1)
          /\ \A f \in DOMAIN metadata' :
                 /\ Len(metadata'[f]) \in 1..PerFile
                 /\ \A x \in {metadata'[f][o] : o \in DOMAIN metadata'[f]} : x \in Entry
      BY <1>2, <1>5, <1>8, WrittenEntry
    <2>2. /\ DOMAIN info' \subseteq Sector /\ total' \in Nat
      BY <1>3, <1>6
    <2>3. TypeOK'
      BY <1>3, <2>1, <2>2 DEF LayoutInv, TypeOK, Entry
    <2>4. NewLocation(total) \notin Slots(total)
            /\ Slots(total + 1) = Slots(total) \cup {NewLocation(total)}
      BY <1>6, OneMoreSlot
    <2>5. \A u \in DOMAIN info : info[u] \in Slots(total) /\ EntryAt(info[u]).sector = u
      BY DEF LayoutInv, InfoPlaced
    <2>6. \A l \in Slots(total) :
             EntryAt(l).sector \in DOMAIN info /\ info[EntryAt(l).sector] = l
      BY DEF LayoutInv, SlotsKnown
    <2>7. CASE UNCHANGED <<info, total>>
      <3>1. FilesFilled'
        BY <2>1, <2>7 DEF LayoutInv, FilesFilled
      <3>2. ASSUME NEW u \in DOMAIN info'
            PROVE  \E l \in Slots(total) : info'[u] = l /\ EntryAt(l)'.sector = u
        <4>1. PICK l \in Slots(total) : l = info[u] /\ EntryAt(l).sector = u
          BY <2>5, <2>7
        <4>2. CASE l = loc
          BY <1>5, <2>1, <2>4, <2>5, <2>7, <4>1, <4>2
        <4>3. CASE l # loc
          BY <1>6, <2>1, <2>7, <4>1, <4>3
        <4> QED
          BY <4>2, <4>3
      <3>3. InfoPlaced'
        BY <2>7, <3>2 DEF InfoPlaced, Slots, NewLocation
      <3>4. ASSUME NEW l \in Slots(total)
            PROVE  EntryAt(l)'.sector \in DOMAIN info' /\ info'[EntryAt(l)'.sector] = l
        <4>1. CASE l = loc
          BY <1>5, <2>1, <2>4, <2>7, <4>1
        <4>2. CASE l # loc
          BY <1>6, <2>1, <2>6, <2>7, <4>2
        <4> QED
          BY <4>1, <4>2
      <3>5. SlotsKnown'
        BY <2>7, <3>4 DEF SlotsKnown, Slots, NewLocation
      <3>6. PICK x : x = NewLocation(total)
        OBVIOUS
      <3>7. x \in Locations' => EntryAt(x)'.sector \notin DOMAIN info'
        <4>1. CASE s \in DOMAIN info
          <5>1. x # loc /\ Locations' = Locations
            BY <2>1, <2>4, <3>6, <4>1
          <5>2. x \in Locations => EntryAt(x).sector \notin DOMAIN info
            BY <3>6 DEF LayoutInv, ExtraUnknown
          <5> QED
            BY <2>1, <2>7, <5>1, <5>2
        <4>2. CASE s \notin DOMAIN info
          BY <1>5, <2>1, <2>7, <3>6, <4>2
        <4> QED
          BY <4>1, <4>2
      <3>8. x = NewLocation(total)'
        BY <2>7, <3>6 DEF NewLocation
      <3>9. ExtraUnknown'
        BY <3>7, <3>8 DEF ExtraUnknown, EntryAt
      <3> QED
        BY <1>4, <2>1, <2>3, <3>1, <3>3, <3>5, <3>9 DEF LayoutInv
    <2>8. CASE s \in DOMAIN info
                 /\ info' = [u \in DOMAIN info \cup {s} |-> IF u = s THEN loc ELSE info[u]]
                 /\ total' = total
      <3>1. DOMAIN info' = DOMAIN info /\ \A u \in DOMAIN info : info'[u] = info[u]
        BY <2>1, <2>8
      <3>2. FilesFilled'
        BY <2>1, <2>8 DEF LayoutInv, FilesFilled
      <3>3. ASSUME NEW u \in DOMAIN info'
            PROVE  \E l \in Slots(total) : info'[u] = l /\ EntryAt(l)'.sector = u
        <4>1. PICK l \in Slots(total) : l = info[u] /\ EntryAt(l).sector = u
          BY <2>5, <3>1
        <4>2. CASE l = loc
          BY <1>5, <2>1, <2>5, <2>8, <3>1, <4>1, <4>2
        <4>3. CASE l # loc
          BY <1>6, <2>1, <3>1, <4>1, <4>3
        <4> QED
          BY <4>2, <4>3
      <3>4. InfoPlaced'
        BY <2>8, <3>3 DEF InfoPlaced, Slots, NewLocation
      <3>5. ASSUME NEW l \in Slots(total)
            PROVE  EntryAt(l)'.sector \in DOMAIN info' /\ info'[EntryAt(l)'.sector] = l
        <4>1. CASE l = loc
          BY <1>5, <2>1, <2>8, <3>1, <4>1
        <4>2. CASE l # loc
          BY <1>6, <2>1, <2>6, <3>1, <4>2
        <4> QED
          BY <4>1, <4>2
      <3>6. SlotsKnown'
        BY <2>8, <3>5 DEF SlotsKnown, Slots, NewLocation
      <3>7. PICK x : x = NewLocation(total)
        OBVIOUS
      <3>8. x \in Locations' => EntryAt(x)'.sector \notin DOMAIN info'
        <4>1. x # loc /\ Locations' = Locations
          BY <2>1, <2>4, <2>8, <3>7
        <4>2. x \in Locations => EntryAt(x).sector \notin DOMAIN info
          BY <3>7 DEF LayoutInv, ExtraUnknown
        <4> QED
          BY <2>1, <3>1, <4>1, <4>2
      <3>9. x = NewLocation(total)'
        BY <2>8, <3>7 DEF NewLocation
      <3>10. ExtraUnknown'
        BY <3>8, <3>9 DEF ExtraUnknown, EntryAt
      <3> QED
        BY <1>4, <2>1, <2>3, <3>2, <3>4, <3>6, <3>10 DEF LayoutInv
    <2>9. CASE s \notin DOMAIN info
                 /\ info' = [u \in DOMAIN info \cup {s} |-> IF u = s THEN loc ELSE info[u]]
                 /\ total' = total + 1
      <3>1. /\ DOMAIN info' = DOMAIN info \cup {s} /\ info'[s] = loc
            /\ \A u \in DOMAIN info : info'[u] = info[u]
        BY <2>9
      <3>2. Locations' = Slots(total + 1) /\ loc = NewLocation(total) /\ loc \notin Slots(total)
        BY <2>1, <2>4, <2>9
      <3>3. FilesFilled'
        BY <2>9, <3>2 DEF FilesFilled, Slots, NewLocation
      <3>4. ASSUME NEW u \in DOMAIN info'
            PROVE  \E l \in Slots(total + 1) : info'[u] = l /\ EntryAt(l)'.sector = u
        <4>1. CASE u = s
          BY <1>5, <2>1, <2>4, <3>1, <3>2, <4>1
        <4>2. CASE u # s
          <5>1. PICK l \in Slots(total) : l = info[u] /\ EntryAt(l).sector = u
            BY <2>5, <3>1, <4>2
          <5>2. l # loc /\ EntryAt(l)' = EntryAt(l) /\ l \in Slots(total + 1)
            BY <1>6, <2>1, <2>4, <3>2, <5>1
          <5> QED
            BY <3>1, <4>2, <5>1, <5>2
        <4> QED
          BY <4>1, <4>2
      <3>5. InfoPlaced'
        BY <2>9, <3>4 DEF InfoPlaced, Slots, NewLocation
      <3>6. ASSUME NEW l \in Slots(total + 1)
            PROVE  EntryAt(l)'.sector \in DOMAIN info' /\ info'[EntryAt(l)'.sector] = l
        <4>1. CASE l = loc
          BY <1>5, <2>1, <3>1, <4>1
        <4>2. CASE l # loc
          <5>1. l \in Slots(total) /\ EntryAt(l)' = EntryAt(l)
            BY <1>6, <2>1, <2>4, <3>2, <4>2
          <5> QED
            BY <2>6, <3>1, <5>1
        <4> QED
          BY <4>1, <4>2
      <3>7. SlotsKnown'
        BY <2>9, <3>6 DEF SlotsKnown, Slots, NewLocation
      <3>8. NewLocation(total') \notin Locations'
        BY <1>6, <2>2, <2>9, <3>2, OneMoreSlot
      <3>9. ExtraUnknown'
        BY <3>8 DEF ExtraUnknown, NewLocation
      <3> QED
        BY <1>4, <2>1, <2>3, <3>3, <3>5, <3>7, <3>9 DEF LayoutInv
    <2> QED
      BY <1>3, <1>8, <2>7, <2>8, <2>9
  <1> QED
    BY <1>3, <1>7, <1>8

\* A restart rebuilds the map from the files, the entry of a failed write included.
LEMMA RestartLayout ==
    ASSUME LayoutInv, CrashAndRestart
    PROVE  LayoutInv'
  <1>1. PICK n \in Nat : Locations = Slots(n)
    BY DEF LayoutInv, TypeOK, FilesFilled
  <1>2. /\ info' = ScannedInfo /\ total' = n
        /\ job' = [w \in Worker |-> Idle]
        /\ UNCHANGED <<data, metadata, replies, jobs>> /\ crashes' \in 0..MaxCrashes
    <2>1. Cardinality(Locations) = n
      BY <1>1, CountSlots
    <2> QED
      BY <2>1, SectorsAssumption DEF CrashAndRestart, LayoutInv, TypeOK
  <1>3. Locations' = Locations /\ \A l : EntryAt(l)' = EntryAt(l)
    BY <1>2 DEF Locations, EntryAt
  <1>4. JobsTyped' /\ FilesTyped'
    BY <1>2 DEF LayoutInv, JobsTyped, FilesTyped
  <1>5. DOMAIN info' \subseteq Sector
    <2>1. \A s \in DOMAIN ScannedInfo : s \in Sector
      BY ScanFinds DEF Entry
    <2> QED
      BY <1>2, <2>1
  <1>6. TypeOK'
    BY <1>2, <1>5 DEF LayoutInv, TypeOK
  <1>7. FilesFilled'
    BY <1>1, <1>2, <1>3 DEF FilesFilled, Slots, NewLocation
  <1>8. \A s \in DOMAIN info' : \E l \in Slots(n) : info'[s] = l /\ EntryAt(l)'.sector = s
    BY <1>1, <1>2, <1>3, ScanFinds
  <1>9. InfoPlaced'
    BY <1>2, <1>8 DEF InfoPlaced, Slots, NewLocation
  <1>10. \A l \in Slots(n) :
            EntryAt(l)'.sector \in DOMAIN info' /\ info'[EntryAt(l)'.sector] = l
    BY <1>1, <1>2, <1>3, ScanFinds
  <1>11. SlotsKnown'
    BY <1>2, <1>10 DEF SlotsKnown, Slots, NewLocation
  <1>12. NewLocation(total') \notin Locations'
    BY <1>1, <1>2, <1>3, OneMoreSlot
  <1>13. ExtraUnknown'
    BY <1>12 DEF ExtraUnknown, NewLocation
  <1> QED
    BY <1>4, <1>6, <1>7, <1>9, <1>11, <1>13 DEF LayoutInv

\* The tag that a sector reads as is a number.
LEMMA TagIsNumber ==
    ASSUME LayoutInv, NEW u \in Sector
    PROVE  ReadMetadata(u) \in Nat
  <1>1. CASE u \in DOMAIN info
    <2>1. EntryAt(info[u]) \in Entry
      BY <1>1, ScanFinds DEF LayoutInv, InfoPlaced
    <2> QED
      BY <1>1, <2>1 DEF ReadMetadata, Entry
  <1>2. CASE u \notin DOMAIN info
    BY <1>2 DEF ReadMetadata
  <1> QED
    BY <1>1, <1>2

LEMMA LayoutStep == LayoutInv /\ [Next]_vars => LayoutInv'
  <1> SUFFICES ASSUME LayoutInv, [Next]_vars PROVE LayoutInv'
    OBVIOUS
  <1>0. /\ JobsTyped /\ data \in [Sector -> 0..MaxTag]
        /\ jobs \in 0..MaxJobs /\ crashes \in 0..MaxCrashes
        /\ MaxJobs \in Nat /\ MaxTag \in Nat
    BY SectorsAssumption DEF LayoutInv, TypeOK
  <1>1. ASSUME NEW w \in Worker, NEW s \in Sector, BeginRead(w, s) PROVE LayoutInv'
    <2>1. ReadData(s) \in 0..MaxTag /\ jobs' \in 0..MaxJobs
      BY <1>0, <1>1 DEF BeginRead, MayBegin, ReadData
    <2>2. JobsTyped'
      BY <1>0, <1>1, <2>1 DEF BeginRead, Become, JobsTyped, ReadJob
    <2> QED
      BY <1>0, <1>1, <2>1, <2>2, QuietLayout DEF BeginRead
  <1>2. ASSUME NEW w \in Worker, EndRead(w) PROVE LayoutInv'
    <2>1. JobsTyped'
      BY <1>0, <1>2 DEF EndRead, Become, JobsTyped
    <2> QED
      BY <1>0, <1>2, <2>1, QuietLayout DEF EndRead
  <1>3. ASSUME NEW w \in Worker, NEW s \in Sector, NEW tag \in 1..MaxTag, BeginWrite(w, s, tag)
        PROVE  LayoutInv'
    <2>1. jobs' \in 0..MaxJobs
      BY <1>0, <1>3 DEF BeginWrite, MayBegin
    <2>2. JobsTyped'
      <3>1. [step |-> "write_data", sector |-> s, tag |-> tag, seen |-> ReadMetadata(s)]
              \in WriteJob
        BY TagIsNumber DEF WriteJob
      <3> QED
        BY <1>0, <1>3, <3>1 DEF BeginWrite, Become, JobsTyped
    <2> QED
      BY <1>0, <1>3, <2>1, <2>2, QuietLayout DEF BeginWrite
  <1>4. ASSUME NEW w \in Worker, WriteData(w) PROVE LayoutInv'
    <2>1. job[w] \in WriteJob
      BY <1>0, <1>4 DEF WriteData, JobsTyped, Idle, ReadJob
    <2>2. job[w].sector \in Sector /\ job[w].tag \in 0..MaxTag
            /\ [job[w] EXCEPT !.step = "write_metadata"] \in WriteJob
      BY <1>0, <2>1 DEF WriteJob
    <2>3. data' \in [Sector -> 0..MaxTag]
      BY <1>0, <1>4, <2>2 DEF WriteData
    <2>4. JobsTyped'
      BY <1>0, <1>4, <2>2 DEF WriteData, Become, JobsTyped
    <2> QED
      BY <1>0, <1>4, <2>3, <2>4, QuietLayout DEF WriteData
  <1>5. ASSUME NEW w \in Worker, WriteMetadata(w) PROVE LayoutInv'
    BY <1>5, WriteMetadataLayout
  <1>6. CASE CrashAndRestart
    BY <1>6, RestartLayout
  <1>7. CASE UNCHANGED vars
    <2>1. JobsTyped'
      BY <1>0, <1>7 DEF vars, JobsTyped
    <2> QED
      BY <1>0, <1>7, <2>1, QuietLayout DEF vars
  <1> QED
    BY <1>1, <1>2, <1>3, <1>4, <1>5, <1>6, <1>7 DEF Next

LEMMA LayoutKept == Spec => []LayoutInv
  BY LayoutInit, LayoutStep, PTL DEF Spec

\* The files stay well formed: no metadata file outgrows METADATAS_FILE_SIZE, and every
\* entry is a whole one.
THEOREM SectorTypesHold == Spec => []TypeOK
  <1>1. LayoutInv => TypeOK
    BY DEF LayoutInv
  <1> QED
    BY <1>1, LayoutKept, PTL

\* Whenever the process stops, a scan of its files finds every entry where the map had it,
\* whatever was being written and whatever write had failed, with any number of workers on
\* one sector.
THEOREM MetadataIsFound == Spec => []RestartFindsMetadata
  BY LayoutKept, ScanAgrees, PTL

-----------------------------------------------------------------------------
(* Tags of sectors *)

\* write_metadata changes the tag of its own sector only, and to the tag it was given.
LEMMA WrittenTag ==
    ASSUME LayoutInv, NEW w \in Worker, WriteMetadata(w)
    PROVE  \A u \in Sector :
             \/ ReadMetadata(u)' = ReadMetadata(u)
             \/ u = job[w].sector /\ ReadMetadata(u)' = job[w].tag
  <1>1. PICK s \in Sector, tag \in 1..MaxTag : s = job[w].sector /\ tag = job[w].tag
    BY DEF WriteMetadata, LayoutInv, JobsTyped, Idle, ReadJob, WriteJob
  <1>2. PICK loc : loc = EntryLocation(s)
    OBVIOUS
  <1> DEFINE e == [sector |-> s, tag |-> tag]
             written == WithFile(loc.file, PutEntry(FileContent(loc.file), loc.offset, e))
  <1>3. \/ /\ metadata' = written
           /\ info' = [u \in DOMAIN info \cup {s} |-> IF u = s THEN loc ELSE info[u]]
        \/ metadata' \in {metadata, written} /\ UNCHANGED info
    BY <1>1, <1>2 DEF WriteMetadata
  <1>4. e \in Entry /\ e.tag = tag
    BY DEF Entry
  <1> HIDE DEF e
  <1>5. total \in Nat /\ Slots(total) \subseteq Locations
    BY ScanFinds DEF LayoutInv, TypeOK
  <1> SUFFICES ASSUME NEW u \in Sector
               PROVE  \/ ReadMetadata(u)' = ReadMetadata(u)
                      \/ u = s /\ ReadMetadata(u)' = tag
    BY <1>1
  <1>6. CASE UNCHANGED <<metadata, info>>
    BY <1>6 DEF ReadMetadata, EntryAt
  <1>7. CASE metadata' = written
    <2>1. /\ EntryAt(loc)' = e
          /\ \A l \in Locations : l # loc => EntryAt(l)' = EntryAt(l)
          /\ IF s \in DOMAIN info THEN loc = info[s] ELSE loc = NewLocation(total)
      BY <1>2, <1>4, <1>7, WrittenEntry
    <2>2. CASE u # s /\ u \in DOMAIN info
      <3>1. PICK l \in Slots(total) : l = info[u] /\ EntryAt(l).sector = u
        BY <2>2 DEF LayoutInv, InfoPlaced
      <3>2. l # loc
        <4>1. CASE s \in DOMAIN info
          BY <2>1, <2>2, <3>1, <4>1 DEF LayoutInv, InfoPlaced
        <4>2. CASE s \notin DOMAIN info
          BY <1>5, <2>1, <4>2, OneMoreSlot
        <4> QED
          BY <4>1, <4>2
      <3>3. EntryAt(l)' = EntryAt(l)
        BY <1>5, <2>1, <3>2
      <3>4. u \in DOMAIN info' /\ info'[u] = l
        BY <1>3, <2>2, <3>1
      <3>5. ReadMetadata(u)' = EntryAt(l)'.tag
        BY <3>4 DEF ReadMetadata, EntryAt
      <3> QED
        BY <2>2, <3>1, <3>3, <3>5 DEF ReadMetadata
    <2>3. CASE u # s /\ u \notin DOMAIN info
      <3>1. u \notin DOMAIN info'
        BY <1>3, <2>3
      <3> QED
        BY <2>3, <3>1 DEF ReadMetadata
    <2>4. CASE u = s
      <3>1. CASE s \in DOMAIN info'
        <4>1. info'[s] = loc
          BY <1>3, <2>1, <3>1
        <4>2. ReadMetadata(s)' = EntryAt(loc)'.tag
          BY <3>1, <4>1 DEF ReadMetadata, EntryAt
        <4> QED
          BY <1>4, <2>1, <2>4, <4>2
      <3>2. CASE s \notin DOMAIN info'
        <4>1. s \notin DOMAIN info
          BY <1>3, <3>2
        <4> QED
          BY <2>4, <3>2, <4>1 DEF ReadMetadata
      <3> QED
        BY <3>1, <3>2
    <2> QED
      BY <2>2, <2>3, <2>4
  <1> QED
    BY <1>3, <1>6, <1>7

\* A restart keeps every tag, and may find that of a write that had failed.
LEMMA RestartTag ==
    ASSUME LayoutInv, CrashAndRestart, NEW u \in Sector
    PROVE  ReadMetadata(u) <= ReadMetadata(u)' /\ ReadMetadata(u)' \in Nat
  <1>1. info' = ScannedInfo /\ UNCHANGED metadata
    BY DEF CrashAndRestart
  <1>2. CASE u \in DOMAIN info
    <2>1. u \in DOMAIN ScannedInfo /\ ScannedInfo[u] = info[u]
      BY <1>2, ScanAgrees DEF RestartFindsMetadata
    <2>2. ReadMetadata(u)' = ReadMetadata(u)
      BY <1>1, <1>2, <2>1 DEF ReadMetadata, EntryAt
    <2>3. EntryAt(ScannedInfo[u]) \in Entry
      BY <2>1, ScanFinds
    <2>4. ReadMetadata(u) \in Nat
      BY <1>2, <2>1, <2>3 DEF ReadMetadata, Entry
    <2> QED
      BY <2>2, <2>4
  <1>3. CASE u \notin DOMAIN info
    <2>1. ReadMetadata(u)' \in Nat
      <3>1. CASE u \in DOMAIN ScannedInfo
        <4>1. EntryAt(ScannedInfo[u]) \in Entry
          BY <3>1, ScanFinds
        <4>2. ReadMetadata(u)' = EntryAt(ScannedInfo[u]).tag
          BY <1>1, <3>1 DEF ReadMetadata, EntryAt
        <4> QED
          BY <4>1, <4>2 DEF Entry
      <3>2. CASE u \notin DOMAIN ScannedInfo
        BY <1>1, <3>2 DEF ReadMetadata
      <3> QED
        BY <3>1, <3>2
    <2>2. ReadMetadata(u) = 0
      BY <1>3 DEF ReadMetadata
    <2> QED
      BY <2>1, <2>2
  <1> QED
    BY <1>2, <1>3

\* A worker is at the metadata of s, with a tag that was newer when it was compared.
Race(s) ==
    \E w \in Worker : /\ job[w].step = "write_metadata" /\ job[w].sector = s
                      /\ job[w].seen < job[w].tag
                      /\ ReadMetadata(s)' = job[w].tag

LEMMA TagInit == Init => TagInv
  <1> SUFFICES ASSUME Init PROVE TagInv
    OBVIOUS
  <1>1. \A w \in Worker : job[w].step = "idle"
    BY DEF Init, Idle
  <1> QED
    BY <1>1, LayoutInit DEF TagInv, SeenOlder

\* What a worker has seen stays with its job until the job is done.
LEMMA SeenStep == TagInv /\ [Next]_vars => TagInv'
  <1> SUFFICES ASSUME TagInv, [Next]_vars PROVE SeenOlder'
    BY LayoutStep DEF TagInv
  <1>1. job \in [Worker -> {Idle} \cup ReadJob \cup WriteJob]
    BY DEF TagInv, LayoutInv, JobsTyped
  <1>2. ASSUME NEW w \in Worker, NEW j, job' = [job EXCEPT ![w] = j],
               j.step \in {"write_data", "write_metadata"} => j.seen < j.tag
        PROVE  SeenOlder'
    <2>1. job'[w] = j /\ \A v \in Worker \ {w} : job'[v] = job[v]
      BY <1>1, <1>2
    <2> QED
      BY <1>2, <2>1 DEF TagInv, SeenOlder
  <1>3. Idle.step = "idle"
    BY DEF Idle
  <1>4. ASSUME NEW w \in Worker, NEW s \in Sector, BeginRead(w, s) PROVE SeenOlder'
    <2>1. PICK j : j = [step |-> "read_metadata", sector |-> s, data |-> ReadData(s)]
      OBVIOUS
    <2>2. job' = [job EXCEPT ![w] = j] /\ j.step = "read_metadata"
      BY <1>4, <2>1 DEF BeginRead, Become
    <2> QED
      BY <1>2, <2>2
  <1>5. ASSUME NEW w \in Worker, NEW s \in Sector, NEW tag \in 1..MaxTag, BeginWrite(w, s, tag)
        PROVE  SeenOlder'
    <2>1. PICK k : k = [step |-> "write_data", sector |-> s, tag |-> tag,
                        seen |-> ReadMetadata(s)]
      OBVIOUS
    <2>2. PICK j : j = IF IsNewer(s, tag) THEN k ELSE Idle
      OBVIOUS
    <2>3. job' = [job EXCEPT ![w] = j]
      BY <1>5, <2>1, <2>2 DEF BeginWrite, Become
    <2>4. IsNewer(s, tag) => k.seen < k.tag
      <3>1. ReadMetadata(s) \in Nat /\ k.seen = ReadMetadata(s) /\ k.tag = tag
        BY <2>1, TagIsNumber DEF TagInv
      <3> QED
        BY <3>1 DEF IsNewer
    <2> QED
      BY <1>2, <1>3, <2>2, <2>3, <2>4
  <1>6. ASSUME NEW w \in Worker, EndRead(w) PROVE SeenOlder'
    <2>1. job' = [job EXCEPT ![w] = Idle]
      BY <1>6 DEF EndRead, Become
    <2> QED
      BY <1>2, <1>3, <2>1
  <1>7. ASSUME NEW w \in Worker, WriteData(w) PROVE SeenOlder'
    <2>1. job[w] \in WriteJob /\ job[w].step = "write_data"
      BY <1>1, <1>7 DEF WriteData, Idle, ReadJob
    <2>2. PICK j : j = [job[w] EXCEPT !.step = "write_metadata"]
      OBVIOUS
    <2>3. j.seen = job[w].seen /\ j.tag = job[w].tag
      BY <2>1, <2>2 DEF WriteJob
    <2>4. j.seen < j.tag
      BY <2>1, <2>3 DEF TagInv, SeenOlder
    <2>5. job' = [job EXCEPT ![w] = j] \/ job' = [job EXCEPT ![w] = Idle]
      BY <1>7, <2>2 DEF WriteData, Become
    <2> QED
      BY <1>2, <1>3, <2>4, <2>5
  <1>8. ASSUME NEW w \in Worker, WriteMetadata(w) PROVE SeenOlder'
    <2>1. job' = [job EXCEPT ![w] = Idle]
      BY <1>8 DEF WriteMetadata, Become
    <2> QED
      BY <1>2, <1>3, <2>1
  <1>9. CASE CrashAndRestart
    <2>1. \A w \in Worker : job'[w].step = "idle"
      BY <1>9, <1>3 DEF CrashAndRestart
    <2> QED
      BY <2>1 DEF SeenOlder
  <1>10. CASE UNCHANGED vars
    BY <1>10 DEF TagInv, SeenOlder, vars
  <1> QED
    BY <1>4, <1>5, <1>6, <1>7, <1>8, <1>9, <1>10 DEF Next

\* A step that lowers the tag of a sector is the write of a worker that saw an older one.
LEMMA LoweredByRace ==
    ASSUME TagInv, Next, NEW s \in Sector, ReadMetadata(s)' < ReadMetadata(s)
    PROVE  Race(s)
  <1>1. LayoutInv /\ ReadMetadata(s) \in Nat
    BY TagIsNumber DEF TagInv
  <1>2. ~UNCHANGED <<metadata, info>>
    <2>1. UNCHANGED <<metadata, info>> => ReadMetadata(s)' = ReadMetadata(s)
      BY DEF ReadMetadata, EntryAt
    <2> QED
      BY <1>1, <2>1
  <1>3. ~CrashAndRestart
    <2> SUFFICES ASSUME CrashAndRestart PROVE FALSE
      OBVIOUS
    <2>1. ReadMetadata(s) <= ReadMetadata(s)' /\ ReadMetadata(s)' \in Nat
      BY <1>1, RestartTag
    <2> QED
      BY <1>1, <2>1
  <1>4. PICK w \in Worker : WriteMetadata(w)
    BY <1>2, <1>3 DEF Next, BeginRead, EndRead, BeginWrite, WriteData
  <1>5. s = job[w].sector /\ ReadMetadata(s)' = job[w].tag
    <2>1. ReadMetadata(s)' # ReadMetadata(s)
      BY <1>1
    <2> QED
      BY <1>1, <1>4, <2>1, WrittenTag
  <1>6. job[w].step = "write_metadata" /\ job[w].seen < job[w].tag
    BY <1>4 DEF WriteMetadata, TagInv, SeenOlder
  <1> QED
    BY <1>5, <1>6 DEF Race

\* For any number of workers on any sectors, with failed writes, crashes and restarts: the
\* only way a sector loses a newer tag is a WriteProc of that sector that was compared before
\* the newer one was written and is written after it.
THEOREM TagsLoweredByRaceOnly == Spec => TagLoweredByRaceOnly
  <1>1. TagInv /\ [Next]_vars =>
          [\A s \in Sector : ReadMetadata(s)' < ReadMetadata(s) => Race(s)]_vars
    BY LoweredByRace
  <1>2. Spec => []TagInv
    BY TagInit, SeenStep, PTL DEF Spec
  <1> QED
    BY <1>1, <1>2, PTL DEF Spec, TagLoweredByRaceOnly, Race
=============================================================================
