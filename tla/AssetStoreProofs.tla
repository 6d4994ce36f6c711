-------------------------- MODULE AssetStoreProofs --------------------------
(***************************************************************************)
(* Proofs about AssetStore for any number of uploads, imports and readers: *)
(* what an upload may rely on while it runs and once it was answered, what *)
(* explains a partial file or a file without a row, and when the path of   *)
(* an image is the one that is served.                                     *)
(***************************************************************************)
EXTENDS AssetStore, TLAPS

\* Nobody else knows of an asset before its row is there.
Private(u) == row[u] = "none" /\ \A i \in Restores : restore[i].asset # u

UploadOf(u) ==
    /\ upload[u] \in {"new", "refused", "write", "fill", "insert"} => Private(u)
    /\ upload[u] \in {"new", "refused", "write"} => disk[u] = "none" /\ u \notin bucket
    /\ upload[u] = "write" => u \notin Copies
    /\ upload[u] = "fill" => storage = "disk" \/ u \in Copies
    /\ upload[u] = "insert" =>
         /\ storage = "disk" \/ u \in Copies =>
              disk[u] = "whole" \/ u \in Copies \cap broken
         /\ storage = "minio" => u \in bucket \cup Copies
    /\ upload[u] = "ok" =>
         /\ row[u] # "none" /\ (row[u] = "minio" => u \in bucket)
         /\ storage = "disk" => disk[u] = "whole" \/ Filling(u) \/ u \in broken

AssetOf(a) ==
    /\ row[a] = "minio" => storage = "minio"
    /\ disk[a] = "partial" =>
         Filling(a) \/ a \in broken \/ (a \in Uploads /\ upload[a] = "fill")

ReaderOf(r) == reader[r].path # "none" =>
                 reader[r].asset \in Assets /\ row[reader[r].asset] # "none"

IInv == /\ TypeOK /\ OrphanHasCause
        /\ \A u \in Uploads : UploadOf(u)
        /\ \A a \in Assets : AssetOf(a)
        /\ \A r \in Readers : ReaderOf(r)

LEMMA InitIInv ==
  ASSUME AssetAssumption, Init
  PROVE  IInv
<1>1. TypeOK
  <2>1. /\ NoRestore \in [asset : Assets \cup {NoAsset}, at : {"idle", "fill", "save"}]
        /\ NoReader \in [asset : Assets \cup {NoAsset}, path : {"none"} \cup Places,
                         got : {"nothing", "partial", "whole"}]
        /\ NoLink \in [asset : Assets \cup {NoAsset}, prefix : Nat]
        /\ NoRestore.at = "idle" /\ 0 \in 0 .. MaxStarts
    BY DEF AssetAssumption, NoRestore, NoReader, NoLink
  <2> QED
    BY <2>1 DEF Init, TypeOK
<1>2. OrphanHasCause
  BY DEF Init, OrphanHasCause
<1>3. \A i \in Restores : restore[i].asset = NoAsset
  BY DEF Init, NoRestore
<1>4. ASSUME NEW u \in Uploads PROVE UploadOf(u)
  <2>1. u # NoAsset /\ upload[u] = "new" /\ row[u] = "none" /\ disk[u] = "none" /\ bucket = {}
    BY DEF AssetAssumption, Assets, Init
  <2> QED
    BY <1>3, <2>1 DEF UploadOf, Private
<1>5. \A a \in Assets : AssetOf(a)
  BY DEF Init, AssetOf
<1>6. \A r \in Readers : ReaderOf(r)
  BY DEF Init, ReaderOf, NoReader
<1> QED
  BY <1>1, <1>2, <1>4, <1>5, <1>6 DEF IInv

-----------------------------------------------------------------------------
(* What steps have in common.                                              *)

\* A step that touches neither files nor the operations on them.
Aside == UNCHANGED <<storage, row, disk, bucket, upload, restore, broken>>

LEMMA AsideKeeps ==
  ASSUME IInv, Aside, TypeOK', \A r \in Readers : ReaderOf(r)'
  PROVE  IInv'
<1>1. OrphanHasCause'
  BY DEF IInv, Aside, OrphanHasCause, InFlight, Restored
<1>2. \A u \in Uploads : UploadOf(u)'
  BY DEF IInv, Aside, UploadOf, Private, Filling
<1>3. \A a \in Assets : AssetOf(a)'
  BY DEF IInv, Aside, AssetOf, Filling
<1> QED
  BY <1>1, <1>2, <1>3 DEF IInv

\* Rows are never deleted, so a reader's row stays.
LEMMA ReadersKept ==
  ASSUME IInv, UNCHANGED reader, \A a \in Assets : row[a] # "none" => row'[a] # "none"
  PROVE  \A r \in Readers : ReaderOf(r)'
BY DEF IInv, ReaderOf

\* A step of the upload u leaves every other asset and every import alone.
ByUpload(u) ==
    /\ UNCHANGED <<storage, restore, reader>>
    /\ broken \subseteq broken'
    /\ \A v \in Uploads \ {u} : upload'[v] = upload[v]
    /\ \A a \in Assets \ {u} :
         row'[a] = row[a] /\ disk'[a] = disk[a] /\ (a \in bucket' <=> a \in bucket)
    /\ row[u] # "none" => row'[u] # "none"

LEMMA UploadKeeps ==
  ASSUME AssetAssumption, IInv, NEW u \in Uploads, ByUpload(u), TypeOK',
         UploadOf(u)', AssetOf(u)',
         (disk'[u] # "none" \/ u \in bucket') /\ row'[u] = "none"
           => u \in InFlight' \/ u \in Restored' \/ u \in broken'
  PROVE  IInv'
<1>1. u \in Assets
  BY DEF Assets
<1>2. \A r \in Readers : ReaderOf(r)'
  <2>1. \A a \in Assets : row[a] # "none" => row'[a] # "none"
    BY <1>1 DEF ByUpload
  <2> QED
    BY <2>1, ReadersKept DEF ByUpload
<1>3. ASSUME NEW v \in Uploads PROVE UploadOf(v)'
  <2>1. CASE v # u
    <3>1. /\ upload'[v] = upload[v] /\ row'[v] = row[v] /\ disk'[v] = disk[v]
          /\ (v \in bucket' <=> v \in bucket) /\ UNCHANGED <<storage, restore>>
          /\ broken \subseteq broken' /\ UploadOf(v)
      BY <2>1 DEF ByUpload, Assets, IInv
    <3> QED
      BY <3>1 DEF UploadOf, Private, Filling
  <2> QED
    BY <2>1
<1>4. ASSUME NEW a \in Assets PROVE AssetOf(a)'
  <2>1. CASE a # u
    <3>1. /\ row'[a] = row[a] /\ disk'[a] = disk[a] /\ UNCHANGED <<storage, restore>>
          /\ broken \subseteq broken' /\ AssetOf(a)
          /\ a \in Uploads => upload'[a] = upload[a]
      BY <2>1 DEF ByUpload, IInv
    <3> QED
      BY <3>1 DEF AssetOf, Filling
  <2> QED
    BY <2>1
<1>5. OrphanHasCause'
  <2>1. SUFFICES ASSUME NEW a \in Assets, disk'[a] # "none" \/ a \in bucket', row'[a] = "none"
                 PROVE  a \in InFlight' \/ a \in Restored' \/ a \in broken'
    BY DEF OrphanHasCause
  <2>2. CASE a # u
    <3>1. a \in InFlight \/ a \in Restored \/ a \in broken
      BY <2>1, <2>2 DEF ByUpload, IInv, OrphanHasCause
    <3>2. a \in InFlight => a \in InFlight'
      BY <2>2 DEF InFlight, ByUpload
    <3>3. Restored' = Restored /\ broken \subseteq broken'
      BY DEF Restored, ByUpload
    <3> QED
      BY <3>1, <3>2, <3>3
  <2> QED
    BY <2>1, <2>2
<1> QED
  BY <1>2, <1>3, <1>4, <1>5 DEF IInv

-----------------------------------------------------------------------------
(* The statements of an upload.                                            *)

LEMMA UploadStep ==
  ASSUME AssetAssumption, IInv, NEW u \in Uploads,
         \/ Submit(u) \/ WriteFile(u) \/ CopyFile(u) \/ FillFile(u)
         \/ InsertRow(u) \/ InsertCopy(u) \/ CleanUp(u)
  PROVE  IInv'
<1>1. /\ u \in Assets /\ UploadOf(u) /\ AssetOf(u) /\ TypeOK
      /\ row \in [Assets -> {"none"} \cup Places]
      /\ disk \in [Assets -> {"none", "partial", "whole"}]
      /\ bucket \in SUBSET Assets /\ broken \in SUBSET Assets /\ storage \in Places
      /\ upload \in [Uploads -> {"new", "write", "fill", "insert", "clean",
                                 "refused", "error", "ok", "crashed"}]
  BY DEF Assets, IInv, TypeOK
<1>2. CASE Submit(u)
  <2>1. PICK l \in {"write", "refused"} : upload' = [upload EXCEPT ![u] = l]
    BY <1>2 DEF Submit, Reach
  <2>2. /\ upload[u] = "new" /\ u \notin Copies
        /\ UNCHANGED <<storage, base, starts, up, row, disk, bucket, restore, reader, link, broken>>
    BY <1>2 DEF Submit, files
  <2>3. TypeOK'
    BY <1>1, <2>1, <2>2 DEF TypeOK
  <2>4. ByUpload(u) /\ upload'[u] = l
    BY <1>1, <2>1, <2>2 DEF ByUpload
  <2>5. UploadOf(u)' /\ AssetOf(u)'
    BY <1>1, <2>2, <2>4 DEF UploadOf, AssetOf, Private, Filling
  <2>6. disk'[u] = "none" /\ u \notin bucket'
    BY <1>1, <2>2 DEF UploadOf
  <2> QED
    BY <2>3, <2>4, <2>5, <2>6, UploadKeeps
<1>3. CASE WriteFile(u)
  <2>1. /\ upload[u] = "write"
        /\ \/ /\ storage = "minio" /\ bucket' = bucket \cup {u}
              /\ upload' = [upload EXCEPT ![u] = "insert"] /\ UNCHANGED disk
           \/ /\ storage = "disk" /\ disk' = [disk EXCEPT ![u] = "partial"]
              /\ upload' = [upload EXCEPT ![u] = "fill"] /\ UNCHANGED bucket
           \/ upload' = [upload EXCEPT ![u] = "error"] /\ UNCHANGED <<disk, bucket>>
        /\ UNCHANGED <<storage, base, starts, up, row, restore, reader, link, broken>>
    BY <1>3 DEF WriteFile, Reach
  <2>2. TypeOK'
    BY <1>1, <2>1 DEF TypeOK
  <2>3. ByUpload(u)
    BY <1>1, <2>1 DEF ByUpload
  <2>4. /\ \/ storage = "minio" /\ u \in bucket' /\ upload'[u] = "insert" /\ disk'[u] = "none"
           \/ storage = "disk" /\ upload'[u] = "fill"
           \/ upload'[u] = "error" /\ disk'[u] = "none" /\ u \notin bucket'
        /\ Private(u) /\ u \notin Copies
    BY <1>1, <2>1 DEF UploadOf
  <2>5. UploadOf(u)' /\ AssetOf(u)'
    BY <1>1, <2>1, <2>4 DEF UploadOf, AssetOf, Private, Filling
  <2>6. disk'[u] # "none" \/ u \in bucket' => u \in InFlight'
    BY <2>4 DEF InFlight
  <2> QED
    BY <2>2, <2>3, <2>5, <2>6, UploadKeeps
<1>7. CASE CopyFile(u)
  <2>1. /\ upload[u] = "new" /\ u \in Copies
        /\ \/ /\ disk' = [disk EXCEPT ![u] = "partial"]
              /\ upload' = [upload EXCEPT ![u] = "fill"]
              /\ broken' = broken \/ broken' = broken \cup {u}
           \/ upload' = [upload EXCEPT ![u] = "error"] /\ UNCHANGED <<disk, broken>>
        /\ UNCHANGED <<storage, base, starts, up, row, bucket, restore, reader, link>>
    BY <1>7 DEF CopyFile, Reach
  <2>2. TypeOK'
    BY <1>1, <2>1 DEF TypeOK
  <2>3. ByUpload(u)
    BY <1>1, <2>1 DEF ByUpload
  <2>4. /\ \/ upload'[u] = "fill"
           \/ upload'[u] = "error" /\ disk'[u] = "none" /\ u \notin bucket'
        /\ Private(u)
    BY <1>1, <2>1 DEF UploadOf
  <2>5. UploadOf(u)' /\ AssetOf(u)'
    BY <1>1, <2>1, <2>4 DEF UploadOf, AssetOf, Private, Filling
  <2>6. disk'[u] # "none" \/ u \in bucket' => u \in InFlight'
    BY <2>4 DEF InFlight
  <2> QED
    BY <2>2, <2>3, <2>5, <2>6, UploadKeeps
<1>4. CASE FillFile(u)
  <2>0. PICK c \in {"partial", "whole"} : c = Bytes(u)
    BY DEF Bytes
  <2>1. /\ upload[u] = "fill"
        /\ \/ /\ disk' = [disk EXCEPT ![u] = c]
              /\ upload' = [upload EXCEPT ![u] = "insert"] /\ broken' = broken
           \/ /\ upload' = [upload EXCEPT ![u] = "error"] /\ UNCHANGED disk
              /\ broken' = broken \cup {u}
        /\ UNCHANGED <<storage, base, starts, up, row, bucket, restore, reader, link>>
    BY <1>1, <1>4, <2>0 DEF FillFile, Reach
  <2>2. TypeOK'
    BY <1>1, <2>1 DEF TypeOK
  <2>3. ByUpload(u)
    BY <1>1, <2>1 DEF ByUpload
  <2>4. /\ \/ /\ disk'[u] = "whole" \/ u \in Copies \cap broken
              /\ upload'[u] = "insert" /\ broken' = broken
           \/ upload'[u] = "error" /\ u \in broken'
        /\ Private(u)
    BY <1>1, <2>0, <2>1 DEF UploadOf, Bytes
  <2>5. UploadOf(u)'
    BY <1>1, <2>1, <2>4 DEF UploadOf, Private, Filling, Places
  <2>6. AssetOf(u)'
    BY <1>1, <2>1, <2>4 DEF AssetOf, Private, Filling
  <2>7. u \in InFlight' \/ u \in broken'
    BY <2>4 DEF InFlight
  <2> QED
    BY <2>2, <2>3, <2>5, <2>6, <2>7, UploadKeeps
<1>5. CASE InsertRow(u)
  <2>1. /\ upload[u] = "insert" /\ u \notin Copies
        /\ \/ row' = [row EXCEPT ![u] = storage] /\ upload' = [upload EXCEPT ![u] = "ok"]
           \/ row' = [row EXCEPT ![u] = storage] /\ upload' = [upload EXCEPT ![u] = "clean"]
           \/ upload' = [upload EXCEPT ![u] = "clean"] /\ UNCHANGED row
        /\ UNCHANGED <<storage, base, starts, up, disk, bucket, restore, reader, link, broken>>
    BY <1>5 DEF InsertRow, Reach
  <2>2. TypeOK'
    BY <1>1, <2>1 DEF TypeOK
  <2>3. /\ \/ row'[u] = storage /\ upload'[u] = "ok"
           \/ upload'[u] = "clean"
        /\ row'[u] = storage \/ row'[u] = "none"
        /\ Private(u) /\ storage # "none"
    <3>1. Private(u) /\ row[u] = "none" /\ storage # "none"
      BY <1>1, <2>1 DEF UploadOf, Private, Places
    <3>2. row' = [row EXCEPT ![u] = storage] => row'[u] = storage
      BY <1>1
    <3>3. /\ upload' = [upload EXCEPT ![u] = "ok"] => upload'[u] = "ok"
          /\ upload' = [upload EXCEPT ![u] = "clean"] => upload'[u] = "clean"
      BY <1>1
    <3> QED
      BY <2>1, <3>1, <3>2, <3>3
  <2>4. ByUpload(u)
    BY <1>1, <2>1, <2>3 DEF ByUpload
  <2>5. UploadOf(u)' /\ AssetOf(u)'
    BY <1>1, <2>1, <2>3 DEF UploadOf, AssetOf, Private, Filling, Places
  <2>6. row'[u] = "none" => u \in InFlight'
    BY <2>3 DEF InFlight
  <2> QED
    BY <2>2, <2>4, <2>5, <2>6, UploadKeeps
<1>8. CASE InsertCopy(u)
  <2>1. /\ upload[u] = "insert" /\ u \in Copies
        /\ \/ /\ row' = [row EXCEPT ![u] = "disk"] /\ upload' = [upload EXCEPT ![u] = "ok"]
              /\ UNCHANGED broken
           \/ /\ row' = row \/ row' = [row EXCEPT ![u] = "disk"]
              /\ upload' = [upload EXCEPT ![u] = "error"]
              /\ broken' = broken \cup {u}
        /\ UNCHANGED <<storage, base, starts, up, disk, bucket, restore, reader, link>>
    BY <1>8 DEF InsertCopy, Reach
  <2>2. TypeOK'
    BY <1>1, <2>1 DEF TypeOK, Places
  <2>3. /\ Private(u) /\ row[u] = "none"
        /\ disk[u] = "whole" \/ u \in broken
    BY <1>1, <2>1 DEF UploadOf, Private
  <2>4. \/ row'[u] = "disk" /\ upload'[u] = "ok"
        \/ upload'[u] = "error" /\ u \in broken' /\ row'[u] \in {"none", "disk"}
    BY <1>1, <2>1, <2>3
  <2>5. ByUpload(u)
    BY <1>1, <2>1, <2>3 DEF ByUpload
  <2>6. UploadOf(u)' /\ AssetOf(u)'
    BY <1>1, <2>1, <2>3, <2>4 DEF UploadOf, AssetOf, Private, Filling
  <2> QED
    BY <2>2, <2>4, <2>5, <2>6, UploadKeeps
<1>6. CASE CleanUp(u)
  <2>1. /\ upload[u] = "clean" /\ upload' = [upload EXCEPT ![u] = "error"]
        /\ \/ /\ disk' = [disk EXCEPT ![u] = "none"] /\ bucket' = bucket \ {u}
              /\ UNCHANGED broken
           \/ broken' = broken \cup {u} /\ UNCHANGED <<disk, bucket>>
        /\ UNCHANGED <<storage, base, starts, up, row, restore, reader, link>>
    BY <1>6 DEF CleanUp, Reach
  <2>2. TypeOK'
    BY <1>1, <2>1 DEF TypeOK
  <2>3. ByUpload(u)
    BY <1>1, <2>1 DEF ByUpload
  <2>4. /\ upload'[u] = "error"
        /\ (disk'[u] = "none" /\ u \notin bucket') \/ u \in broken'
    BY <1>1, <2>1
  <2>5. UploadOf(u)' /\ AssetOf(u)'
    BY <1>1, <2>1, <2>4 DEF UploadOf, AssetOf, Filling
  <2> QED
    BY <2>2, <2>3, <2>4, <2>5, UploadKeeps
<1> QED
  BY <1>2, <1>3, <1>4, <1>5, <1>6, <1>7, <1>8

-----------------------------------------------------------------------------
(* The statements of an import.                                            *)

\* A step of an import that works, or goes on to work, on the asset a.
ByRestore(a) ==
    /\ UNCHANGED <<storage, upload, reader, bucket>>
    /\ broken \subseteq broken'
    /\ \A b \in Assets \ {a} : row'[b] = row[b] /\ disk'[b] = disk[b]
    /\ \A b \in Assets \ {a} : (Filling(b) => Filling(b)') /\ (b \in Restored => b \in Restored')
    /\ row[a] # "none" => row'[a] # "none"
    /\ \A i \in Restores : restore'[i] = restore[i] \/ restore'[i].asset \in {a, NoAsset}

LEMMA RestoreKeeps ==
  ASSUME AssetAssumption, IInv, NEW a \in Assets, ByRestore(a), TypeOK',
         a \in Uploads => UploadOf(a)', AssetOf(a)',
         (disk'[a] # "none" \/ a \in bucket') /\ row'[a] = "none"
           => a \in InFlight' \/ a \in Restored' \/ a \in broken'
  PROVE  IInv'
<1>1. \A r \in Readers : ReaderOf(r)'
  <2>1. \A b \in Assets : row[b] # "none" => row'[b] # "none"
    BY DEF ByRestore
  <2> QED
    BY <2>1, ReadersKept DEF ByRestore
<1>2. ASSUME NEW v \in Uploads PROVE UploadOf(v)'
  <2>1. CASE v # a
    <3>1. /\ row'[v] = row[v] /\ disk'[v] = disk[v] /\ UNCHANGED <<storage, bucket, upload>>
          /\ broken \subseteq broken' /\ (Filling(v) => Filling(v)') /\ UploadOf(v)
      BY <2>1 DEF ByRestore, Assets, IInv
    <3>2. Private(v) => Private(v)'
      <4>1. v # NoAsset
        BY DEF AssetAssumption, Assets
      <4> QED
        BY <2>1, <3>1, <4>1 DEF Private, ByRestore
    <3> QED
      BY <3>1, <3>2 DEF UploadOf
  <2> QED
    BY <2>1
<1>3. ASSUME NEW b \in Assets PROVE AssetOf(b)'
  <2>1. CASE b # a
    <3>1. /\ row'[b] = row[b] /\ disk'[b] = disk[b] /\ UNCHANGED <<storage, upload>>
          /\ broken \subseteq broken' /\ (Filling(b) => Filling(b)') /\ AssetOf(b)
      BY <2>1 DEF ByRestore, IInv
    <3> QED
      BY <3>1 DEF AssetOf
  <2> QED
    BY <2>1
<1>4. OrphanHasCause'
  <2>1. SUFFICES ASSUME NEW b \in Assets, disk'[b] # "none" \/ b \in bucket', row'[b] = "none"
                 PROVE  b \in InFlight' \/ b \in Restored' \/ b \in broken'
    BY DEF OrphanHasCause
  <2>2. CASE b # a
    <3>1. b \in InFlight \/ b \in Restored \/ b \in broken
      BY <2>1, <2>2 DEF ByRestore, IInv, OrphanHasCause
    <3>2. InFlight' = InFlight
      BY DEF InFlight, ByRestore
    <3> QED
      BY <2>2, <3>1, <3>2 DEF ByRestore
  <2> QED
    BY <2>1, <2>2
<1> QED
  BY <1>1, <1>2, <1>3, <1>4 DEF IInv

\* What changing the entry of one import means for Filling and Restored.
LEMMA RestoreEntry ==
  ASSUME AssetAssumption, TypeOK, NEW i \in Restores, NEW a \in Assets \cup {NoAsset},
         NEW l \in {"idle", "fill", "save"},
         restore' = [restore EXCEPT ![i] = [asset |-> a, at |-> l]],
         a = NoAsset => l = "idle"
  PROVE  /\ restore' \in [Restores -> [asset : Assets \cup {NoAsset},
                                       at : {"idle", "fill", "save"}]]
         /\ \A j \in Restores : restore'[j].at # "idle" => restore'[j].asset \in Assets
         /\ \A j \in Restores : restore'[j] = restore[j] \/ (j = i /\ restore'[j].asset = a)
         /\ \A b \in Assets : b # restore[i].asset \/ restore[i].at = "idle" =>
              (Filling(b) => Filling(b)') /\ (b \in Restored => b \in Restored')
         /\ l = "fill" => Filling(a)'
         /\ l # "idle" => a \in Restored'
<1>1. /\ restore \in [Restores -> [asset : Assets \cup {NoAsset},
                                   at : {"idle", "fill", "save"}]]
      /\ \A j \in Restores : restore[j].at # "idle" => restore[j].asset \in Assets
  BY DEF TypeOK
<1>2. /\ [asset |-> a, at |-> l] \in [asset : Assets \cup {NoAsset},
                                      at : {"idle", "fill", "save"}]
      /\ \A j \in Restores : restore'[j] = IF j = i THEN [asset |-> a, at |-> l] ELSE restore[j]
  BY <1>1
<1>3. /\ restore' \in [Restores -> [asset : Assets \cup {NoAsset},
                                    at : {"idle", "fill", "save"}]]
  BY <1>1, <1>2
<1>4. \A b : b \in Restored <=> \E j \in Restores : restore[j].at # "idle" /\ restore[j].asset = b
  BY DEF Restored
<1>5. \A b : b \in Restored' <=>
               \E j \in Restores : restore'[j].at # "idle" /\ restore'[j].asset = b
  BY DEF Restored
<1>6. \A b \in Assets : b # restore[i].asset \/ restore[i].at = "idle" =>
              (Filling(b) => Filling(b)') /\ (b \in Restored => b \in Restored')
  BY <1>2, <1>4, <1>5 DEF Filling
<1> QED
  BY <1>1, <1>2, <1>3, <1>5, <1>6 DEF Filling

LEMMA RestoreStep ==
  ASSUME AssetAssumption, IInv, NEW i \in Restores,
         RestoreFile(i) \/ Fill(i) \/ SaveRow(i)
  PROVE  IInv'
<1>1. /\ TypeOK /\ row \in [Assets -> {"none"} \cup Places]
      /\ disk \in [Assets -> {"none", "partial", "whole"}]
      /\ bucket \in SUBSET Assets /\ broken \in SUBSET Assets /\ storage \in Places
      /\ NoAsset \notin Assets /\ "disk" \in Places
      /\ \A j \in Restores : restore[j].at # "idle" => restore[j].asset \in Assets
  BY DEF IInv, TypeOK, AssetAssumption, Places
<1>2. CASE RestoreFile(i)
  <2>1. PICK a \in Assets : /\ a \in Foreign \/ row[a] # "none"
                            /\ disk' = [disk EXCEPT ![a] = "partial"]
                            /\ restore' = [restore EXCEPT ![i] = [asset |-> a, at |-> "fill"]]
    BY <1>2 DEF RestoreFile, At
  <2>2. /\ restore[i].at = "idle"
        /\ UNCHANGED <<storage, base, starts, up, row, bucket, upload, reader, link, broken>>
    BY <1>2 DEF RestoreFile
  <2>3. /\ restore' \in [Restores -> [asset : Assets \cup {NoAsset},
                                      at : {"idle", "fill", "save"}]]
        /\ \A j \in Restores : restore'[j].at # "idle" => restore'[j].asset \in Assets
        /\ \A j \in Restores : restore'[j] = restore[j] \/ restore'[j].asset = a
        /\ \A b \in Assets : (Filling(b) => Filling(b)') /\ (b \in Restored => b \in Restored')
        /\ Filling(a)' /\ a \in Restored'
    BY <1>1, <2>1, <2>2, RestoreEntry
  <2>4. /\ disk' \in [Assets -> {"none", "partial", "whole"}]
        /\ \A b \in Assets \ {a} : disk'[b] = disk[b]
    BY <1>1, <2>1
  <2>5. TypeOK'
    BY <1>1, <2>2, <2>3, <2>4 DEF TypeOK
  <2>6. ByRestore(a)
    BY <2>2, <2>3, <2>4 DEF ByRestore
  <2>7. a \in Uploads => UploadOf(a)'
    <3>1. SUFFICES ASSUME a \in Uploads PROVE UploadOf(a)'
      OBVIOUS
    <3>2. row[a] # "none" /\ UploadOf(a)
      BY <2>1, <3>1 DEF AssetAssumption, IInv
    <3> QED
      BY <2>2, <2>3, <3>2 DEF UploadOf, Private
  <2>8. AssetOf(a)'
    BY <2>2, <2>3 DEF AssetOf, IInv
  <2> QED
    BY <2>3, <2>5, <2>6, <2>7, <2>8, RestoreKeeps
<1>3. CASE Fill(i)
  <2>0. PICK a : a = restore[i].asset
    OBVIOUS
  <2>1. /\ restore[i].at = "fill" /\ a = restore[i].asset
        /\ \/ /\ disk' = [disk EXCEPT ![a] = "whole"]
              /\ restore' = [restore EXCEPT ![i] = [asset |-> a, at |-> "save"]]
              /\ UNCHANGED broken
           \/ /\ broken' = broken \cup {a} /\ UNCHANGED disk
              /\ restore' = [restore EXCEPT ![i] = [asset |-> NoAsset, at |-> "idle"]]
        /\ UNCHANGED <<storage, base, starts, up, row, bucket, upload, reader, link>>
    BY <1>3, <2>0 DEF Fill, At
  <2>2. a \in Assets
    BY <1>1, <2>1
  <2>3. /\ restore' \in [Restores -> [asset : Assets \cup {NoAsset},
                                      at : {"idle", "fill", "save"}]]
        /\ \A j \in Restores : restore'[j].at # "idle" => restore'[j].asset \in Assets
        /\ \A j \in Restores : restore'[j] = restore[j] \/ restore'[j].asset \in {a, NoAsset}
        /\ \A b \in Assets \ {a} : (Filling(b) => Filling(b)') /\ (b \in Restored => b \in Restored')
        /\ (disk'[a] = "whole" /\ a \in Restored') \/ (a \in broken' /\ disk' = disk)
    <3>1. CASE /\ disk' = [disk EXCEPT ![a] = "whole"]
               /\ restore' = [restore EXCEPT ![i] = [asset |-> a, at |-> "save"]]
      <4>1. disk'[a] = "whole"
        BY <1>1, <2>2, <3>1
      <4> QED
        BY <1>1, <2>1, <2>2, <3>1, <4>1, RestoreEntry
    <3>2. CASE /\ broken' = broken \cup {a} /\ UNCHANGED disk
               /\ restore' = [restore EXCEPT ![i] = [asset |-> NoAsset, at |-> "idle"]]
      BY <1>1, <2>1, <2>2, <3>2, RestoreEntry
    <3> QED
      BY <2>1, <3>1, <3>2
  <2>4. /\ disk' \in [Assets -> {"none", "partial", "whole"}]
        /\ \A b \in Assets \ {a} : disk'[b] = disk[b]
        /\ broken' \in SUBSET Assets /\ broken \subseteq broken'
    BY <1>1, <2>1, <2>2
  <2>5. TypeOK'
    BY <1>1, <2>1, <2>3, <2>4 DEF TypeOK
  <2>6. ByRestore(a)
    BY <2>1, <2>3, <2>4 DEF ByRestore
  <2>7. a \in Uploads => UploadOf(a)'
    <3>1. SUFFICES ASSUME a \in Uploads PROVE UploadOf(a)'
      OBVIOUS
    <3>2. UploadOf(a) /\ ~Private(a)
      BY <2>1, <3>1 DEF IInv, Private
    <3> QED
      BY <2>1, <2>3, <3>2 DEF UploadOf
  <2>8. AssetOf(a)'
    BY <2>1, <2>2, <2>3 DEF AssetOf, IInv
  <2> QED
    BY <2>2, <2>3, <2>5, <2>6, <2>7, <2>8, RestoreKeeps
<1>4. CASE SaveRow(i)
  <2>0. PICK a : a = restore[i].asset
    OBVIOUS
  <2>1. /\ restore[i].at = "save" /\ a = restore[i].asset
        /\ \/ row' = [row EXCEPT ![a] = "disk"] /\ UNCHANGED broken
           \/ broken' = broken \cup {a} /\ UNCHANGED row
        /\ restore' = [restore EXCEPT ![i] = [asset |-> NoAsset, at |-> "idle"]]
        /\ UNCHANGED <<storage, base, starts, up, disk, bucket, upload, reader, link>>
    BY <1>4, <2>0 DEF SaveRow, At
  <2>2. a \in Assets
    BY <1>1, <2>1
  <2>3. /\ restore' \in [Restores -> [asset : Assets \cup {NoAsset},
                                      at : {"idle", "fill", "save"}]]
        /\ \A j \in Restores : restore'[j].at # "idle" => restore'[j].asset \in Assets
        /\ \A j \in Restores : restore'[j] = restore[j] \/ restore'[j].asset \in {a, NoAsset}
        /\ \A b \in Assets \ {a} : (Filling(b) => Filling(b)') /\ (b \in Restored => b \in Restored')
    BY <1>1, <2>1, <2>2, RestoreEntry
  <2>4. Filling(a) => Filling(a)'
    <3>1. \A j \in Restores : j # i => restore'[j] = restore[j]
      BY <2>1 DEF TypeOK, IInv
    <3> QED
      BY <2>1, <3>1 DEF Filling
  <2>5. /\ row' \in [Assets -> {"none"} \cup Places]
        /\ \A b \in Assets \ {a} : row'[b] = row[b]
        /\ broken' \in SUBSET Assets /\ broken \subseteq broken'
        /\ row'[a] = "disk" \/ (row'[a] = row[a] /\ a \in broken')
    BY <1>1, <2>1, <2>2
  <2>6. TypeOK'
    BY <1>1, <2>1, <2>3, <2>5 DEF TypeOK
  <2>7. ByRestore(a)
    BY <2>1, <2>3, <2>5 DEF ByRestore
  <2>8. a \in Uploads => UploadOf(a)'
    <3>1. SUFFICES ASSUME a \in Uploads PROVE UploadOf(a)'
      OBVIOUS
    <3>2. UploadOf(a) /\ ~Private(a)
      BY <2>1, <3>1 DEF IInv, Private
    <3> QED
      BY <2>1, <2>4, <2>5, <3>2 DEF UploadOf
  <2>9. AssetOf(a)'
    BY <2>1, <2>2, <2>4, <2>5 DEF AssetOf, IInv
  <2>10. row'[a] = "none" => a \in broken'
    BY <2>5
  <2> QED
    BY <2>2, <2>6, <2>7, <2>8, <2>9, <2>10, RestoreKeeps
<1> QED
  BY <1>2, <1>3, <1>4

LEMMA ReaderStep ==
  ASSUME AssetAssumption, IInv, NEW r \in Readers, FindRow(r) \/ ReadFile(r) \/ Receive(r)
  PROVE  IInv'
<1> DEFINE RT == [asset : Assets \cup {NoAsset}, path : {"none"} \cup Places,
                  got : {"nothing", "partial", "whole"}]
<1>1. /\ reader \in [Readers -> RT] /\ row \in [Assets -> {"none"} \cup Places]
      /\ disk \in [Assets -> {"none", "partial", "whole"}] /\ NoReader \in RT
      /\ NoReader.path = "none"
  BY DEF IInv, TypeOK, NoReader
<1>2. /\ Aside /\ UNCHANGED <<base, starts, up, link>>
      /\ \E e \in RT : /\ reader' = [reader EXCEPT ![r] = e]
                       /\ e.path # "none" => e.asset \in Assets /\ row[e.asset] # "none"
  <2>1. CASE FindRow(r)
    <3>1. PICK a \in Assets :
            /\ row[a] # "none"
            /\ reader' = [reader EXCEPT ![r] =
                 [asset |-> a, path |-> row[a], got |-> "nothing"]]
      BY <2>1 DEF FindRow
    <3>2. [asset |-> a, path |-> row[a], got |-> "nothing"] \in RT
      BY <1>1
    <3> QED
      BY <2>1, <3>1, <3>2 DEF FindRow, Aside, files
  <2>2. CASE ReadFile(r)
    <3>1. reader[r] \in RT
      BY <1>1
    <3>2. reader[r].asset \in Assets =>
            Content(reader[r].asset, reader[r].path) \in {"nothing", "partial", "whole"}
      BY <1>1 DEF Content
    <3>3. ReaderOf(r) /\ reader[r].path # "none"
      BY <2>2 DEF IInv, ReadFile
    <3>4. PICK c : c = Content(reader[r].asset, reader[r].path)
      OBVIOUS
    <3>5. PICK e : e = IF c = "nothing" THEN NoReader ELSE [reader[r] EXCEPT !.got = c]
      OBVIOUS
    <3>6. c \in {"nothing", "partial", "whole"}
      BY <3>2, <3>3, <3>4 DEF ReaderOf
    <3>7. /\ e \in RT
          /\ e = NoReader \/ (e.asset = reader[r].asset /\ e.path = reader[r].path)
      BY <1>1, <3>1, <3>5, <3>6
    <3>8. reader' = [reader EXCEPT ![r] = e]
      BY <1>1, <2>2, <3>4, <3>5 DEF ReadFile
    <3>9. Aside /\ UNCHANGED <<base, starts, up, link>>
      BY <2>2 DEF ReadFile, Aside, files
    <3> QED
      BY <1>1, <3>3, <3>7, <3>8, <3>9 DEF ReaderOf
  <2>3. CASE Receive(r)
    BY <1>1, <2>3 DEF Receive, Aside, files
  <2> QED
    BY <2>1, <2>2, <2>3
<1>3. PICK e \in RT : /\ reader' = [reader EXCEPT ![r] = e]
                      /\ e.path # "none" => e.asset \in Assets /\ row[e.asset] # "none"
  BY <1>2
<1>4. TypeOK'
  <2>1. reader' \in [Readers -> RT]
    BY <1>1, <1>3
  <2> QED
    BY <1>2, <2>1 DEF IInv, TypeOK, Aside
<1>5. \A q \in Readers : ReaderOf(q)'
  <2>1. \A q \in Readers : reader'[q] = IF q = r THEN e ELSE reader[q]
    BY <1>1, <1>3
  <2> QED
    BY <1>2, <1>3, <2>1 DEF IInv, ReaderOf, Aside
<1> QED
  BY <1>2, <1>4, <1>5, AsideKeeps

\* Configurations and starts touch no file.
LEMMA LinkStep ==
  ASSUME AssetAssumption, IInv, (\E a \in Assets : SaveLink(a)) \/ SaveBack \/ Start
  PROVE  IInv'
<1>1. /\ Aside /\ UNCHANGED <<base, reader>>
      /\ starts' \in 0 .. MaxStarts /\ up' \in BOOLEAN
      /\ link' \in [asset : Assets \cup {NoAsset}, prefix : Nat]
  <2>1. /\ link \in [asset : Assets \cup {NoAsset}, prefix : Nat] /\ base \in Nat
        /\ starts \in 0 .. MaxStarts /\ MaxStarts \in Nat /\ up \in BOOLEAN
    BY DEF IInv, TypeOK, AssetAssumption
  <2>2. CASE \E a \in Assets : SaveLink(a)
    <3>1. PICK a \in Assets : link' = [asset |-> a, prefix |-> 0]
      BY <2>2 DEF SaveLink
    <3> QED
      BY <2>1, <2>2, <3>1 DEF SaveLink, Aside, files
  <2>3. CASE SaveBack
    <3>1. Delivered(link) \in Nat
      BY <2>1 DEF Delivered
    <3>2. link' = [link EXCEPT !.prefix = Delivered(link)]
      BY <2>3 DEF SaveBack
    <3>3. link' \in [asset : Assets \cup {NoAsset}, prefix : Nat]
      BY <2>1, <3>1, <3>2
    <3> QED
      BY <2>1, <2>3, <3>3 DEF SaveBack, Aside, files
  <2>4. CASE Start
    <3>1. PICK l : l = [link EXCEPT !.prefix = @ + base]
      OBVIOUS
    <3>2. l \in [asset : Assets \cup {NoAsset}, prefix : Nat]
      BY <2>1, <3>1
    <3>3. link' \in {link, l}
      BY <2>4, <3>1 DEF Start, Rewritten
    <3>4. starts' = starts + 1 /\ starts < MaxStarts /\ up' = TRUE
      BY <2>4 DEF Start
    <3>5. starts' \in 0 .. MaxStarts
      BY <2>1, <3>4
    <3> QED
      BY <2>1, <2>4, <3>2, <3>3, <3>4, <3>5 DEF Start, Aside, files
  <2> QED
    BY <2>2, <2>3, <2>4
<1>2. TypeOK'
  BY <1>1 DEF IInv, TypeOK, Aside
<1>3. \A r \in Readers : ReaderOf(r)'
  BY <1>1, ReadersKept DEF Aside
<1> QED
  BY <1>1, <1>2, <1>3, AsideKeeps

\* What was being written when the server died is broken from then on.
LEMMA CrashStep ==
  ASSUME AssetAssumption, IInv, Crash
  PROVE  IInv'
<1>1. /\ upload' = [u \in Uploads |-> IF u \in InFlight THEN "crashed" ELSE upload[u]]
      /\ restore' = [i \in Restores |-> NoRestore] /\ reader' = [r \in Readers |-> NoReader]
      /\ broken' = broken \cup Restored \cup InFlight /\ up' = FALSE
      /\ UNCHANGED <<storage, base, starts, row, disk, bucket, link>>
  BY DEF Crash, files
<1>2. /\ TypeOK /\ InFlight \in SUBSET Uploads /\ Restored \in SUBSET Assets
      /\ broken \in SUBSET broken'
  BY <1>1 DEF IInv, TypeOK, InFlight, Restored
<1>3. TypeOK'
  <2>1. /\ upload' \in [Uploads -> {"new", "write", "fill", "insert", "clean",
                                    "refused", "error", "ok", "crashed"}]
        /\ NoRestore \in [asset : Assets \cup {NoAsset}, at : {"idle", "fill", "save"}]
        /\ NoRestore.at = "idle"
        /\ NoReader \in [asset : Assets \cup {NoAsset}, path : {"none"} \cup Places,
                         got : {"nothing", "partial", "whole"}]
        /\ broken' \in SUBSET Assets
    BY <1>1, <1>2 DEF TypeOK, NoRestore, NoReader, Assets
  <2> QED
    BY <1>1, <1>2, <2>1 DEF TypeOK
<1>4. OrphanHasCause'
  BY <1>1 DEF IInv, OrphanHasCause
<1>5. \A a \in Assets : Filling(a) => a \in Restored
  BY DEF Filling, Restored
<1>6. ASSUME NEW u \in Uploads PROVE UploadOf(u)'
  <2>1. u # NoAsset /\ \A i \in Restores : restore'[i].asset = NoAsset
    BY <1>1 DEF AssetAssumption, Assets, NoRestore
  <2>2. Private(u) => Private(u)'
    BY <1>1, <2>1 DEF Private
  <2>3. /\ upload'[u] = "crashed"
           \/ (upload'[u] = upload[u] /\ upload[u] \notin {"write", "fill", "insert", "clean"})
        /\ Filling(u) => u \in broken'
    BY <1>1, <1>5 DEF InFlight, Assets
  <2>4. UploadOf(u)
    BY DEF IInv
  <2> QED
    BY <1>1, <1>2, <2>2, <2>3, <2>4 DEF UploadOf
<1>7. ASSUME NEW a \in Assets PROVE AssetOf(a)'
  <2>1. a \in Uploads /\ upload[a] = "fill" => a \in broken'
    BY <1>1 DEF InFlight
  <2> QED
    BY <1>1, <1>5, <2>1 DEF IInv, AssetOf
<1>8. \A r \in Readers : ReaderOf(r)'
  BY <1>1 DEF ReaderOf, NoReader
<1> QED
  BY <1>3, <1>4, <1>6, <1>7, <1>8 DEF IInv

LEMMA NextKeepsIInv ==
  ASSUME AssetAssumption, IInv, [Next]_vars
  PROVE  IInv'
<1>1. CASE UNCHANGED vars
  <2>1. TypeOK'
    BY <1>1 DEF IInv, TypeOK, vars
  <2>2. Aside /\ \A r \in Readers : ReaderOf(r)'
    BY <1>1, ReadersKept DEF vars, Aside
  <2> QED
    BY <2>1, <2>2, AsideKeeps
<1> QED
  BY <1>1, UploadStep, RestoreStep, ReaderStep, LinkStep, CrashStep DEF Next

-----------------------------------------------------------------------------
\* The invariant holds in every state of every run of the asset store.
THEOREM Invariant ==
  ASSUME AssetAssumption
  PROVE  Spec => []IInv
<1>1. Init => IInv
  BY InitIInv
<1>2. IInv /\ [Next]_vars => IInv'
  BY NextKeepsIInv
<1> QED
  BY <1>1, <1>2, PTL DEF Spec

\* Rows, files and requests keep their types, whatever fails or crashes.
THEOREM TypeCorrect ==
  ASSUME AssetAssumption
  PROVE  Spec => []TypeOK
<1>1. IInv => TypeOK
  BY DEF IInv
<1> QED
  BY <1>1, Invariant, PTL

\* UploadAsset answers only when row and bytes are there, and nothing but a
\* restoration (extractAssetsFromZip, or a crash in it) takes them away.
THEOREM UploadedOpensTheorem ==
  ASSUME AssetAssumption
  PROVE  Spec => []UploadedOpens
<1>1. ASSUME IInv, NEW u \in Uploads, upload[u] = "ok"
      PROVE  /\ row[u] # "none"
             /\ \/ Content(u, row[u]) = "whole"
                \/ Filling(u) \/ u \in broken
                \/ storage = "minio" /\ row[u] = "disk"
  <2>1. /\ UploadOf(u) /\ AssetOf(u) /\ storage \in Places /\ row[u] \in {"none"} \cup Places
        /\ disk[u] \in {"none", "partial", "whole"}
    BY <1>1 DEF IInv, TypeOK, Assets
  <2>2. /\ row[u] # "none" /\ (row[u] = "minio" => u \in bucket /\ storage = "minio")
        /\ storage = "disk" => disk[u] = "whole" \/ Filling(u) \/ u \in broken
    BY <1>1, <2>1 DEF UploadOf, AssetOf
  <2>3. CASE row[u] = "minio"
    BY <2>2, <2>3 DEF Content
  <2>4. CASE row[u] = "disk" /\ storage = "minio"
    BY <2>4
  <2>5. CASE row[u] = "disk" /\ storage = "disk"
    BY <2>2, <2>5 DEF Content
  <2> QED
    BY <2>1, <2>2, <2>3, <2>4, <2>5 DEF Places
<1>2. IInv => UploadedOpens
  BY <1>1 DEF UploadedOpens
<1> QED
  BY <1>2, Invariant, PTL

\* A file without a row is explained by an operation that is under way, failed
\* or crashed: no successful sequence of statements leaves one.
THEOREM OrphanHasCauseTheorem ==
  ASSUME AssetAssumption
  PROVE  Spec => []OrphanHasCause
<1>1. IInv => OrphanHasCause
  BY DEF IInv
<1> QED
  BY <1>1, Invariant, PTL

\* GetAssetFile hands out part of a file only while, or after, an import
\* rewrites it in place; a fresh upload is never seen half written.
THEOREM ReadsWholeTheorem ==
  ASSUME AssetAssumption
  PROVE  Spec => ReadsWhole
<1> DEFINE Whole ==
      \A r \in Readers :
         reader'[r].got = "partial" /\ reader[r].got # "partial"
           => Filling(reader[r].asset) \/ reader[r].asset \in broken
<1>1. ASSUME IInv, Next PROVE Whole
  <2>1. SUFFICES ASSUME NEW r \in Readers, reader'[r].got = "partial",
                        reader[r].got # "partial"
                 PROVE  Filling(reader[r].asset) \/ reader[r].asset \in broken
    OBVIOUS
  <2>2. /\ reader \in [Readers -> [asset : Assets \cup {NoAsset}, path : {"none"} \cup Places,
                                   got : {"nothing", "partial", "whole"}]]
        /\ ReaderOf(r) /\ storage \in Places
    BY <1>1 DEF IInv, TypeOK
  <2>3. PICK q \in Readers : FindRow(q) \/ ReadFile(q) \/ Receive(q)
    BY <1>1, <2>1 DEF Next, Submit, WriteFile, CopyFile, FillFile, InsertRow, InsertCopy,
       CleanUp, RestoreFile,
       Fill, SaveRow, SaveLink, SaveBack, Start, Crash, NoReader
  <2>4. q = r
    BY <2>1, <2>2, <2>3 DEF FindRow, ReadFile, Receive
  <2>5. ReadFile(r)
    <3>1. ~FindRow(r) /\ ~Receive(r)
      BY <2>1, <2>2 DEF FindRow, Receive, NoReader
    <3> QED
      BY <2>3, <2>4, <3>1
  <2>6. Content(reader[r].asset, reader[r].path) = "partial" /\ reader[r].path # "none"
    BY <2>1, <2>2, <2>5 DEF ReadFile, NoReader
  <2>7. disk[reader[r].asset] = "partial"
    BY <2>6 DEF Content
  <2>8. reader[r].asset \in Assets /\ row[reader[r].asset] # "none"
    BY <2>2, <2>6 DEF ReaderOf
  <2>9. AssetOf(reader[r].asset)
    BY <1>1, <2>8 DEF IInv
  <2>10. ~(reader[r].asset \in Uploads /\ upload[reader[r].asset] = "fill")
    BY <1>1, <2>8 DEF IInv, UploadOf, Private
  <2> QED
    BY <2>7, <2>9, <2>10 DEF AssetOf
<1>2. IInv /\ [Next]_vars => [Whole]_vars
  BY <1>1
<1> QED
  BY <1>2, Invariant, PTL DEF Spec, ReadsWhole
-----------------------------------------------------------------------------
(* Where DeliveredPathServed holds: a start precedes the URL of an image by  *)
(* the base path at most once, and nothing else does so twice.               *)
LinkInv ==
    /\ up => starts >= 1
    /\ link # NoLink =>
         /\ starts >= 1 /\ link.asset # NoAsset
         /\ base = 0 => link.prefix = 0
         /\ base = 1 => link.prefix <= starts

\* However often the server starts, crashes and saves back what it delivered,
\* the base path precedes a URL at least once and at most once per start.
PrefixBounded == link # NoLink => Delivered(link) \in base .. base * starts

LEMMA NextKeepsLinkInv ==
  ASSUME AssetAssumption, TypeOK, LinkInv, [Next]_vars
  PROVE  LinkInv'
<1>1. /\ base \in {0, 1} /\ starts \in Nat /\ up \in BOOLEAN
      /\ link \in [asset : Assets \cup {NoAsset}, prefix : Nat] /\ NoAsset \notin Assets
  BY DEF TypeOK, AssetAssumption
<1>2. CASE Start
  <2>1. link' = link \/ link' = Rewritten(link)
    BY <1>2 DEF Start
  <2>2. up' /\ starts' = starts + 1 /\ base' = base
    BY <1>2 DEF Start
  <2>3. CASE link' = link
    BY <1>1, <2>2, <2>3 DEF LinkInv
  <2>4. CASE link' = [link EXCEPT !.prefix = @ + base] /\ link.asset # NoAsset
    <3>1. link # NoLink
      BY <2>4 DEF NoLink
    <3>2. link'.asset = link.asset /\ link'.prefix = link.prefix + base
      BY <1>1, <2>4
    <3> QED
      BY <1>1, <2>2, <3>1, <3>2 DEF LinkInv
  <2> QED
    BY <2>1, <2>3, <2>4 DEF Rewritten
<1>3. CASE SaveBack
  <2>1. /\ up /\ link # NoLink /\ link' = [link EXCEPT !.prefix = Delivered(link)]
        /\ UNCHANGED <<base, starts, up>>
    BY <1>3 DEF SaveBack
  <2>2. link'.asset = link.asset /\ link'.prefix = Delivered(link)
    BY <1>1, <2>1
  <2> QED
    BY <1>1, <2>1, <2>2 DEF LinkInv, Delivered
<1>4. ASSUME NEW a \in Assets, SaveLink(a) PROVE LinkInv'
  BY <1>1, <1>4 DEF SaveLink, LinkInv
<1>5. CASE Crash
  BY <1>1, <1>5 DEF Crash, LinkInv
<1>6. CASE UNCHANGED <<link, base, starts, up>>
  BY <1>6 DEF LinkInv
<1>7. CASE ~Start /\ ~SaveBack /\ ~(\E a \in Assets : SaveLink(a)) /\ ~Crash
  BY <1>6, <1>7 DEF Next, vars, Submit, WriteFile, CopyFile, FillFile, InsertRow,
     InsertCopy, CleanUp,
     RestoreFile, Fill, SaveRow, FindRow, ReadFile, Receive
<1> QED
  BY <1>2, <1>3, <1>4, <1>5, <1>7

\* However often the server starts, crashes and saves back what it delivered,
\* the base path precedes a URL once per start at most (MigrateToFullAssetPaths).
THEOREM PrefixBoundedTheorem ==
  ASSUME AssetAssumption
  PROVE  Spec => []PrefixBounded
<1>1. Init => LinkInv
  BY DEF Init, LinkInv
<1>2. TypeOK /\ LinkInv /\ [Next]_vars => LinkInv'
  BY NextKeepsLinkInv, AssetAssumption
<1>3. TypeOK /\ LinkInv => PrefixBounded
  <2> SUFFICES ASSUME TypeOK, LinkInv, link # NoLink
               PROVE  Delivered(link) \in base .. base * starts
    BY DEF PrefixBounded
  <2>1. starts \in Nat /\ starts >= 1 /\ link.prefix \in Nat
    BY DEF TypeOK, LinkInv
  <2>2. CASE base = 0
    BY <2>1, <2>2 DEF LinkInv, Delivered
  <2>3. CASE base = 1
    BY <2>1, <2>3 DEF LinkInv, Delivered
  <2> QED
    BY <2>2, <2>3 DEF TypeOK
<1> QED
  BY <1>1, <1>2, <1>3, TypeCorrect, PTL DEF Spec

\* So what the run asset_paths finds takes a base path and a second start: up
\* to the first start, or without a base path, the path is the one served.
THEOREM DeliveredPathServedTheorem ==
  ASSUME AssetAssumption
  PROVE  Spec => [](starts <= 1 \/ base = 0 => DeliveredPathServed)
<1>1. TypeOK /\ PrefixBounded => (starts <= 1 \/ base = 0 => DeliveredPathServed)
  <2> SUFFICES ASSUME TypeOK, PrefixBounded, starts <= 1 \/ base = 0, link # NoLink
               PROVE  Delivered(link) = base
    BY DEF DeliveredPathServed
  <2>1. Delivered(link) \in base .. base * starts /\ base \in {0, 1} /\ starts \in Nat
    BY DEF PrefixBounded, TypeOK
  <2>2. CASE base = 0
    BY <2>1, <2>2
  <2>3. CASE base = 1
    BY <2>1, <2>3
  <2> QED
    BY <2>1, <2>2, <2>3
<1> QED
  BY <1>1, TypeCorrect, PrefixBoundedTheorem, PTL
=============================================================================
