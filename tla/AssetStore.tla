----------------------------- MODULE AssetStore -----------------------------
(***************************************************************************)
(* Uploaded assets: the rows of the asset table and the files they point   *)
(* to, on local disk or in MinIO (biz/service/asset_service.go), their     *)
(* restoration from an archive (the last loop of the imports in            *)
(* transfer_service.go), the copies a migration makes of them (the same    *)
(* file, copyConfigAssets), reading them back, and the rewriting of image  *)
(* paths when the server starts (MigrateToFullAssetPaths, service.go).     *)
(* One action per file operation or SQL statement; no operation is atomic  *)
(* and none takes part in a transaction.                                   *)
(*                                                                         *)
(* An asset has one file name.  os.WriteFile truncates and then writes, so *)
(* a file on disk may be partial; an object in MinIO is put whole.         *)
(***************************************************************************)
EXTENDS Naturals

CONSTANTS
    Uploads,      \* upload requests; each makes one asset, under its own UUID
    Copies,       \* those of them that are made by a migration instead
    Foreign,      \* assets an archive may bring from another installation
    Restores,     \* imports that restore assets
    Readers,      \* requests for a file
    MaxUploadSize,
    MaxStarts,    \* bound on the starts of the server
    NoAsset

Assets == Uploads \cup Foreign

ASSUME AssetAssumption ==
    /\ NoAsset \notin Assets /\ Uploads \cap Foreign = {} /\ Copies \subseteq Uploads
    /\ MaxUploadSize \in Nat \ {0}
    /\ MaxStarts \in Nat

VARIABLES
    storage,   \* the configured storage: "disk" (local) or "minio"
    base,      \* is the server mounted under a base path: 1 or 0
    starts,    \* number of starts so far
    up,        \* is the server running
    row,       \* per asset, where its row's Path leads; "none" without a row
    disk,      \* per asset, its file under data/uploads
    bucket,    \* the assets with an object in MinIO
    upload,    \* the statement each upload is about to run, then its answer
    restore,   \* per import, the asset it restores and its next statement
    reader,    \* per reader, the asset, where its row led, and what it got
    link,      \* an image configuration: the asset, and how many times the
               \* base path precedes its URL
    broken     \* history: assets whose upload or restoration failed or crashed
               \* after it had touched the file, and copies of unfinished files

vars == <<storage, base, starts, up, row, disk, bucket, upload, restore,
          reader, link, broken>>
files == <<row, disk, bucket>>

Places == {"disk", "minio"}
NoRestore == [asset |-> NoAsset, at |-> "idle"]
NoReader == [asset |-> NoAsset, path |-> "none", got |-> "nothing"]
NoLink == [asset |-> NoAsset, prefix |-> 0]

TypeOK ==
    /\ storage \in Places /\ base \in 0 .. 1 /\ starts \in 0 .. MaxStarts
    /\ up \in BOOLEAN
    /\ row \in [Assets -> {"none"} \cup Places]
    /\ disk \in [Assets -> {"none", "partial", "whole"}]
    /\ bucket \in SUBSET Assets
    /\ upload \in [Uploads -> {"new", "write", "fill", "insert", "clean",
                               "refused", "error", "ok", "crashed"}]
    /\ restore \in [Restores -> [asset : Assets \cup {NoAsset},
                                 at : {"idle", "fill", "save"}]]
    /\ \A i \in Restores : restore[i].at # "idle" => restore[i].asset \in Assets
    /\ reader \in [Readers -> [asset : Assets \cup {NoAsset},
                               path : {"none"} \cup Places,
                               got : {"nothing", "partial", "whole"}]]
    /\ link \in [asset : Assets \cup {NoAsset}, prefix : Nat]
    /\ broken \in SUBSET Assets

Init ==
    /\ storage \in Places /\ base \in 0 .. 1
    /\ starts = 0 /\ up = FALSE
    /\ row = [a \in Assets |-> "none"]
    /\ disk = [a \in Assets |-> "none"]
    /\ bucket = {}
    /\ upload = [u \in Uploads |-> "new"]
    /\ restore = [i \in Restores |-> NoRestore]
    /\ reader = [r \in Readers |-> NoReader]
    /\ link = NoLink
    /\ broken = {}

-----------------------------------------------------------------------------
(* Uploads.                                                                *)

Reach(u, label) == upload' = [upload EXCEPT ![u] = label]

\* Sizes: the declared length of the request, then the length of the part and
\* of what is read of it, which the service refuses when it is zero.
Accepted(declared, size) ==
    declared <= MaxUploadSize /\ size # 0 /\ size <= MaxUploadSize

Submit(u) ==
    /\ up /\ upload[u] = "new" /\ u \notin Copies
    /\ \E declared, size \in 0 .. MaxUploadSize + 1, allowed \in BOOLEAN :
         Reach(u, IF Accepted(declared, size) /\ allowed THEN "write" ELSE "refused")
    /\ UNCHANGED <<storage, base, starts, up, files, restore, reader, link, broken>>

\* PutObject, or the first half of WriteFile; either may fail.
WriteFile(u) ==
    /\ upload[u] = "write"
    /\ \/ /\ storage = "minio" /\ bucket' = bucket \cup {u}
          /\ Reach(u, "insert") /\ UNCHANGED disk
       \/ /\ storage = "disk" /\ disk' = [disk EXCEPT ![u] = "partial"]
          /\ Reach(u, "fill") /\ UNCHANGED bucket
       \/ Reach(u, "error") /\ UNCHANGED <<disk, bucket>>
    /\ UNCHANGED <<storage, base, starts, up, row, restore, reader, link, broken>>

\* copyConfigAssets reads the file of another asset where its path leads on
\* disk, whatever the configured storage and also while the file is being
\* rewritten, and writes it under a new id.
CopyFile(u) ==
    /\ up /\ upload[u] = "new" /\ u \in Copies
    /\ \E a \in Assets :
         /\ row[a] = "disk" /\ disk[a] # "none"
         /\ \/ /\ disk' = [disk EXCEPT ![u] = "partial"] /\ Reach(u, "fill")
               /\ broken' = IF disk[a] = "partial" THEN broken \cup {u} ELSE broken
            \/ Reach(u, "error") /\ UNCHANGED <<disk, broken>>
    /\ UNCHANGED <<storage, base, starts, up, row, bucket, restore, reader, link>>

\* Mutant of FillFile: the error of WriteFile is not looked at.
FillFileCareless(u) ==
    /\ upload[u] = "fill"
    /\ \/ disk' = [disk EXCEPT ![u] = "whole"]
       \/ UNCHANGED disk
    /\ Reach(u, "insert")
    /\ UNCHANGED <<storage, base, starts, up, row, bucket, restore, reader, link, broken>>

\* What the copy of an unfinished file comes to.
Bytes(u) == IF u \in Copies \cap broken THEN "partial" ELSE "whole"

\* The rest of WriteFile; when it fails the partial file stays.
FillFile(u) ==
    /\ upload[u] = "fill"
    /\ \/ disk' = [disk EXCEPT ![u] = Bytes(u)] /\ Reach(u, "insert")
       \/ Reach(u, "error") /\ UNCHANGED disk
    /\ broken' = IF upload'[u] = "error" THEN broken \cup {u} ELSE broken
    /\ UNCHANGED <<storage, base, starts, up, row, bucket, restore, reader, link>>

\* CreateAsset; its error may follow a commit whose answer was lost.
InsertRow(u) ==
    /\ upload[u] = "insert" /\ u \notin Copies
    /\ \/ row' = [row EXCEPT ![u] = storage] /\ Reach(u, "ok")
       \/ row' = [row EXCEPT ![u] = storage] /\ Reach(u, "clean")
       \/ Reach(u, "clean") /\ UNCHANGED row
    /\ UNCHANGED <<storage, base, starts, up, disk, bucket, restore, reader, link, broken>>

\* The same of a copy, whose path is always one on disk and whose file stays
\* when it fails.
InsertCopy(u) ==
    /\ upload[u] = "insert" /\ u \in Copies
    /\ \/ /\ row' = [row EXCEPT ![u] = "disk"] /\ Reach(u, "ok")
          /\ UNCHANGED broken
       \/ /\ row' \in {row, [row EXCEPT ![u] = "disk"]} /\ Reach(u, "error")
          /\ broken' = broken \cup {u}
    /\ UNCHANGED <<storage, base, starts, up, disk, bucket, restore, reader, link>>

\* Mutant of CleanUp: an upload that failed leaves its file behind.
CleanUpNothing(u) ==
    /\ upload[u] = "clean"
    /\ Reach(u, "error")
    /\ UNCHANGED <<storage, base, starts, up, files, restore, reader, link, broken>>

\* The file is removed again, if that does not fail, and the upload refused.
CleanUp(u) ==
    /\ upload[u] = "clean"
    /\ \/ /\ disk' = [disk EXCEPT ![u] = "none"]
          /\ bucket' = bucket \ {u}
          /\ UNCHANGED broken
       \/ broken' = broken \cup {u} /\ UNCHANGED <<disk, bucket>>
    /\ Reach(u, "error")
    /\ UNCHANGED <<storage, base, starts, up, row, restore, reader, link>>

-----------------------------------------------------------------------------
(* Restoration of the assets of an archive, one after the other.           *)

At(i, a, label) == restore' = [restore EXCEPT ![i] = [asset |-> a, at |-> label]]

\* Truncates the file of an asset that is already there, too.
RestoreFile(i) ==
    /\ up /\ restore[i].at = "idle"
    /\ \E a \in Assets :
         /\ a \in Foreign \/ row[a] # "none"    \* only these are in archives
         /\ disk' = [disk EXCEPT ![a] = "partial"]
         /\ At(i, a, "fill")
    /\ UNCHANGED <<storage, base, starts, up, row, bucket, upload, reader, link, broken>>

Fill(i) ==
    LET a == restore[i].asset IN
    /\ restore[i].at = "fill"
    /\ \/ /\ disk' = [disk EXCEPT ![a] = "whole"]
          /\ At(i, a, "save") /\ UNCHANGED broken
       \/ /\ broken' = broken \cup {a}
          /\ At(i, NoAsset, "idle") /\ UNCHANGED disk
    /\ UNCHANGED <<storage, base, starts, up, row, bucket, upload, reader, link>>

\* UpdateAsset, or CreateAsset when there is no row: Path is always the one on
\* disk, whatever the configured storage.  An error is dropped.
SaveRow(i) ==
    /\ restore[i].at = "save"
    /\ \/ row' = [row EXCEPT ![restore[i].asset] = "disk"] /\ UNCHANGED broken
       \/ broken' = broken \cup {restore[i].asset} /\ UNCHANGED row
    /\ At(i, NoAsset, "idle")
    /\ UNCHANGED <<storage, base, starts, up, disk, bucket, upload, reader, link>>

-----------------------------------------------------------------------------
(* Readers: GetAssetFile and the packer of static archives.                *)

FindRow(r) ==
    /\ up /\ reader[r].path = "none"
    /\ \E a \in Assets :
         /\ row[a] # "none"
         /\ reader' = [reader EXCEPT ![r] =
              [asset |-> a, path |-> row[a], got |-> "nothing"]]
    /\ UNCHANGED <<storage, base, starts, up, files, upload, restore, link, broken>>

\* Opened in the configured storage, which the path need not lead to.
Content(a, path) ==
    IF path # storage THEN "nothing"
    ELSE IF storage = "minio" THEN (IF a \in bucket THEN "whole" ELSE "nothing")
    ELSE IF disk[a] = "none" THEN "nothing" ELSE disk[a]

ReadFile(r) ==
    /\ reader[r].path # "none" /\ reader[r].got = "nothing"
    /\ reader' = [reader EXCEPT ![r] =
         IF Content(@.asset, @.path) = "nothing" THEN NoReader
         ELSE [@ EXCEPT !.got = Content(reader[r].asset, reader[r].path)]]
    /\ UNCHANGED <<storage, base, starts, up, files, upload, restore, link, broken>>

Receive(r) ==
    /\ reader[r].got # "nothing"
    /\ reader' = [reader EXCEPT ![r] = NoReader]
    /\ UNCHANGED <<storage, base, starts, up, files, upload, restore, link, broken>>

-----------------------------------------------------------------------------
(* Image configurations and the server's starts.                           *)

\* validateConfigContent turns asset://id into a URL; the console may also save
\* what it was shown.
Delivered(l) == IF l.prefix = 0 THEN base ELSE l.prefix

SaveLink(a) ==
    /\ up
    /\ link' = [asset |-> a, prefix |-> 0]
    /\ UNCHANGED <<storage, base, starts, up, files, upload, restore, reader, broken>>

SaveBack ==
    /\ up /\ link # NoLink
    /\ link' = [link EXCEPT !.prefix = Delivered(link)]
    /\ UNCHANGED <<storage, base, starts, up, files, upload, restore, reader, broken>>

\* Mutant of Rewritten: the base path is taken off, as if every URL had it.
RewrittenShorter(l) ==
    IF l.asset = NoAsset \/ row[l.asset] = "none" THEN l
    ELSE [l EXCEPT !.prefix = @ - base]

\* MigrateToFullAssetPaths puts the base path in front of every URL it knows
\* the asset of, again at every start; an error is only logged.
Rewritten(l) ==
    IF l.asset = NoAsset \/ row[l.asset] = "none" THEN l
    ELSE [l EXCEPT !.prefix = @ + base]

Start ==
    /\ ~up /\ starts < MaxStarts
    /\ up' = TRUE /\ starts' = starts + 1
    /\ link' \in {link, Rewritten(link)}
    /\ UNCHANGED <<storage, base, files, upload, restore, reader, broken>>

InFlight == {u \in Uploads : upload[u] \in {"write", "fill", "insert", "clean"}}
Restored == {restore[i].asset : i \in {j \in Restores : restore[j].at # "idle"}}

Crash ==
    /\ up /\ up' = FALSE
    /\ upload' = [u \in Uploads |-> IF u \in InFlight THEN "crashed" ELSE upload[u]]
    /\ restore' = [i \in Restores |-> NoRestore]
    /\ reader' = [r \in Readers |-> NoReader]
    /\ broken' = broken \cup Restored \cup InFlight
    /\ UNCHANGED <<storage, base, starts, files, link>>

Next ==
    \/ \E u \in Uploads : \/ Submit(u) \/ WriteFile(u) \/ CopyFile(u) \/ FillFile(u)
                          \/ InsertRow(u) \/ InsertCopy(u) \/ CleanUp(u)
    \/ \E i \in Restores : RestoreFile(i) \/ Fill(i) \/ SaveRow(i)
    \/ \E r \in Readers : FindRow(r) \/ ReadFile(r) \/ Receive(r)
    \/ \E a \in Assets : SaveLink(a)
    \/ SaveBack \/ Start \/ Crash

Spec == Init /\ [][Next]_vars

-----------------------------------------------------------------------------
Filling(a) == \E i \in Restores : restore[i].asset = a /\ restore[i].at = "fill"

\* An upload that was answered "ok" can be opened ever after, and so can a copy:
\* its row exists and leads to its bytes.  Only the restoration of an archive can
\* undo that: it rewrites the file in place, and under MinIO moves the row's path
\* to the disk, where the path of a copy leads from the start.
UploadedOpens ==
    \A u \in Uploads :
      upload[u] = "ok" =>
        /\ row[u] # "none"
        /\ \/ Content(u, row[u]) = "whole"
           \/ Filling(u) \/ u \in broken
           \/ storage = "minio" /\ row[u] = "disk"

\* A file that no row leads to belongs to an operation still under way, or to
\* one that failed or crashed: UploadAsset cleans up after itself (a migration
\* does not: every copy whose row fails counts as failed).
OrphanHasCause ==
    \A a \in Assets :
      (disk[a] # "none" \/ a \in bucket) /\ row[a] = "none"
        => a \in InFlight \/ a \in Restored \/ a \in broken

\* A client gets a file whole, unless an import was writing it at that moment
\* or has left it unfinished, or a migration has copied it then: rows appear
\* only after their bytes.
ReadsWhole ==
    [][\A r \in Readers :
         reader'[r].got = "partial" /\ reader[r].got # "partial"
           => Filling(reader[r].asset) \/ reader[r].asset \in broken]_vars

\* "MigrateToFullAssetPaths ensures all asset URLs and config contents use the
\* full path with filename" (service.go): what is delivered is the path of the
\* asset under the base path.
DeliveredPathServed == link = NoLink \/ Delivered(link) = base
=============================================================================
