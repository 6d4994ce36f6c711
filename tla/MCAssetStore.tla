---------------------------- MODULE MCAssetStore ----------------------------
(* Model-checking instance of AssetStore: an upload, a copy, an asset from   *)
(* another installation, an import and a reader, under both storages.        *)
EXTENDS AssetStore
CONSTANTS u1, c1, f1, i1, r1

MCUploads == {u1, c1}
OneUpload == {u1}
MCCopies == {c1}
NoCopies == {}
MCForeign == {f1}
MCRestores == {i1}
MCReaders == {r1}
============================================================================
