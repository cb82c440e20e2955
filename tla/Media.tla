------------------------------- MODULE Media -------------------------------
(***************************************************************************)
(* MediaService and MediaFolderService: files in Cloudinary, the rows that *)
(* name them, and the rows of images and of evidence that use an asset and *)
(* hold a key to it.  Names, captions, sizes and order are left out.       *)
(***************************************************************************)
EXTENDS Handlers, FiniteSetsExt

CONSTANTS
  AssetIds, FolderIds,   \* bounds: the assets and the folders there can be
  FolderPaths, FileKinds

VARIABLES
  assets,      \* media_asset by id
  stored,      \* the files in Cloudinary
  folders,     \* media_thu_muc by id; row 0 stands for an upload that names none
  attached,    \* the assets that yeu_cau_doi_tra_asset and the images of variants refer to
  tornFiles    \* auxiliary: files with a handler that ended between Cloudinary and the row

mediaVars == <<assets, stored, folders, attached, tornFiles>>

Files == AssetIds
Folder == [path : FolderPaths, accepts : FileKinds \cup {"all"}, private : BOOLEAN]
Asset == [file : Files, folder : FolderIds \cup {0}, archived : BOOLEAN, private : BOOLEAN]
NoFolder == [path |-> "misc", accepts |-> "all", private |-> FALSE]

MediaInit ==
  /\ assets = <<>> /\ stored = {} /\ attached = {} /\ tornFiles = {}
  /\ folders \in [{1} -> Folder]

FolderRows == [i \in DOMAIN folders \cup {0} |-> IF i = 0 THEN NoFolder ELSE folders[i]]
FreeAssets == AssetIds \ DOMAIN assets
FreeFiles ==
  Files \ (stored \cup {assets[i].file : i \in DOMAIN assets}
                  \cup {job[r].file : r \in {q \in Requests : pc[q] \in {"insert", "destroy", "delete"}}})
Without(f, i) == [k \in DOMAIN f \ {i} |-> f[k]]

-----------------------------------------------------------------------------
(* Uploads, and the rows that use an asset *)

\* upload, into a folder named by its id, active or not, or by its path, and
\* uploadCustomerEvidence: the folder and what it accepts ...
Upload(r) ==
  \E i \in DOMAIN FolderRows, kind \in FileKinds :
    LET f == FolderRows[i] IN
    /\ FreeAssets # {} /\ FreeFiles # {}
    /\ f.accepts \in {"all", kind}
    /\ Begin(r, "store", [folder |-> i, private |-> f.private]) /\ UNCHANGED mediaVars

\* ... uploadToCloudinary ...
Store(r) ==
  LET f == Min(FreeFiles \cup {Max(Files) + 1}) IN
  /\ pc[r] = "store" /\ f \in Files /\ stored' = stored \cup {f}
  /\ Continue(r, "insert", [folder |-> job[r].folder, private |-> job[r].private, file |-> f])
  /\ UNCHANGED <<assets, folders, attached, tornFiles>>

\* ... and the INSERT, which needs the folder.
InsertAsset(r) ==
  LET i == Min(FreeAssets \cup {Max(AssetIds) + 1}) IN
  /\ pc[r] = "insert" /\ i \in AssetIds /\ job[r].folder \in DOMAIN FolderRows
  /\ assets' = [k \in DOMAIN assets \cup {i} |->
       IF k # i THEN assets[k]
       ELSE [file |-> job[r].file, folder |-> job[r].folder, archived |-> FALSE, private |-> job[r].private]]
  /\ Finish(r) /\ UNCHANGED <<stored, folders, attached, tornFiles>>

\* addReturnAsset and the creation of a return, the INSERT of saveVariantMedia; and its
\* DELETE.
Attach(r, i) == AtOnce(r) /\ attached' = attached \cup {i} /\ UNCHANGED <<assets, stored, folders, tornFiles>>
Detach(r, i) == AtOnce(r) /\ attached' = attached \ {i} /\ UNCHANGED <<assets, stored, folders, tornFiles>>

-----------------------------------------------------------------------------
(* The library *)

\* so_lan_su_dung, which nothing ever counts up.
soLanSuDung(i) == 0

\* remove: the row and its uses ...
RemoveAsset(r, i) ==
  /\ ~(soLanSuDung(i) > 0)
  /\ Begin(r, "destroy", [id |-> i, file |-> assets[i].file]) /\ UNCHANGED mediaVars

\* ... the file ...
Destroy(r) ==
  /\ pc[r] = "destroy" /\ stored' = stored \ {job[r].file}
  /\ Continue(r, "delete", job[r]) /\ UNCHANGED <<assets, folders, attached, tornFiles>>

\* ... and the DELETE, which the keys to the row refuse.
DeleteAsset(r) ==
  /\ pc[r] = "delete" /\ job[r].id \notin attached
  /\ assets' = Without(assets, job[r].id) /\ Finish(r)
  /\ UNCHANGED <<stored, folders, attached, tornFiles>>

\* update and archive: the row is loaded ...
EditAsset(r, i) ==
  \E archived \in {assets[i].archived, TRUE} :
    /\ Begin(r, "save", [id |-> i, row |-> [assets[i] EXCEPT !.archived = archived]])
    /\ UNCHANGED mediaVars

\* ... and saved whole, inserted again if it is gone, unless its folder is gone then.
SaveAsset(r) ==
  LET i == job[r].id IN
  /\ pc[r] = "save" /\ job[r].row.folder \in DOMAIN FolderRows
  /\ assets' = [k \in DOMAIN assets \cup {i} |-> IF k = i THEN job[r].row ELSE assets[k]]
  /\ Finish(r) /\ UNCHANGED <<stored, folders, attached, tornFiles>>

\* create and update of a folder: the check and the save, of a path that the unique key
\* guards as well.
SaveFolder(r, i, f) ==
  /\ \A k \in DOMAIN folders \ {i} : folders[k].path # f.path
  /\ AtOnce(r) /\ folders' = [k \in DOMAIN folders \cup {i} |-> IF k = i THEN f ELSE folders[k]]
  /\ UNCHANGED <<assets, stored, attached, tornFiles>>

\* The key of an asset to its folder is set to NULL.
RemoveFolder(r, i) ==
  /\ AtOnce(r) /\ folders' = Without(folders, i)
  /\ assets' = [k \in DOMAIN assets |-> IF assets[k].folder = i THEN [assets[k] EXCEPT !.folder = 0] ELSE assets[k]]
  /\ UNCHANGED <<stored, attached, tornFiles>>

\* An error, also one of Cloudinary or of a key, or a crash.
Abandon(r) ==
  /\ GiveUp(r)
  /\ tornFiles' = IF pc[r] \in {"insert", "delete"} THEN tornFiles \cup {job[r].file} ELSE tornFiles
  /\ UNCHANGED <<assets, stored, folders, attached>>

Next == \E r \in Requests :
  \/ Upload(r) \/ Store(r) \/ InsertAsset(r) \/ Destroy(r) \/ DeleteAsset(r) \/ SaveAsset(r) \/ Abandon(r)
  \/ \E i \in DOMAIN assets : RemoveAsset(r, i) \/ EditAsset(r, i) \/ Attach(r, i) \/ Detach(r, i)
  \/ \E i \in FolderIds, f \in Folder : SaveFolder(r, i, f)
  \/ \E i \in DOMAIN folders : RemoveFolder(r, i)

-----------------------------------------------------------------------------
TypeOK ==
  /\ DOMAIN assets \subseteq AssetIds /\ \A i \in DOMAIN assets : assets[i] \in Asset
  /\ DOMAIN folders \subseteq FolderIds /\ \A i \in DOMAIN folders : folders[i] \in Folder
  /\ \A i \in DOMAIN assets : assets[i].folder \in DOMAIN FolderRows
  /\ stored \subseteq Files /\ tornFiles \subseteq Files /\ attached \subseteq DOMAIN assets

\* While handlers do not overlap, the library lists the files there are, each once, but for
\* those with a handler that ended between Cloudinary and the row.
LibraryMatchesStore ==
  (\A r \in Requests : pc[r] = "idle") =>
    /\ {assets[i].file : i \in DOMAIN assets} \ tornFiles = stored \ tornFiles
    /\ \A i, k \in DOMAIN assets : assets[i].file = assets[k].file => i = k

\* "Track so_lan_su_dung -- prevent delete if in use": an asset that something refers to
\* keeps its file.  It does not: nothing counts the uses.
AssetInUseIsKept ==
  (\A r \in Requests : pc[r] = "idle") => \A i \in attached : assets[i].file \in stored
=============================================================================
