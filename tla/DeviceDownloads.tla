---------------------------- MODULE DeviceDownloads ----------------------------
(* Saving downloads to a device: apps/web/src/downloads.ts, the two views that   *)
(* drive it (views/DetailView.tsx, views/DownloadsView.tsx), the offline         *)
(* library's list of offline.ts and views/OfflineView.tsx, over the download      *)
(* rows of the API.  A flow is one click that creates, waits for, saves and       *)
(* records a download; its row, the bytes and the two local records change at     *)
(* different moments, and the user may delete in between.                         *)
EXTENDS Naturals, FiniteSets

CONSTANTS MaxRows,   \* bound: download rows the server creates
          MaxFaults  \* bound: builds and saves that fail, files lost

(* What the constants must satisfy, whoever instantiates the module. *)
DeviceDownloadsAssumption == MaxRows \in Nat /\ MaxFaults \in Nat

Rows == 1..MaxRows

VARIABLES row,      \* server: "none", "building", "ready", "failed" or "gone"
          flow,     \* what the page does with a row: "off", "waits" or "saves"
          records,  \* the flow is DetailView's, which records what it saved
          disk,     \* rows whose bytes are on the device
          lost,     \* rows whose bytes were there and are not any more
          local,    \* hokago_local_downloads
          manifest, \* hokago_offline_library
          listing,  \* reconcileOfflineManifest: what downloads.list answered, or NoList
          deleting, \* DELETE requests on their way
          faults

vars == <<row, flow, records, disk, lost, local, manifest, listing, deleting, faults>>
device == <<disk, lost, local, manifest>>
NoList == [at |-> "off", files |-> {}]

Init ==
    /\ row = [r \in Rows |-> "none"] /\ flow = [r \in Rows |-> "off"] /\ records = {}
    /\ disk = {} /\ lost = {} /\ local = {} /\ manifest = {}
    /\ listing = NoList /\ deleting = {} /\ faults = 0

-----------------------------------------------------------------------------
(* The server's side.                                                         *)

Unborn == {r \in Rows : row[r] = "none"}
NewRow == CHOOSE r \in Unborn : \A q \in Unborn : r <= q

Built(r) ==
    /\ row[r] = "building"
    /\ \/ row' = [row EXCEPT ![r] = "ready"] /\ UNCHANGED faults
       \/ faults < MaxFaults /\ row' = [row EXCEPT ![r] = "failed"] /\ faults' = faults + 1
    /\ UNCHANGED <<flow, records, device, listing, deleting>>

DeleteLands(r) ==
    /\ r \in deleting /\ deleting' = deleting \ {r}
    /\ row' = [row EXCEPT ![r] = "gone"]
    /\ UNCHANGED <<flow, records, device, listing, faults>>

-----------------------------------------------------------------------------
(* The flows.                                                                 *)

\* createDownload: DetailView's button, or the retry of a failed row in
\* DownloadsView, which makes a new row and leaves the failed one.
Create(fromDetail) ==
    /\ Unborn # {} /\ (fromDetail \/ \E r \in Rows : row[r] = "failed")
    /\ row' = [row EXCEPT ![NewRow] = "building"]
    /\ flow' = [flow EXCEPT ![NewRow] = "waits"]
    /\ records' = IF fromDetail THEN records \cup {NewRow} ELSE records
    /\ UNCHANGED <<device, listing, deleting, faults>>

\* waitReady polls; a row that is gone keeps it polling until the time-out.
Waited(r) ==
    /\ flow[r] = "waits"
    /\ flow' = [flow EXCEPT ![r] = IF row[r] = "ready" THEN "saves" ELSE "off"]
    /\ UNCHANGED <<row, records, device, listing, deleting, faults>>

\* DownloadsView's "Save to this device".
Start(r) ==
    /\ row[r] = "ready" /\ flow[r] = "off" /\ r \notin local
    /\ flow' = [flow EXCEPT ![r] = "saves"] /\ records' = records \ {r}
    /\ UNCHANGED <<row, device, listing, deleting, faults>>

\* The bytes arrive; DetailView's flow records them in the same turn.
RecordEarly(r) ==
    /\ flow[r] = "saves" /\ row[r] = "ready"
    /\ flow' = [flow EXCEPT ![r] = "off"]
    /\ disk' \in {disk, disk \cup {r}}
    /\ IF r \in records
         THEN local' = local \cup {r} /\ manifest' = manifest \cup {r}
         ELSE UNCHANGED <<local, manifest>>
    /\ lost' = lost \ {r}
    /\ UNCHANGED <<row, records, listing, deleting, faults>>
Saved(r) ==
    /\ flow[r] = "saves"
    /\ flow' = [flow EXCEPT ![r] = "off"]
    /\ disk' = disk \cup {r}
    /\ IF r \in records
         THEN local' = local \cup {r} /\ manifest' = manifest \cup {r}
         ELSE UNCHANGED <<local, manifest>>
    /\ lost' = lost \ {r}
    /\ UNCHANGED <<row, records, listing, deleting, faults>>

SaveFails(r) ==
    /\ flow[r] = "saves" /\ (row[r] # "ready" \/ faults < MaxFaults)
    /\ flow' = [flow EXCEPT ![r] = "off"]
    /\ faults' = IF row[r] = "ready" THEN faults + 1 ELSE faults
    /\ UNCHANGED <<row, records, device, listing, deleting>>

\* The page is reloaded or closed.
Leave ==
    /\ flow' = [r \in Rows |-> "off"] /\ listing' = NoList /\ <<flow, listing>>' # <<flow, listing>>
    /\ UNCHANGED <<row, records, device, deleting, faults>>

-----------------------------------------------------------------------------
(* Deleting and the offline library.                                          *)

\* deleteDownload forgets first and asks the server afterwards; the bytes stay.
Delete(r) ==
    /\ row[r] \in {"building", "ready", "failed"} /\ r \notin deleting
    /\ local' = local \ {r} /\ manifest' = manifest \ {r}
    /\ deleting' = deleting \cup {r}
    /\ UNCHANGED <<row, flow, records, disk, lost, listing, faults>>

\* OfflineView's and the offline player's "Remove from this device".
Forget(r) ==
    /\ r \in manifest /\ manifest' = manifest \ {r}
    /\ UNCHANGED <<row, flow, records, disk, lost, local, listing, deleting, faults>>

\* reconcileOfflineManifest: the files first, the manifest when they are known.
List ==
    /\ listing = NoList /\ listing' = [at |-> "read", files |-> disk]
    /\ UNCHANGED <<row, flow, records, device, deleting, faults>>

Reconcile ==
    /\ listing # NoList
    /\ manifest' = manifest \cap listing.files /\ listing' = NoList
    /\ UNCHANGED <<row, flow, records, disk, lost, local, deleting, faults>>

\* A file is deleted outside the app.
LoseFile(r) ==
    /\ r \in disk /\ faults < MaxFaults
    /\ disk' = disk \ {r} /\ lost' = lost \cup {r} /\ faults' = faults + 1
    /\ UNCHANGED <<row, flow, records, local, manifest, listing, deleting>>

Next ==
    \/ Create(TRUE) \/ Create(FALSE) \/ Leave \/ List \/ Reconcile
    \/ \E r \in Rows : \/ Built(r) \/ DeleteLands(r) \/ Waited(r) \/ Start(r) \/ Saved(r)
                       \/ SaveFails(r) \/ Delete(r) \/ Forget(r) \/ LoseFile(r)

Spec == Init /\ [][Next]_vars

-----------------------------------------------------------------------------
(* Properties.                                                                *)

TypeOK ==
    /\ row \in [Rows -> {"none", "building", "ready", "failed", "gone"}]
    /\ flow \in [Rows -> {"off", "waits", "saves"}] /\ records \subseteq Rows
    /\ disk \subseteq Rows /\ lost \subseteq Rows /\ disk \cap lost = {}
    /\ local \subseteq Rows /\ manifest \subseteq Rows
    /\ listing.at \in {"off", "read"} /\ listing.files \subseteq Rows
    /\ deleting \subseteq Rows /\ faults \in 0..MaxFaults

\* The offline library lists a download only if its bytes were saved: without
\* the file leaving behind the app's back, every entry plays with no server.
EntriesArePlayable == manifest \subseteq disk \cup lost
=============================================================================
