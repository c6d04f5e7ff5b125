----------------------------- MODULE Downloader -----------------------------
(***************************************************************************)
(* torrent-downloader and the qBittorrent behind it, as the orchestrator   *)
(* sees them: the transfer list, the download folders, and the completion  *)
(* hook.  External: what it may do is read off the calls src/ makes and    *)
(* the transfer states it tells apart.                                     *)
(***************************************************************************)
EXTENDS JobStore

VARIABLES
  qbt,     \* hash -> state of its transfer
  staged,  \* hash -> what its download folder holds
  hooks    \* hashes whose completion hook is on its way

downloaderVars == <<qbt, staged, hooks>>

\* "queued" stands for every state that is neither fetching, failed nor complete.
TransferState == {"absent", "queued", "downloading", "error", "complete"}
Content == {"none", "partial", "full"}

DownloaderInit ==
  /\ qbt = [h \in Hashes |-> "absent"]
  /\ staged = [h \in Hashes |-> "none"]
  /\ hooks = {}

DownloaderTypeOK ==
  /\ qbt \in [Hashes -> TransferState]
  /\ staged \in [Hashes -> Content]
  /\ hooks \subseteq Hashes

\* What a job of this media type finds of torrent h: a download lands in the staging
\* folder of the media type it was asked for with.
Folder(media, h) == IF MediaOf[h] = media THEN staged[h] ELSE "none"

\* The effects of the client's calls.  An add of a known torrent is deduplicated; a
\* removal of an unknown one succeeds.
Add(h) == qbt' = [qbt EXCEPT ![h] = IF @ = "absent" THEN "queued" ELSE @]
Remove(h) == qbt' = [qbt EXCEPT ![h] = "absent"]
Resume(h) == qbt' = [qbt EXCEPT ![h] = IF @ = "error" THEN "downloading" ELSE @]

TransferStarts(h) ==
  /\ qbt[h] = "queued"
  /\ qbt' = [qbt EXCEPT ![h] = "downloading"]
  /\ staged' = [staged EXCEPT ![h] = IF @ = "none" THEN "partial" ELSE @]
  /\ UNCHANGED <<hooks, storeVars>>

TransferErrors(h) ==
  /\ qbt[h] = "downloading"
  /\ qbt' = [qbt EXCEPT ![h] = "error"]
  /\ UNCHANGED <<staged, hooks, storeVars>>

\* qBittorrent runs the completion command, scripts/notify_complete.py, once.
TransferCompletes(h) ==
  /\ qbt[h] = "downloading"
  /\ qbt' = [qbt EXCEPT ![h] = "complete"]
  /\ staged' = [staged EXCEPT ![h] = "full"]
  /\ hooks' = hooks \cup {h}
  /\ UNCHANGED storeVars

\* Someone adds the torrent in qBittorrent itself, past the orchestrator.
AddedByHand(h) ==
  /\ qbt[h] = "absent"
  /\ Add(h)
  /\ UNCHANGED <<staged, hooks, storeVars>>

\* Someone removes the torrent in qBittorrent itself, with or without its files.
RemovedByHand(h) ==
  /\ qbt[h] # "absent"
  /\ Remove(h)
  /\ staged' \in {staged, [staged EXCEPT ![h] = "none"]}
  /\ UNCHANGED <<hooks, storeVars>>

\* The relay posts once and gives up on an error: no retry.
HookLost(h) ==
  /\ h \in hooks
  /\ hooks' = hooks \ {h}
  /\ UNCHANGED <<qbt, staged, storeVars>>
=============================================================================
