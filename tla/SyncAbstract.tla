---------------------------- MODULE SyncAbstract ----------------------------
(***************************************************************************)
(* What the sync state machine of sync.go promises, seen from its status   *)
(* and its peer-sync bookkeeping only (spec 4.1 and 8):                    *)
(*  - from Init the node either fast-syncs or goes straight to Normal;     *)
(*  - a fast sync ends in Normal, or fails back to Init;                   *)
(*  - a peer sync starts only from Normal, with no other peer sync         *)
(*    running, and only with a peer whose started flag is clear; it sets   *)
(*    the flag;                                                            *)
(*  - a finished peer sync clears the flag; a failed one keeps it and      *)
(*    puts the peer in cooldown, and only the end of the cooldown clears   *)
(*    it.                                                                  *)
(* Who runs, when and on which goroutine is left out.                      *)
(***************************************************************************)
CONSTANTS Peers

VARIABLES
  status,    \* the sync status
  syncing,   \* the peers a peer sync runs with
  started,   \* the peers whose peerSyncStarted flag is set
  cooling    \* the peers in cooldown after a failed peer sync

avars == <<status, syncing, started, cooling>>

AInit ==
  /\ status = "Init"
  /\ syncing = {} /\ started = {} /\ cooling = {}

StartFastSync ==
  /\ status = "Init" /\ status' = "FastSync"
  /\ UNCHANGED <<syncing, started, cooling>>

SkipFastSync ==
  /\ status = "Init" /\ status' = "Normal"
  /\ UNCHANGED <<syncing, started, cooling>>

FastSyncDone ==
  /\ status = "FastSync" /\ status' = "Normal"
  /\ UNCHANGED <<syncing, started, cooling>>

FastSyncFailed ==
  /\ status = "FastSync" /\ status' = "Init"
  /\ UNCHANGED <<syncing, started, cooling>>

StartPeerSync(p) ==
  /\ status = "Normal" /\ syncing = {} /\ p \notin started
  /\ status' = "PeerSync"
  /\ syncing' = {p}
  /\ started' = started \cup {p}
  /\ UNCHANGED cooling

PeerSyncDone(p) ==
  /\ status = "PeerSync" /\ syncing = {p}
  /\ status' = "Normal"
  /\ syncing' = {}
  /\ started' = started \ {p}
  /\ UNCHANGED cooling

PeerSyncFailed(p) ==
  /\ status = "PeerSync" /\ syncing = {p}
  /\ status' = "Normal"
  /\ syncing' = {}
  /\ cooling' = cooling \cup {p}
  /\ UNCHANGED started

CooldownOver(p) ==
  /\ p \in cooling
  /\ cooling' = cooling \ {p}
  /\ started' = started \ {p}
  /\ UNCHANGED <<status, syncing>>

ANext ==
  \/ StartFastSync \/ SkipFastSync \/ FastSyncDone \/ FastSyncFailed
  \/ \E p \in Peers :
       StartPeerSync(p) \/ PeerSyncDone(p) \/ PeerSyncFailed(p)
       \/ CooldownOver(p)

ASpec == AInit /\ [][ANext]_avars

=============================================================================
