---------------------------- MODULE FirmwareUpdate ----------------------------
(***************************************************************************)
(* An update of a RIC over the air: the release the server reads from four *)
(* files that a deployment replaces one by one (readRicRelease and         *)
(* handleRicFirmwareRoute in plugins/ric-management.ts), and the device    *)
(* that fetches it chunk by chunk, checks it, switches its boot slot and   *)
(* reports (OTAManager.h).                                                 *)
(*                                                                         *)
(* A file is the number of the release it belongs to, 0 while it is half   *)
(* written; the hash of an image stands for its release.  Every read,      *)
(* chunk and write is a step, the connection may drop anything, and the    *)
(* device may lose its power anywhere.                                     *)
(***************************************************************************)
EXTENDS Naturals, FiniteSets

CONSTANTS
  Releases,    \* the release numbers, a set of positive naturals; larger is newer
  Chunks,      \* bound: chunks of an image
  MaxStalls,   \* stalls of one chunk before the device gives up (6 in the code)
  MaxDeploys   \* bound: deployments

Files == {"manifest", "meta", "factory", "image"}

VARIABLES
  files,    \* on the server's disk
  deploy,   \* the release being written, 0 between deployments
  deploys,  \* deployments so far
  request,  \* the device's request at the server: what it asks for and the files read so far
  device    \* the device: its slots, its update and its journal

vars == <<files, deploy, deploys, request, device>>

Numbers == Releases \cup {0}
NoRequest == [for |-> "nothing", got |-> [f \in {} |-> 0]]

TypeOK ==
  /\ files \in [Files -> Numbers] /\ deploy \in Numbers /\ deploys \in 0..MaxDeploys
  /\ request.for \in {"nothing", "version", "chunk"}
  /\ DOMAIN request.got \subseteq Files /\ \A f \in DOMAIN request.got : request.got[f] \in Numbers
  /\ device.at \in {"starting", "idle", "checking", "downloading", "digest", "journal", "switch"}
  /\ {device.running, device.boot} \subseteq Releases
  /\ {device.target, device.sha, device.journal} \subseteq Numbers
  /\ device.flash \subseteq Releases /\ device.written \in 0..Chunks
  /\ device.stalls \in 0..MaxStalls
  /\ device.report \in [state: {"none", "downloading", "confirmed", "failed", "up_to_date", "rebooting"},
                        target: Numbers]

Device(release) ==
  [at |-> "idle", running |-> release, boot |-> release, target |-> 0, sha |-> 0, written |-> 0,
   flash |-> {}, stalls |-> 0, journal |-> 0,
   report |-> [state |-> "none", target |-> 0]]

Init ==
  \E release, running \in Releases :
    /\ files = [f \in Files |-> release] /\ deploy = 0 /\ deploys = 0
    /\ request = NoRequest /\ device = Device(running)

server == <<files, deploy, deploys>>

-----------------------------------------------------------------------------
(* Deployments *)

Deploy(release) ==
  /\ deploy = 0 /\ deploys < MaxDeploys
  /\ deploy' = release /\ deploys' = deploys + 1 /\ UNCHANGED <<files, request, device>>

\* A file is emptied and written; the order of the files is the tool's.
WriteFile(f) ==
  /\ deploy # 0 /\ files[f] # deploy
  /\ files' = [files EXCEPT ![f] = IF @ = 0 THEN deploy ELSE 0]
  /\ UNCHANGED <<deploy, deploys, request, device>>

Deployed ==
  /\ deploy # 0 /\ \A f \in Files : files[f] = deploy
  /\ deploy' = 0 /\ UNCHANGED <<files, deploys, request, device>>

-----------------------------------------------------------------------------
(* The server *)

\* The four reads of a request run side by side.
ReadFile(f) ==
  /\ request.for # "nothing" /\ f \notin DOMAIN request.got
  /\ request' = [request EXCEPT !.got = [g \in DOMAIN @ \cup {f} |-> IF g = f THEN files[f] ELSE @[g]]]
  /\ UNCHANGED <<server, device>>

\* (mutant) The application image is not compared with the factory image.
OneRelease_NoImage(got) == got["manifest"] # 0 /\ got["manifest"] = got["factory"] /\ got["manifest"] = got["meta"]
\* The manifest has the factory image's hash and the version's number, and the factory
\* image holds the application image.
OneRelease(got) ==
  /\ got["manifest"] # 0
  /\ got["manifest"] = got["factory"] /\ got["manifest"] = got["meta"] /\ got["factory"] = got["image"]

Answered == DOMAIN request.got = Files
\* A read that cannot be parsed, or is no release, is answered with 503.
Available == Answered /\ OneRelease(request.got)

-----------------------------------------------------------------------------
(* The device *)

Asks(what) == request' = [for |-> what, got |-> [f \in {} |-> 0]]

\* A report reaches the server, or it does not.
Reports(before, state, target) ==
  \/ device' = [before EXCEPT !.report = [state |-> state, target |-> target]]
  \/ device' = before

Fails(target) ==
  /\ request' = NoRequest
  /\ Reports([device EXCEPT !.at = "idle", !.target = 0, !.sha = 0, !.written = 0, !.flash = {},
                     !.stalls = 0], "failed", target)

\* (mutant) A device that starts with a journal has taken its update.
TookUpdate_Always == TRUE
\* The journal names the version that is running now.
TookUpdate == device.journal = device.running

\* bootConfirmed: the journal is removed once its report has arrived.
BootConfirmed ==
  /\ device.at = "starting"
  /\ LET up == [device EXCEPT !.at = "idle"] IN
     IF device.journal = 0 THEN device' = up
     ELSE \/ device' = up
          \/ device' = [up EXCEPT !.journal = 0, !.report =
               [state |-> IF TookUpdate THEN "confirmed" ELSE "failed", target |-> device.journal]]
  /\ UNCHANGED <<server, request>>

CheckForUpdate ==
  /\ device.at = "idle" /\ Asks("version")
  /\ device' = [device EXCEPT !.at = "checking"] /\ UNCHANGED server

\* Only a newer version is taken; anything else ends the check.
Offered ==
  /\ device.at = "checking" /\ Available /\ UNCHANGED server
  /\ LET version == request.got["meta"] IN
     \/ /\ version > device.running /\ request' = NoRequest
        /\ Reports([device EXCEPT !.at = "downloading", !.target = version, !.sha = request.got["image"]],
                   "downloading", version)
     \/ /\ ~(version > device.running) /\ request' = NoRequest
        /\ Reports([device EXCEPT !.at = "idle"], "up_to_date", version)

\* No answer, or no release: the check fails.
NotOffered ==
  /\ device.at = "checking" /\ (Answered => ~Available) /\ Fails(0) /\ UNCHANGED server

AskChunk ==
  /\ device.at = "downloading" /\ request.for = "nothing" /\ device.written < Chunks
  /\ Asks("chunk") /\ UNCHANGED <<server, device>>

\* The address names the image's hash; another release's image is not found there.
ServesImage == Available /\ request.got["image"] = device.sha

ChunkArrives ==
  /\ device.at = "downloading" /\ request.for = "chunk" /\ ServesImage
  /\ device' = [device EXCEPT !.flash = @ \cup {request.got["image"]}, !.written = @ + 1, !.stalls = 0]
  /\ request' = NoRequest /\ UNCHANGED server

ChunkNotFound ==
  /\ device.at = "downloading" /\ request.for = "chunk" /\ Available /\ ~ServesImage
  /\ Fails(device.target) /\ UNCHANGED server

\* The chunk stalls, or the release is unavailable: what is written is kept.
ChunkStalls ==
  /\ device.at = "downloading" /\ request.for = "chunk" /\ UNCHANGED server
  /\ \/ /\ device.stalls < MaxStalls /\ request' = NoRequest
        /\ device' = [device EXCEPT !.stalls = @ + 1]
     \/ device.stalls = MaxStalls /\ Fails(device.target)

WholeImage == device.flash = {device.sha}

Downloaded ==
  /\ device.at = "downloading" /\ device.written = Chunks /\ UNCHANGED server
  /\ IF WholeImage THEN device' = [device EXCEPT !.at = "journal"] /\ UNCHANGED request
     ELSE Fails(device.target)

\* The journal is written before the switch, so that a start can tell what came of it.
WriteJournal ==
  /\ device.at = "journal" /\ UNCHANGED server
  /\ \/ device' = [device EXCEPT !.at = "switch", !.journal = device.target] /\ UNCHANGED request
     \/ Fails(device.target)

SwitchSlot ==
  /\ device.at = "switch" /\ UNCHANGED server
  /\ \/ /\ Reports([device EXCEPT !.boot = device.sha, !.running = device.sha, !.at = "starting", !.target = 0,
                                  !.sha = 0, !.written = 0, !.flash = {}, !.stalls = 0], "rebooting", device.target)
        /\ UNCHANGED request
     \/ Fails(device.target)

\* The power is lost: the boot slot's image starts, and what was downloaded is void.
PowerLoss ==
  /\ device' = [device EXCEPT !.at = "starting", !.running = device.boot, !.target = 0, !.sha = 0,
                              !.written = 0, !.stalls = 0, !.flash = {}]
  /\ request' = NoRequest /\ UNCHANGED server

-----------------------------------------------------------------------------
Next ==
  \/ \E release \in Releases : Deploy(release)
  \/ \E f \in Files : WriteFile(f) \/ ReadFile(f)
  \/ Deployed
  \/ BootConfirmed \/ CheckForUpdate \/ Offered \/ NotOffered
  \/ AskChunk \/ ChunkArrives \/ ChunkNotFound \/ ChunkStalls \/ Downloaded
  \/ WriteJournal \/ SwitchSlot \/ PowerLoss

Spec == Init /\ [][Next]_vars

-----------------------------------------------------------------------------
(* Properties *)

\* "Read one release snapshot": the slot a device switches to is the whole image of the
\* version it was offered, and newer than the one that runs, whatever deployments, or
\* halves of them, its offer and its chunks were read from.
UpdateIsItsVersion ==
  device.at \in {"journal", "switch"} =>
    WholeImage /\ device.sha = device.target /\ device.target > device.running

\* A device that the dashboard shows as confirmed runs that version or a newer one: a
\* journal left by an update that lost its power before the switch confirms nothing.
ConfirmedIsRunning == device.report.state = "confirmed" => device.running >= device.report.target
=============================================================================
