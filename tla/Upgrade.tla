------------------------------ MODULE Upgrade -------------------------------
(***************************************************************************)
(* The firmware upgrade client Z_my_work_upgrade/test_client.c, with       *)
(* readn and writen of netTool/netTool.c: it stamps an image with a header *)
(* and its MD5 (add_hisiHead) and sends it frame by frame, each frame      *)
(* acknowledged before the next (send_file).  The device, the kernel's     *)
(* buffers and the user, who may kill the tool and start it again, are     *)
(* external.                                                               *)
(*                                                                         *)
(* A file is a sequence of units, each as much as one read of either loop  *)
(* takes: blocks of the firmware, and headers.                             *)
(***************************************************************************)
EXTENDS Integers, Sequences, SequencesExt

CONSTANTS Blocks,      \* units of the firmware before it is stamped
          FrameBytes,  \* pieces of a frame that the kernel keeps together
          AckBytes,    \* pieces of an acknowledgement
          MaxRuns      \* bound: how often the tool is started

ASSUME UpgradeAssumption ==
  Blocks \in Nat /\ FrameBytes \in Nat \ {0} /\ AckBytes \in Nat \ {0} /\ MaxRuns \in Nat

VARIABLES disk,    \* the files there are: image, and tmp, which add_hisiHead
                   \* writes
          pc,      \* what the tool does; "idle" when it does not run
          runs,    \* how often it was started
          read,    \* units of the image read by the loop that runs
          sum,     \* pieces of the frame written, or of the answer read
          peer,    \* the device's end: "up", or "gone" when it reset
          toDevice, fromDevice,  \* pieces in flight
          frames,  \* the device's: frames received of this connection
          result,  \* what send_file returned: "none", "sent", "failed"
          lost     \* history: a read or write of the copying loop failed

upgradeVars == <<disk, pc, runs, read, sum, peer, toDevice, fromDevice, frames, result, lost>>
wire == <<peer, toDevice, fromDevice, frames>>

Firmware == [i \in 1 .. Blocks |-> <<"block", i>>]
BlankHeader == <<"head">>

(* The header with the MD5 of f, different for any two files.              *)
Header(f) == <<"head", f>>

UpgradeInit ==
  /\ disk = [image |-> Firmware]
  /\ pc = "idle" /\ runs = 0 /\ read = 0 /\ sum = 0
  /\ peer = "up" /\ toDevice = <<>> /\ fromDevice = <<>> /\ frames = <<>>
  /\ result = "none" /\ lost = FALSE

(***************************************************************************)
(* main: the connection is made first; with a hardware version the image   *)
(* is stamped, and whatever came of that it is then opened and sent.       *)
(***************************************************************************)
Start ==
  /\ pc = "idle" /\ runs < MaxRuns
  /\ runs' = runs + 1
  /\ \E next \in {"stamp", "open"} : pc' = next
  /\ peer' = "up" /\ toDevice' = <<>> /\ fromDevice' = <<>> /\ frames' = <<>>
  /\ read' = 0 /\ sum' = 0 /\ result' = "none"
  /\ UNCHANGED <<disk, lost>>

(***************************************************************************)
(* add_hisiHead                                                            *)
(***************************************************************************)
There(name) == name \in DOMAIN disk

WrongOpenBoth ==
  /\ pc = "stamp"
  /\ disk' = [name \in DOMAIN disk \cup {"tmp"} |-> IF name = "tmp" THEN <<>> ELSE disk[name]]
  /\ (There("image") /\ pc' = "blank") \/ pc' = "open"
  /\ UNCHANGED <<runs, read, sum, wire, result, lost>>

(* The image is opened, the other file made empty; either may fail.        *)
OpenBoth ==
  /\ pc = "stamp"
  /\ \/ There("image") /\ disk' = [image |-> disk.image, tmp |-> <<>>] /\ pc' = "blank"
     \/ UNCHANGED disk /\ pc' = "open"
  /\ UNCHANGED <<runs, read, sum, wire, result, lost>>

WriteBlank ==
  /\ pc = "blank"
  /\ \/ disk' = [disk EXCEPT !.tmp = <<BlankHeader>>] /\ pc' = "copy"
     \/ UNCHANGED disk /\ pc' = "open"
  /\ UNCHANGED <<runs, read, sum, wire, result, lost>>

(* One turn of the loop: the unit goes into the MD5 whether or not it is   *)
(* written, and a failed read ends the loop like the end of the file.      *)
CopyUnit ==
  /\ pc = "copy" /\ read < Len(disk.image)
  /\ read' = read + 1 /\ UNCHANGED pc
  /\ \/ disk' = [disk EXCEPT !.tmp = Append(disk.tmp, disk.image[read + 1])] /\ UNCHANGED lost
     \/ UNCHANGED disk /\ lost' = TRUE
  /\ UNCHANGED <<runs, sum, wire, result>>

CopyEnd ==
  /\ pc = "copy"
  /\ pc' = "seal"
  /\ lost' = (lost \/ read < Len(disk.image))
  /\ UNCHANGED <<disk, runs, read, sum, wire, result>>

(* lseek, and the header again with the MD5 of what was read.              *)
WriteHeader ==
  /\ pc = "seal"
  /\ \/ /\ disk' = [disk EXCEPT !.tmp = [disk.tmp EXCEPT ![1] =
                                           Header(SubSeq(disk.image, 1, read))]]
        /\ pc' = "unlink"
     \/ UNCHANGED disk /\ pc' = "open"
  /\ UNCHANGED <<runs, read, sum, wire, result, lost>>

(* unlink and rename, of which neither is checked and either may fail.     *)
Unlink ==
  /\ pc = "unlink"
  /\ disk' \in {disk, [tmp |-> disk.tmp]} /\ pc' = "rename"
  /\ UNCHANGED <<runs, read, sum, wire, result, lost>>

Rename ==
  /\ pc = "rename"
  /\ disk' \in {disk, [image |-> disk.tmp]} /\ pc' = "open"
  /\ UNCHANGED <<runs, read, sum, wire, result, lost>>

(***************************************************************************)
(* send_file, readn and writen                                             *)
(***************************************************************************)
Exit(how) == pc' = "idle" /\ result' = how

OpenImage ==
  /\ pc = "open"
  /\ IF There("image") THEN pc' = "read" /\ UNCHANGED result ELSE Exit("failed")
  /\ read' = 0 /\ sum' = 0
  /\ UNCHANGED <<disk, runs, wire, lost>>

(* The frame that is built: which of how many, and what it carries.        *)
Frame == [cur |-> read, total |-> Len(disk.image), data |-> disk.image[read]]

ReadUnit ==
  /\ pc = "read"
  /\ IF read = Len(disk.image)
     THEN Exit("sent") /\ UNCHANGED read
     ELSE \/ read' = read + 1 /\ pc' = "write" /\ UNCHANGED result
          \/ Exit("failed") /\ UNCHANGED read
  /\ sum' = 0
  /\ UNCHANGED <<disk, runs, wire, lost>>

WrongWriteSome ==
  /\ pc = "write" /\ peer = "up"
  /\ \E n \in 1 .. FrameBytes - sum :
       /\ toDevice' = toDevice \o [i \in 1 .. n |-> <<Frame, i>>]
       /\ IF sum + n = FrameBytes THEN pc' = "ack" /\ sum' = 0
                                  ELSE sum' = sum + n /\ UNCHANGED pc
  /\ UNCHANGED <<disk, runs, read, peer, fromDevice, frames, result, lost>>

(* write(2) takes one piece or more of the rest.  One frame is in flight   *)
(* at most, and the kernel's buffer is larger, so select never waits.      *)
WriteSome ==
  /\ pc = "write" /\ peer = "up"
  /\ \E n \in 1 .. FrameBytes - sum :
       /\ toDevice' = toDevice \o [i \in 1 .. n |-> <<Frame, sum + i>>]
       /\ IF sum + n = FrameBytes THEN pc' = "ack" /\ sum' = 0
                                  ELSE sum' = sum + n /\ UNCHANGED pc
  /\ UNCHANGED <<disk, runs, read, peer, fromDevice, frames, result, lost>>

(* read(2) takes what there is, up to the rest of the answer.              *)
ReadSome ==
  /\ pc = "ack" /\ fromDevice # <<>>
  /\ \E n \in 1 .. Len(fromDevice) :
       /\ n <= AckBytes - sum
       /\ fromDevice' = SubSeq(fromDevice, n + 1, Len(fromDevice))
       /\ IF sum + n < AckBytes THEN sum' = sum + n /\ UNCHANGED <<pc, result>>
          ELSE /\ sum' = 0
               /\ IF fromDevice[n] = "success" THEN pc' = "read" /\ UNCHANGED result
                                               ELSE Exit("failed")
  /\ UNCHANGED <<disk, runs, read, peer, toDevice, frames, lost>>

WrongAckTimeout ==
  /\ pc = "ack" /\ sum > 0 /\ fromDevice = <<>> /\ peer = "up"
  /\ Exit("failed")
  /\ UNCHANGED <<disk, runs, read, sum, wire, lost>>

(* Ten seconds without a piece of the answer.                              *)
AckTimeout ==
  /\ pc = "ack" /\ fromDevice = <<>> /\ peer = "up"
  /\ Exit("failed")
  /\ UNCHANGED <<disk, runs, read, sum, wire, lost>>

(* write(2) or read(2) fails, or finds the end of the stream.              *)
PeerGone ==
  /\ pc \in {"write", "ack"} /\ peer = "gone"
  /\ Exit("failed")
  /\ UNCHANGED <<disk, runs, read, sum, wire, lost>>

(***************************************************************************)
(* The device and the user                                                 *)
(***************************************************************************)
(* The device takes a whole frame off the wire; it answers when it likes,  *)
(* and as it likes, once for each frame.                                   *)
DeviceReads ==
  /\ peer = "up" /\ pc # "idle" /\ Len(toDevice) >= FrameBytes
  /\ frames' = Append(frames, SubSeq(toDevice, 1, FrameBytes))
  /\ toDevice' = SubSeq(toDevice, FrameBytes + 1, Len(toDevice))
  /\ \E answer \in {"success", "fail"} : fromDevice' = fromDevice \o [i \in 1 .. AckBytes |-> answer]
  /\ UNCHANGED <<disk, pc, runs, read, sum, peer, result, lost>>

DeviceGone ==
  /\ peer = "up" /\ pc # "idle"
  /\ peer' = "gone" /\ fromDevice' = <<>>
  /\ UNCHANGED <<disk, pc, runs, read, sum, toDevice, frames, result, lost>>

Kill ==
  /\ pc # "idle"
  /\ pc' = "idle" /\ result' = "failed"
  /\ UNCHANGED <<disk, runs, read, sum, wire, lost>>

Tool ==
  \/ OpenBoth \/ WriteBlank \/ CopyUnit \/ CopyEnd \/ WriteHeader \/ Unlink \/ Rename
  \/ OpenImage \/ ReadUnit \/ WriteSome \/ ReadSome \/ AckTimeout \/ PeerGone

UpgradeNext == Start \/ Tool \/ DeviceReads \/ DeviceGone \/ Kill

(* The tool's process is scheduled; the device owes nothing.               *)
UpgradeFairness == WF_upgradeVars(Tool)

UpgradeSpec == UpgradeInit /\ [][UpgradeNext]_upgradeVars /\ UpgradeFairness

-----------------------------------------------------------------------------
(* A file that is the firmware behind headers, each with the MD5 of what   *)
(* follows it.                                                             *)
Sound(f) ==
  LET headers == Len(f) - Blocks
  IN /\ headers >= 0
     /\ SubSeq(f, headers + 1, Len(f)) = Firmware
     /\ \A i \in 1 .. headers : f[i] = Header(SubSeq(f, i + 1, Len(f)))

(***************************************************************************)
(* Wherever the tool is killed, and however often it is started again, an  *)
(* image that is there is sound, and if it is not there the other file is  *)
(* a sound image: unless the copying loop, which checks neither its reads  *)
(* nor its writes (lines 224-227), lost a unit.                            *)
(***************************************************************************)
ImageSurvives ==
  ~lost => IF There("image") THEN Sound(disk.image) ELSE There("tmp") /\ Sound(disk.tmp)

(***************************************************************************)
(* What the device received of a connection is the beginning of the image, *)
(* frame by frame in order with consecutive numbers and without a piece of *)
(* another, however the writes were cut; when send_file returns 0 it is    *)
(* all of it, and as many frames as each of them announced.                *)
(***************************************************************************)
DeliveredWhole ==
  /\ \A k \in 1 .. Len(frames) : \A i \in 1 .. FrameBytes :
       /\ frames[k][i][2] = i
       /\ frames[k][i][1].cur = k
       /\ pc # "idle" => frames[k][i][1].data = disk.image[k]
  /\ Len(toDevice) <= FrameBytes
  /\ result = "sent" =>
       /\ [k \in 1 .. Len(frames) |-> frames[k][1][1].data] = disk.image
       /\ \A k \in 1 .. Len(frames) : frames[k][1][1].total = Len(frames)

(***************************************************************************)
(* A run of the tool ends, although the device may fall silent at any      *)
(* moment: readn gives up ten seconds after the last piece of an answer.   *)
(***************************************************************************)
ToolEnds == pc # "idle" ~> pc = "idle"
=============================================================================
