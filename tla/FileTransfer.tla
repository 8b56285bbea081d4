---------------------------- MODULE FileTransfer ----------------------------
(***************************************************************************)
(* Secure file transfer (sft/): the download of update packages over the   *)
(* control topic or through the application's URL handler, the revisions   *)
(* the device records for its files, and the way a new firmware becomes    *)
(* the recorded one after a restart.                                       *)
(*                                                                         *)
(* Handlers run one at a time on the client's thread.  Where a handler     *)
(* changes what survives a power loss, it is cut into steps (variable      *)
(* step): the next step of the handler is the only thing the device can do *)
(* then, except for losing its power.                                      *)
(*                                                                         *)
(* Data: a chunk is a unit of XI_SFT_FILE_CHUNK_SIZE bytes, its contents   *)
(* are the file and revision it belongs to, and a checksum is the sequence *)
(* of the chunks it was fed with (no collisions).                          *)
(***************************************************************************)
EXTENDS Integers, Sequences, FiniteSets, Functions

CONSTANTS
  Files,        \* names of the updateable files
  Firmware,     \* those xi_bsp_fwu_is_this_firmware says yes to
  Place,        \* Place[f]: where the server lists f in a package
  MaxRevision,  \* revisions are numbered; 1 is what the device starts with
  Latest,       \* Latest[f]: the last revision of f that is released
  MaxSize, Size, \* Size[f][r]: length of revision r of f, in chunks
  Links,        \* files with a download_link
  MqttAlso,     \* those with flag_mqtt_download_also_supported
  UrlHandler,   \* the application has registered a URL handler
  Reboots,      \* xi_bsp_fwu_on_package_download_finished restarts the device
  Faulty,       \* file operations that may fail: "open", "write", "close"
  MaxCrashes, MaxFaults, MaxLost, MaxEarly   \* bounds on the environment

Revisions == 1 .. MaxRevision
NoFile    == "closed"  \* XI_BSP_IO_FS_INVALID_RESOURCE_HANDLE

ASSUME FilesAssumption ==
  /\ IsFiniteSet(Files) /\ NoFile \notin Files
  /\ Links \subseteq Files /\ MqttAlso \subseteq Links
  \* one name, "firmware.bin" or the like
  /\ Firmware \subseteq Files /\ \A f, g \in Firmware : f = g
  /\ Place \in [Files -> Nat]
  /\ MaxRevision \in Nat \ {0} /\ Latest \in [Files -> Revisions]
  \* xi_bsp_io_fs_write refuses a chunk of no bytes
  /\ MaxSize \in Nat /\ Size \in [Files -> [Revisions -> 1 .. MaxSize]]
ASSUME EnvironmentAssumption ==
  /\ UrlHandler \in BOOLEAN /\ Reboots \in BOOLEAN
  /\ Faulty \subseteq {"open", "write", "close"}
  /\ {MaxCrashes, MaxFaults, MaxLost, MaxEarly} \subseteq Nat

VARIABLES
  content,    \* the files on the device: what is at each offset
  recorded,   \* the .xirev files
  mailbox,    \* firmware_update_revision.mailbox
  running,    \* revision of the firmware that runs
  committed,  \* revision of the firmware the platform would roll back to
  trial,      \* the platform waits for xi_bsp_fwu_on_new_firmware_ok
  conn,       \* the control topic: "down", "subscribing" or "up"
  step,       \* the rest of the handler that is being executed
  sft,        \* xi_sft_context_t
  target,     \* the server: the revisions it wants on the device
  known,      \* the server: the revisions it takes the device to have
  down, up,   \* messages to and from the device, in order
  url,        \* downloads the application has under way
  tasks,      \* xi_sft_on_file_downloaded calls in the event dispatcher
  fault,      \* undefined behaviour reached, or "none"
  used        \* how much of the bounds is used up

disk    == <<content, recorded, mailbox>>
booted  == <<running, committed, trial>>
session == <<conn, step, sft>>
server  == <<target, known>>
wire    == <<down, up>>
app     == <<url, tasks>>
vars    == <<disk, booted, session, server, wire, app, fault, used>>

Offsets    == 0 .. (MaxSize - 1)
NoRevision == 0        \* XI_CONTROL_MESSAGE_SFT_GENERATED_REVISION
Hole       == <<>>     \* nothing was written at this offset
Null       == [pkg |-> 0, at |-> 0]
NoPackage  == [id |-> 0, files |-> <<>>]
NoSum      == << <<>> >>  \* checksum_context is NULL
NoMail     == [file |-> NoFile, rev |-> NoRevision]
NoContext  == [fua |-> NoPackage, order |-> <<>>, current |-> Null,
               firmware |-> Null, handle |-> NoFile, checksum |-> NoSum]

Blank       == [o \in Offsets |-> Hole]
Whole(f, r) == [o \in Offsets |-> IF o < Size[f][r] THEN <<f, r>> ELSE Hole]

\* What a correct download feeds the checksum with.
Fingerprint(f, r) == [i \in 1 .. Size[f][r] |-> <<f, r, i - 1>>]

\* A pointer into the list of a package stays usable until the package is freed.
Live(p) == sft.fua # NoPackage /\ p.pkg = sft.fua.id
Desc(p) == sft.fua.files[p.at]

Current   == Desc(sft.current)

\* What the device sends: FILE_GET_CHUNK, FILE_STATUS (finished, or processing
\* for a firmware) and FILE_INFO.  Statuses of other phases change nothing.
Request(d, o) == [type |-> "get", file |-> d.file, rev |-> d.rev, off |-> o]
Status(d)     == [type |-> "status", file |-> d.file, rev |-> d.rev]

\* Mutant: the device reports what it was told to install, not what it recorded.
MutFileInfo == [type |-> "info", revs |-> target]

\* xi_control_message_create_file_info
FileInfo == [type |-> "info", revs |-> recorded]

OnTheWay(type) == {i \in 1 .. Len(up) : up[i].type = type}

Counters == {"crashes", "faults", "lost", "early", "untold", "unsaved"}

Idle    == step = "idle" /\ fault = "none"
At(s)   == step = s /\ fault = "none"
Budget(what, max) == used[what] < max /\ used' = [used EXCEPT ![what] = @ + 1]
May(op) == op \in Faulty /\ used.faults < MaxFaults

Init ==
  /\ content = [f \in Files |-> Whole(f, 1)]
  /\ recorded = [f \in Files |-> 1]
  /\ mailbox = NoMail
  /\ running = 1 /\ committed = 1 /\ trial = FALSE
  /\ conn = "down" /\ step = "idle" /\ sft = NoContext
  /\ target = [f \in Files |-> 1] /\ known = [f \in Files |-> 1]
  /\ down = <<>> /\ up = <<>> /\ url = {} /\ tasks = <<>>
  /\ fault = "none"
  /\ used = [what \in Counters |-> 0]

-----------------------------------------------------------------------------
(***************************************************************************)
(* The session: the control topic layer makes the context and reports the  *)
(* outcome of its subscription.                                            *)
(***************************************************************************)
\* xi_control_topic_layer_init and connect
Connect ==
  /\ Idle /\ conn = "down"
  /\ conn' = "subscribing" /\ sft' = NoContext
  /\ UNCHANGED <<disk, booted, step, server, wire, app, fault, used>>

\* xi_bsp_fwu_on_new_firmware_ok: was a firmware on trial?
Commit == IF trial THEN "mail" ELSE "info"

\* The SUBACK: a firmware on trial is committed.
SubackOk ==
  /\ Idle /\ conn = "subscribing"
  /\ trial' = FALSE /\ committed' = running
  /\ step' = Commit
  /\ UNCHANGED <<disk, running, conn, sft, server, wire, app, fault, used>>

\* xi_sft_revision_firmware_ok; without a mailbox it returns at once.
RecordFirmware ==
  /\ At("mail")
  /\ \/ /\ mailbox = NoMail /\ step' = "info" /\ UNCHANGED recorded
     \/ /\ mailbox # NoMail /\ step' = "unmail"
        /\ recorded' = [recorded EXCEPT ![mailbox.file] = mailbox.rev]
  /\ UNCHANGED <<content, mailbox, booted, conn, sft, server, wire, app, fault, used>>

\* Nobody looks at the result of xi_sft_revision_set: the file that holds the
\* revision could not be opened, or it was emptied and not written.
RevisionLost(f) ==
  \/ May("open") /\ UNCHANGED recorded
  \/ May("write") /\ recorded' = [recorded EXCEPT ![f] = NoRevision]

RecordFirmwareFails ==
  /\ At("mail") /\ mailbox # NoMail
  /\ RevisionLost(mailbox.file) /\ Budget("faults", MaxFaults)
  /\ step' = "unmail"
  /\ UNCHANGED <<content, mailbox, booted, conn, sft, server, wire, app, fault>>

RemoveMailbox ==
  /\ At("unmail")
  /\ mailbox' = NoMail /\ step' = "info"
  /\ UNCHANGED <<content, recorded, booted, conn, sft, server, wire, app, fault, used>>

SendFileInfo ==
  /\ At("info")
  /\ up' = Append(up, FileInfo) /\ conn' = "up" /\ step' = "idle"
  /\ UNCHANGED <<disk, booted, sft, server, down, app, fault, used>>

\* What a restart leaves: nothing but the disk and the firmware.
LoseMemory ==
  /\ conn' = "down" /\ step' = "idle" /\ sft' = NoContext
  /\ down' = <<>> /\ up' = <<>> /\ url' = {} /\ tasks' = <<>>

\* The SUBACK refuses the subscription: xi_bsp_fwu_on_new_firmware_failure
\* rolls a firmware on trial back and restarts the device.
SubackFailed ==
  /\ Idle /\ conn = "subscribing" /\ Budget("crashes", MaxCrashes)
  /\ running' = committed /\ trial' = FALSE
  /\ LoseMemory
  /\ UNCHANGED <<disk, committed, server, fault>>

\* xi_control_topic_layer_close_externally frees the context.  The
\* application's downloads know nothing of it: the model lets the connection
\* end only when none is under way.
Disconnect ==
  /\ Idle /\ conn # "down" /\ url = {} /\ tasks = <<>>
  /\ Budget("crashes", MaxCrashes)
  /\ conn' = "down" /\ sft' = NoContext /\ down' = <<>> /\ up' = <<>>
  /\ UNCHANGED <<disk, booted, step, server, app, fault>>

\* A power loss, between any two steps.  A revision or a mailbox that was
\* just being written (opened with truncation, then written) may be empty.
\* The platform may give up a firmware on trial.
Crash ==
  /\ fault = "none" /\ Budget("crashes", MaxCrashes)
  /\ recorded' \in {recorded} \cup
       CASE step = "save" -> {[recorded EXCEPT ![Current.file] = NoRevision]}
         [] step = "mail" /\ mailbox # NoMail -> {[recorded EXCEPT ![mailbox.file] = NoRevision]}
         [] OTHER -> {}
  /\ mailbox' \in {mailbox} \cup
       IF step = "record" /\ sft.firmware = sft.current THEN {NoMail} ELSE {}
  /\ \/ UNCHANGED <<running, trial>>
     \/ running' = committed /\ trial' = FALSE
  /\ LoseMemory
  /\ UNCHANGED <<content, committed, server, fault>>

-----------------------------------------------------------------------------
(***************************************************************************)
(* xi_sft_on_message: a package is offered.                                *)
(***************************************************************************)
Received(type) == Idle /\ conn = "up" /\ down # <<>> /\ Head(down).type = type

Permutations(n) == Bijection(1 .. n, 1 .. n)

\* The message was allocated while the old package was still there; it may lie
\* where a package that was freed before lay (which only old pointers can tell).
NewIds == IF sft.current = Null /\ sft.firmware = Null THEN {1} ELSE {1, 2} \ {sft.fua.id}

\* Mutant: a package does not interrupt the download of a file.
MutBegin(files) == IF files = <<>> \/ sft.current # Null THEN "idle" ELSE "next"

\* An empty package is kept, but nothing is downloaded.
Begin(files) == IF files = <<>> THEN "idle" ELSE "next"

\* The platform may permute the list: _xi_sft_order_resource_downloads.
FileUpdateAvailable ==
  /\ Received("fua")
  /\ LET files == Head(down).files IN
     /\ down' = Tail(down)
     /\ \E id \in NewIds, p \in Permutations(Len(files)) :
          sft' = [sft EXCEPT !.fua = [id |-> id, files |-> files], !.order = p]
     /\ step' = Begin(files)
  /\ UNCHANGED <<disk, booted, conn, server, up, app, fault, used>>

-----------------------------------------------------------------------------
(***************************************************************************)
(* _xi_sft_continue_package_download.                                      *)
(***************************************************************************)
\* Mutant: the last file of the order is missed.
MutWaiting == {i \in 1 .. (Len(sft.order) - 1) : sft.order[i] # 0}

Waiting == {i \in 1 .. Len(sft.order) : sft.order[i] # 0}
First   == CHOOSE i \in Waiting : \A j \in Waiting : i <= j

\* _xi_sft_select_next_resource_to_download
SelectNext(s) ==
  [s EXCEPT !.current = [pkg |-> s.fua.id, at |-> s.order[First]], !.order[First] = 0]

\* Assumed of the environment: when the application starts a download, no
\* other package and no chunk for an earlier one is on its way.  Neither the
\* report of a download nor a chunk says which package it is for.
NoOverlap == down = <<>> /\ OnTheWay("get") = {}

\* _xi_sft_download_current_file
NextFile ==
  /\ At("next") /\ sft.fua # NoPackage /\ Waiting # {}
  /\ step' = "idle"
  /\ LET s == SelectNext(sft)
         d == s.fua.files[s.current.at]
     IN  /\ sft' = IF d.file \in Firmware THEN [s EXCEPT !.firmware = s.current] ELSE s
         /\ \E started \in IF d.file \in Links /\ UrlHandler /\ NoOverlap THEN BOOLEAN ELSE {FALSE} :
              /\ url' = IF started THEN url \cup {d} ELSE url
              /\ up' = IF ~started /\ (d.file \notin Links \/ d.file \in MqttAlso)
                       THEN Append(up, Request(d, 0)) ELSE up
  /\ UNCHANGED <<disk, booted, conn, server, down, tasks, fault, used>>

\* The revision the platform finds in a firmware file.
Image(f) == IF \E r \in Revisions : content[f] = Whole(f, r)
            THEN CHOOSE r \in Revisions : content[f] = Whole(f, r)
            ELSE NoRevision

\* No file is left: the platform is told, with the name of the firmware, and
\* may restart into it; otherwise the package is freed.
PackageFinished ==
  /\ At("next") /\ sft.fua # NoPackage /\ Waiting = {}
  /\ IF sft.firmware # Null /\ ~Live(sft.firmware)
     THEN /\ fault' = "firmware of a freed package"
          /\ UNCHANGED <<booted, session, known, wire, app>>
     ELSE /\ IF Reboots
             THEN /\ LoseMemory /\ UNCHANGED committed
                  /\ running' = IF sft.firmware = Null THEN running
                                ELSE Image(Desc(sft.firmware).file)
                  /\ trial' = (sft.firmware # Null)
                  \* the status may still get out before the restart
                  /\ \/ UNCHANGED known
                     \/ /\ sft.firmware # Null /\ up = <<>>
                        /\ known' = [known EXCEPT ![Desc(sft.firmware).file] = Desc(sft.firmware).rev]
             ELSE /\ step' = "idle"
                  /\ sft' = [sft EXCEPT !.fua = NoPackage, !.current = Null]
                  /\ up' = IF sft.firmware = Null THEN up ELSE Append(up, Status(Desc(sft.firmware)))
                  /\ UNCHANGED <<booted, conn, known, down, app>>
          /\ UNCHANGED fault
  /\ UNCHANGED <<disk, target, used>>

-----------------------------------------------------------------------------
(***************************************************************************)
(* xi_sft_on_message: a chunk arrives.                                     *)
(***************************************************************************)
Chunk == Head(down)

Expected == sft.current # Null /\ Live(sft.current) /\ Current.file = Chunk.file

\* The chunk is not of the file being downloaded: it is dropped.
UnexpectedChunk ==
  /\ Received("chunk") /\ ~Expected
  /\ down' = Tail(down)
  /\ fault' = IF sft.current # Null /\ ~Live(sft.current)
              THEN "file of a freed package" ELSE fault
  /\ UNCHANGED <<disk, booted, session, server, up, app, used>>

\* The first chunk opens (and truncates) the file and starts the checksum.
Opened(s) ==
  IF Chunk.off # 0 THEN s ELSE [s EXCEPT !.handle = Chunk.file, !.checksum = <<>>]

Truncated == IF Chunk.off # 0 THEN content ELSE [content EXCEPT ![Chunk.file] = Blank]

\* Mutant: the first chunk is not part of the checksum.
MutFed(s) ==
  IF s.checksum = NoSum \/ Chunk.off = 0 THEN s
  ELSE [s EXCEPT !.checksum = Append(@, <<Chunk.file, Chunk.rev, Chunk.off>>)]

\* An update of a checksum that was not started has no effect.
Fed(s) ==
  IF s.checksum = NoSum THEN s
  ELSE [s EXCEPT !.checksum = Append(@, <<Chunk.file, Chunk.rev, Chunk.off>>)]

Written(s) == Fed(Opened(s))

\* The file cannot be opened or written (or is not open).
ChunkFails ==
  /\ Received("chunk") /\ Expected
  /\ down' = Tail(down)
  /\ \/ /\ Chunk.off = 0 /\ May("open") /\ Budget("faults", MaxFaults)
        /\ sft' = [sft EXCEPT !.handle = NoFile] /\ UNCHANGED content
     \/ /\ May("write") /\ Budget("faults", MaxFaults)
        /\ sft' = Opened(sft) /\ content' = Truncated
     \/ /\ Opened(sft).handle = NoFile
        /\ UNCHANGED <<sft, content, used>>
  /\ UNCHANGED <<recorded, mailbox, booted, conn, step, server, up, app, fault>>

\* The chunk is on the disk.
ChunkWritten ==
  /\ Received("chunk") /\ Expected /\ Opened(sft).handle # NoFile
  /\ down' = Tail(down)
  /\ content' = [Truncated EXCEPT ![Opened(sft).handle][Chunk.off] = <<Chunk.file, Chunk.rev>>]
  /\ UNCHANGED <<recorded, mailbox, booted, conn, server, app, fault>>

Last(d) == Chunk.off + 1 >= Size[d.file][d.rev]

FileContinues ==
  /\ ChunkWritten /\ ~Last(Current)
  /\ sft' = Written(sft)
  /\ up' = Append(up, Request(Current, Chunk.off + 1))
  /\ UNCHANGED <<step, used>>

\* Mutant: the checksum is taken for right when it covers enough bytes.
MutVerified(s, d) == Len(s.checksum) >= Size[d.file][d.rev]

\* xi_sft_on_message_file_chunk_checksum_final
Verified(s, d) == s.checksum = Fingerprint(d.file, d.rev)

\* The last chunk of the file: checksum, close, and on to the revision.
FileEnds ==
  /\ ChunkWritten /\ Last(Current)
  /\ LET s == Written(sft)
         t == [s EXCEPT !.checksum = NoSum]
     IN  \/ /\ ~Verified(s, Current)
            /\ sft' = t /\ UNCHANGED <<step, used>>
         \/ /\ Verified(s, Current) /\ May("close") /\ Budget("faults", MaxFaults)
            /\ sft' = [t EXCEPT !.handle = NoFile] /\ UNCHANGED step
         \/ /\ Verified(s, Current)
            /\ sft' = [t EXCEPT !.handle = NoFile] /\ step' = "record" /\ UNCHANGED used
  /\ UNCHANGED up

-----------------------------------------------------------------------------
(***************************************************************************)
(* _xi_sft_current_file_revision_handling.                                 *)
(***************************************************************************)
\* A firmware's revision goes to the mailbox, for the firmware itself to record.
MailFirmware ==
  /\ At("record") /\ sft.firmware = sft.current
  /\ mailbox' = Current /\ step' = "next"
  /\ UNCHANGED <<content, recorded, booted, conn, sft, server, wire, app, fault, used>>

\* Any other file is finished: the server is told first.
ReportFinished ==
  /\ At("record") /\ sft.firmware # sft.current
  /\ up' = Append(up, Status(Current)) /\ step' = "save"
  /\ UNCHANGED <<disk, booted, conn, sft, server, down, app, fault, used>>

\* xi_sft_revision_set
SaveRevision ==
  /\ At("save")
  /\ recorded' = [recorded EXCEPT ![Current.file] = Current.rev] /\ step' = "next"
  /\ UNCHANGED <<content, mailbox, booted, conn, sft, server, wire, app, fault, used>>

SaveFails ==
  /\ At("save") /\ RevisionLost(Current.file)
  /\ used' = [used EXCEPT !.faults = @ + 1, !.unsaved = @ + 1] /\ step' = "next"
  /\ UNCHANGED <<content, mailbox, booted, conn, sft, server, wire, app, fault>>

-----------------------------------------------------------------------------
(***************************************************************************)
(* Downloads by the application.                                           *)
(***************************************************************************)
\* The application has stored and checked the file, or has given up, and
\* calls xi_sft_on_file_downloaded_application_callback.
UrlDone(d, ok) ==
  /\ Idle /\ d \in url
  /\ url' = url \ {d} /\ tasks' = Append(tasks, [file |-> d.file, ok |-> ok])
  /\ content' = [content EXCEPT ![d.file] = IF ok THEN Whole(d.file, d.rev) ELSE Blank]
  /\ UNCHANGED <<recorded, mailbox, booted, session, server, wire, fault, used>>

\* _xi_sft_on_file_downloaded_task
FileDownloaded ==
  /\ Idle /\ tasks # <<>>
  /\ tasks' = Tail(tasks)
  /\ IF sft.current = Null \/ ~Live(sft.current)
     THEN /\ fault' = IF sft.current = Null /\ Head(tasks).ok THEN fault
                      ELSE "file of a freed package"
          /\ UNCHANGED <<step, up>>
     ELSE /\ UNCHANGED fault
          /\ \/ /\ Head(tasks).ok
                /\ step' = IF Current.file = Head(tasks).file THEN "record" ELSE step
                /\ UNCHANGED up
             \/ /\ ~Head(tasks).ok
                /\ up' = IF Current.file \in MqttAlso THEN Append(up, Request(Current, 0)) ELSE up
                /\ UNCHANGED step
  /\ UNCHANGED <<disk, booted, conn, sft, server, down, url, used>>

-----------------------------------------------------------------------------
(***************************************************************************)
(* The server and the messages in between.                                 *)
(***************************************************************************)
Outdated == {f \in Files : known[f] # target[f]}

\* The outdated files, each once, in the server's order.
Listings == {names \in Bijection(1 .. Cardinality(Outdated), Outdated) :
               \A i, j \in DOMAIN names : i < j => Place[names[i]] <= Place[names[j]]}
Packages == {[i \in DOMAIN names |-> [file |-> names[i], rev |-> target[names[i]]]] : names \in Listings}

\* Nothing happens any more: the download was not started, or it hangs.
Quiet == Idle /\ down = <<>> /\ up = <<>> /\ url = {} /\ tasks = <<>>

\* Assumed of the server: what the device reports when a session begins
\* reaches it, or is lost, before it offers anything in that session.
SendPackage ==
  /\ conn = "up" /\ OnTheWay("info") = {} /\ Outdated # {}
  /\ \E files \in Packages : down' = Append(down, [type |-> "fua", files |-> files])
  /\ UNCHANGED <<disk, booted, session, server, up, app, fault>>

Offer == Quiet /\ SendPackage /\ UNCHANGED used

\* A package that is sent while another one is being downloaded, but not by
\* the application (see NoOverlap).
OfferEarly ==
  /\ fault = "none" /\ ~Quiet /\ url = {} /\ tasks = <<>>
  /\ Budget("early", MaxEarly) /\ SendPackage

Arriving(types) == up # <<>> /\ fault = "none" /\ Head(up).type \in types

Answer ==
  /\ Arriving({"get"})
  /\ up' = Tail(up)
  /\ down' = Append(down, [type |-> "chunk", file |-> Head(up).file,
                           rev |-> Head(up).rev, off |-> Head(up).off])
  /\ UNCHANGED <<disk, booted, session, server, app, fault, used>>

\* The server takes the device's word for the revisions it has.
Learn ==
  /\ Arriving({"status", "info"})
  /\ up' = Tail(up)
  /\ known' = IF Head(up).type = "info" THEN Head(up).revs
              ELSE [known EXCEPT ![Head(up).file] = Head(up).rev]
  /\ UNCHANGED <<disk, booted, session, target, down, app, fault, used>>

\* xi_control_topic_publish_on_topic publishes everything with QoS 0.
LoseMessage ==
  /\ Arriving({"get", "status", "info"}) /\ used.lost < MaxLost
  /\ up' = Tail(up)
  /\ used' = [used EXCEPT !.lost = @ + 1, !.untold = IF Head(up).type = "get" THEN @ ELSE @ + 1]
  /\ UNCHANGED <<disk, booted, session, server, down, app, fault>>

\* Newer revisions are released.
Release(F) ==
  /\ F # {} /\ \A f \in F : target[f] < Latest[f]
  /\ fault = "none"
  /\ target' = [f \in Files |-> IF f \in F THEN target[f] + 1 ELSE target[f]]
  /\ UNCHANGED <<disk, booted, session, known, wire, app, fault, used>>

-----------------------------------------------------------------------------
Device ==
  \/ Connect \/ SubackOk \/ RecordFirmware \/ RemoveMailbox \/ SendFileInfo
  \/ FileUpdateAvailable \/ NextFile \/ PackageFinished
  \/ UnexpectedChunk \/ FileContinues \/ FileEnds
  \/ MailFirmware \/ ReportFinished \/ SaveRevision \/ FileDownloaded

Environment ==
  \/ SubackFailed \/ Disconnect \/ Crash \/ ChunkFails \/ SaveFails \/ RecordFirmwareFails
  \/ OfferEarly \/ LoseMessage
  \/ \E F \in SUBSET Files : Release(F)

Download == \E d \in url : \E ok \in BOOLEAN : UrlDone(d, ok)

Next == Device \/ Environment \/ Download \/ Offer \/ Answer \/ Learn

\* The client's thread runs its handlers, the application reports every
\* download it has started, the server answers and repeats an offer nothing
\* came of; a failing disk is no more than a choice within a handler.
Fairness ==
  /\ WF_vars(Device \/ ChunkFails \/ SaveFails \/ RecordFirmwareFails)
  /\ WF_vars(Download) /\ WF_vars(Offer \/ Answer \/ Learn)

Spec == Init /\ [][Next]_vars /\ Fairness

-----------------------------------------------------------------------------
(***************************************************************************)
(* Properties.                                                             *)
(***************************************************************************)
Intact(f, r) == content[f] = Whole(f, r)

Contents == [Offsets -> {Hole} \cup (Files \X Revisions)]
Descs    == [file: Files, rev: Revisions]
Pointers == [pkg: {1, 2}, at: 1 .. Cardinality(Files)] \cup {Null}

\* The variables have their types.
TypeOK ==
  /\ content \in [Files -> Contents]
  /\ recorded \in [Files -> Revisions \cup {NoRevision}]
  /\ mailbox \in Descs \cup {NoMail}
  /\ {running, committed} \subseteq Revisions /\ trial \in BOOLEAN
  /\ conn \in {"down", "subscribing", "up"}
  /\ step \in {"idle", "mail", "unmail", "info", "next", "record", "save"}
  /\ sft.fua = NoPackage \/ (sft.fua.id \in {1, 2} /\ sft.fua.files \in Seq(Descs))
  /\ \A i \in 1 .. Len(sft.order) : sft.order[i] \in 0 .. Cardinality(Files)
  /\ {sft.current, sft.firmware} \subseteq Pointers
  /\ sft.handle \in Files \cup {NoFile}
  /\ target \in [Files -> Revisions] /\ known \in [Files -> Revisions \cup {NoRevision}]
  /\ url \subseteq Descs
  /\ used \in [Counters -> Nat]

\* No handler follows a pointer into a package that was freed: the context
\* keeps update_current_file and update_firmware when it replaces or frees
\* update_message_fua, and nothing but the order of the handlers keeps them apart.
NoStaleFile == fault = "none"

\* The context is well formed and its pointers lead into live packages.
ContextInv == TypeOK /\ NoStaleFile

\* A revision is recorded for a file only when exactly that revision is on the
\* disk, whatever packages replaced each other, whichever chunks of an earlier
\* package were still on their way, and wherever the power was lost.
RecordedIsIntact ==
  [][\A f \in Files \ Firmware :
       recorded'[f] \notin {recorded[f], NoRevision} => content'[f] = Whole(f, recorded'[f])]_vars

\* A firmware's revision is recorded only by that firmware: what the old
\* firmware left in the mailbox is about the firmware that is being committed.
RecordedFirmwareRuns ==
  [][\A f \in Firmware :
       recorded'[f] \notin {recorded[f], NoRevision} => recorded'[f] = running]_vars

\* The revisions xi_sft_revision records, and reports to the server, are those
\* of the files on the disk and of the firmware that runs.
RecordedIsTrue == RecordedIsIntact /\ RecordedFirmwareRuns

\* xi_bsp_fwu_on_package_download_finished is called when all the files of the
\* package are on the disk in the revisions of the package.
FinishedIsComplete ==
  [][PackageFinished => \A i \in 1 .. Len(sft.fua.files) :
                          Intact(sft.fua.files[i].file, sft.fua.files[i].rev)]_vars

\* The server never takes a damaged file for the one it wants, so that it will
\* repair it: as long as it sends one package at a time and no status or
\* FILE_INFO is lost.  (A file that is downloaded again while its revision is
\* recorded is not safe from a power loss, and both make that happen.)
DamageIsNoticed ==
  used.early = 0 /\ used.untold = 0 =>
    \A f \in Files \ Firmware : known[f] = target[f] => Intact(f, target[f])

Arrived ==
  \A f \in Files :
    /\ recorded[f] = target[f] \/ (f \notin Firmware /\ used.unsaved > 0)
    /\ f \in Firmware => running = target[f]
    /\ f \notin Firmware => Intact(f, target[f])

\* Every file, the firmware included, reaches the released revision and is
\* recorded with it, after any number of power losses, failed subscriptions,
\* lost requests and file errors, if packages do not overlap.  A report that is
\* lost does no harm by itself, but it may together with a power loss or a file
\* error.  A file whose revision could not be saved is reported as finished all
\* the same and is not offered again.
Converges ==
  <>[](\/ Arrived
       \/ used.early > 0
       \/ used.untold > 0 /\ (used.crashes > 0 \/ used.faults > 0))
=============================================================================
