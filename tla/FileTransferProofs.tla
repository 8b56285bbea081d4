------------------------- MODULE FileTransferProofs -------------------------
(***************************************************************************)
(* Proofs about the file transfer, for any files, sizes, revisions and     *)
(* bounds on what goes wrong.                                              *)
(***************************************************************************)
EXTENDS FileTransfer, FiniteSetTheorems, WellFoundedInduction, TLAPS

(* xi_bsp_fwu_on_package_download_finished starts the new firmware, or the  *)
(* platform does not update its firmware.                                   *)
Platform == Reboots \/ Firmware = {}

Fua     == [type: {"fua"}, files: Seq(Descs)]
Chunks  == [type: {"chunk"}, file: Files, rev: Revisions, off: Nat]
Asks    == [type: {"get"}, file: Files, rev: Revisions, off: Nat]
Reports == [type: {"status"}, file: Files, rev: Revisions]
Infos   == [type: {"info"}, revs: [Files -> Revisions \cup {NoRevision}]]
Ups     == Asks \cup Reports \cup Infos
Sums    == Seq(Files \X Revisions \X Nat)
Ptr     == [pkg: 0 .. 2, at: Nat]
SftType == [fua: [id: 0 .. 2, files: Seq(Descs)], order: Seq(Nat), current: Ptr, firmware: Ptr,
            handle: Files \cup {NoFile}, checksum: Sums \cup {NoSum}]
Steps   == {"idle", "mail", "unmail", "info", "next", "record", "save"}
Counts  == [Counters -> Nat]

(* The types of all variables, records and sequences included.             *)
Types ==
  /\ content \in [Files -> Contents]
  /\ recorded \in [Files -> Revisions \cup {NoRevision}]
  /\ mailbox \in Descs \cup {NoMail}
  /\ running \in Revisions /\ committed \in Revisions /\ trial \in BOOLEAN
  /\ conn \in {"down", "subscribing", "up"} /\ step \in Steps
  /\ sft \in SftType
  /\ target \in [Files -> Revisions] /\ known \in [Files -> Revisions \cup {NoRevision}]
  /\ down \in Seq(Fua \cup Chunks) /\ up \in Seq(Ups)
  /\ url \subseteq Descs /\ tasks \in Seq([file: Files, ok: BOOLEAN])
  /\ used \in Counts

(* A session begins with an empty context; what a handler goes on with      *)
(* needs a package.                                                         *)
SessionInv ==
  /\ conn # "up" => /\ sft = NoContext /\ down = <<>> /\ up = <<>> /\ url = {} /\ tasks = <<>>
                    /\ step \in {"idle", "mail", "unmail", "info"}
  /\ step \in {"mail", "unmail", "info"} => conn = "subscribing"
  /\ step \in {"next", "record", "save"} => sft.fua # NoPackage

(* A package: each file once, and each place once in the order.             *)
Distinct(files) == \A i, j \in 1 .. Len(files) : files[i].file = files[j].file => i = j
IsPackage(files) ==
  /\ files # <<>> /\ Distinct(files)
  /\ Len(files) <= Cardinality(Files)
  /\ \A i \in 1 .. Len(files) : files[i].rev <= target[files[i].file]

Ordered(i) == \E j \in 1 .. Len(sft.order) : sft.order[j] = i

PackageInv ==
  /\ \A i \in 1 .. Len(down) : down[i].type = "fua" => IsPackage(down[i].files)
  /\ sft.fua = NoPackage <=> sft.fua.id = 0
  /\ sft.fua # NoPackage => IsPackage(sft.fua.files)
  /\ \A j \in 1 .. Len(sft.order) : sft.order[j] <= Cardinality(Files)
  /\ sft.fua # NoPackage =>
       /\ Len(sft.order) = Len(sft.fua.files)
       /\ \A j \in 1 .. Len(sft.order) : sft.order[j] <= Len(sft.fua.files)
       /\ \A j, k \in 1 .. Len(sft.order) : sft.order[j] = sft.order[k] /\ sft.order[j] # 0 => j = k

(* The file being downloaded is one of the package, unless a new package    *)
(* has just come.                                                           *)
CurrentInv ==
  /\ sft.fua = NoPackage => sft.current = Null
  /\ sft.current # Null => Live(sft.current) \/ step = "next"
  /\ sft.current # Null /\ Live(sft.current) =>
       sft.current.at \in 1 .. Len(sft.fua.files) /\ ~Ordered(sft.current.at)
  /\ step \in {"record", "save"} => sft.current # Null /\ Intact(Current.file, Current.rev)
  /\ {sft.current, sft.firmware} \subseteq Pointers

(* The i-th file of the package is done.                                    *)
Done(i) ==
  /\ i \in 1 .. Len(sft.fua.files) /\ ~Ordered(i)
  /\ sft.current = [pkg |-> sft.fua.id, at |-> i] => step = "next"

DoneInv == sft.fua # NoPackage =>
             \A i \in 1 .. Len(sft.fua.files) : Done(i) => Intact(sft.fua.files[i].file, sft.fua.files[i].rev)

(* Nothing but first chunks is on its way.                                  *)
Fresh ==
  /\ \A i \in 1 .. Len(down) : down[i].type = "chunk" => down[i].off = 0
  /\ \A i \in 1 .. Len(up) : up[i].type = "get" => up[i].off = 0

(* The file left open is not one that is done.                              *)
HandleInv ==
  /\ \/ sft.handle = NoFile \/ Fresh
     \/ \A i \in 1 .. Len(sft.fua.files) : Done(i) => sft.fua.files[i].file # sft.handle
  /\ step \in {"record", "save"} => sft.handle = NoFile \/ Fresh

(* A checksum that may still come out right covers what is on the disk.     *)
Prefix(sum, f, r) == \A i \in 1 .. Len(sum) : sum[i] = <<f, r, i - 1>>
Coherent(sum, handle, disk_) ==
  sum # NoSum /\ sum # <<>> =>
    \A f \in Files, r \in Revisions : Prefix(sum, f, r) =>
      /\ handle \in {f, NoFile}
      /\ \A o \in Offsets : disk_[f][o] = IF o < Len(sum) THEN <<f, r>> ELSE Hole
SumInv == Fresh \/ Coherent(sft.checksum, sft.handle, content)

(* A download by the application is of the current file, alone.             *)
UrlInv ==
  url # {} \/ tasks # <<>> =>
    /\ NoOverlap /\ step = "idle" /\ sft.current # Null
    /\ \/ url = {Current} /\ tasks = <<>>
       \/ /\ url = {}
          /\ \E ok \in BOOLEAN : /\ tasks = <<[file |-> Current.file, ok |-> ok]>>
                                 /\ ok => Intact(Current.file, Current.rev)

(* The firmware: of the package once it was selected, and in each package   *)
(* of a session after the first one with it.                                *)
HasFirmware(files) == \E i \in 1 .. Len(files) : files[i].file \in Firmware
FirmwareInv ==
  /\ Firmware = {} => sft.firmware = Null
  /\ \A i \in 1 .. Len(sft.fua.files) :
       sft.fua.files[i].file \in Firmware /\ ~Ordered(i) =>
         /\ sft.firmware = [pkg |-> sft.fua.id, at |-> i]
         /\ Done(i) => mailbox = sft.fua.files[i]
  /\ step = "save" => sft.firmware # sft.current
Offered(i) == down[i].type = "fua" /\ HasFirmware(down[i].files)
OfferInv ==
  /\ \A i, j \in 1 .. Len(down) : i < j /\ Offered(i) /\ down[j].type = "fua" => Offered(j)
  /\ HasFirmware(sft.fua.files) =>
       \A i \in 1 .. Len(down) : down[i].type = "fua" => Offered(i)
  /\ sft.firmware # Null => HasFirmware(sft.fua.files)
  /\ HasFirmware(sft.fua.files) \/ (\E i \in 1 .. Len(down) : Offered(i)) =>
       \A f \in Firmware : known[f] # target[f]

(* The revisions of the device and of the server's view are behind.         *)
BehindInv ==
  /\ \A f \in Files : known[f] <= target[f] /\ recorded[f] <= target[f]
  /\ mailbox # NoMail => mailbox.rev <= target[mailbox.file]

(* A firmware on trial finds its own revision in the mailbox.               *)
TrialInv ==
  /\ ~Reboots => ~trial
  /\ trial => mailbox # NoMail /\ conn # "up" /\ step = "idle"
  /\ step = "unmail" => mailbox # NoMail
  /\ (trial \/ step \in {"mail", "unmail"}) /\ mailbox # NoMail =>
       mailbox.file \in Firmware /\ mailbox.rev = running

FaultInv == fault = "none"

(* A session begins with file_info, before anything else; only other files   *)
(* than the firmware are reported as finished.                               *)
WireInv ==
  \A i \in 1 .. Len(up) :
    /\ up[i].type = "info" =>
         /\ Len(up) = 1 /\ up[i].revs = recorded /\ sft = NoContext
         /\ down = <<>> /\ step = "idle" /\ url = {} /\ tasks = <<>>
    /\ up[i].type = "status" => up[i].file \notin Firmware /\ up[i].rev <= target[up[i].file]

(* Packages do not overlap and no report is lost.                            *)
Alone == used["early"] = 0 /\ used["untold"] = 0

(* What is then being downloaded is neither recorded nor known to the server *)
(* in its new revision, nor is the server about to hear of it.               *)
Told(f)   == \E i \in 1 .. Len(up) : up[i].type = "status" /\ up[i].file = f
ToCome(d) == d.file \notin Firmware =>
               known[d.file] < d.rev /\ recorded[d.file] < d.rev /\ ~Told(d.file)
Pending(i) == \/ Ordered(i)
              \/ sft.current = [pkg |-> sft.fua.id, at |-> i] /\ step \in {"idle", "record"}
AloneInv ==
  Alone =>
    /\ \A i \in 1 .. Len(down) : down[i].type = "fua" =>
         /\ Len(down) = 1 /\ up = <<>> /\ url = {} /\ tasks = <<>> /\ step = "idle"
         /\ \A k \in 1 .. Len(down[i].files) : ToCome(down[i].files[k])
    /\ sft.fua # NoPackage =>
         \A i \in 1 .. Len(sft.fua.files) : Pending(i) => ToCome(sft.fua.files[i])
    /\ \/ sft.handle = NoFile \/ Fresh
       \/ sft.current # Null /\ Live(sft.current) /\ sft.handle = Current.file
    /\ step = "next" => sft.handle = NoFile \/ Fresh
    /\ \A f \in Files \ Firmware : /\ known[f] = target[f] => Intact(f, target[f])
                                   /\ recorded[f] = target[f] => Intact(f, target[f])

(* What the server is about to hear is true and newer than what it knows ... *)
ReportInv ==
  Alone =>
    \A i \in 1 .. Len(up) : up[i].type = "status" =>
      /\ known[up[i].file] <= up[i].rev
      /\ up[i].rev = target[up[i].file] => Intact(up[i].file, target[up[i].file])
      /\ \A j \in 1 .. Len(up) : up[j].type = "status" /\ up[j].file = up[i].file => j = i

(* ... and when it has heard all, it knows of everything that is recorded.   *)
Heard(f, r) ==
  \/ r <= known[f]
  \/ \E i \in 1 .. Len(up) : \/ up[i].type = "status" /\ up[i].file = f /\ r <= up[i].rev
                             \/ up[i].type = "info"
KnownInv ==
  Alone /\ conn = "up" =>
    \A f \in Files \ Firmware : /\ Heard(f, recorded[f])
                                /\ step = "save" /\ f = Current.file => Heard(f, Current.rev)

Inv == /\ Types /\ SessionInv /\ PackageInv /\ CurrentInv /\ DoneInv /\ HandleInv /\ SumInv /\ UrlInv
       /\ FirmwareInv /\ OfferInv /\ BehindInv /\ TrialInv /\ FaultInv /\ WireInv /\ AloneInv
       /\ ReportInv /\ KnownInv
-----------------------------------------------------------------------------
LEMMA Appended ==
  ASSUME NEW S, NEW q \in Seq(S), NEW w \in S
  PROVE  /\ Append(q, w) \in Seq(S) /\ Len(Append(q, w)) = Len(q) + 1 /\ Len(q) \in Nat
         /\ \A i \in 1 .. Len(q) : Append(q, w)[i] = q[i]
         /\ Append(q, w)[Len(q) + 1] = w
OBVIOUS

LEMMA Shifted ==
  ASSUME NEW S, NEW q \in Seq(S), q # <<>>
  PROVE  /\ Head(q) = q[1] /\ Head(q) \in S /\ Len(q) \in Nat /\ Len(q) >= 1
         /\ Tail(q) \in Seq(S) /\ Len(Tail(q)) = Len(q) - 1
         /\ \A i \in 1 .. (Len(q) - 1) : Tail(q)[i] = q[i + 1]
OBVIOUS

LEMMA CardinalityFacts ==
  /\ Cardinality(Files) \in Nat
  /\ \A S \in SUBSET Files : Cardinality(S) \in Nat /\ Cardinality(S) <= Cardinality(Files)
BY FilesAssumption, FS_CardinalityType, FS_Subset

LEMMA RevisionNumbers ==
  ASSUME NEW r \in Revisions \cup {NoRevision}
  PROVE  r \in Nat /\ r <= r
BY FilesAssumption DEF Revisions, NoRevision

(* The first file that waits.                                                *)
LEMMA FirstWaits ==
  ASSUME Types, Waiting # {}
  PROVE  First \in 1 .. Len(sft.order) /\ sft.order[First] # 0
<1> DEFINE R == OpToRel(<, Nat)
<1>1. IsWellFoundedOn(R, Nat) BY NatLessThanWellFounded
<1>2. \A x, y \in Nat : x < y => <<x, y>> \in R BY DEF OpToRel
<1> HIDE DEF R
<1>3. Waiting \subseteq Nat BY DEF Waiting
<1>4. PICK x \in Waiting : \A y \in Waiting : ~(<<y, x>> \in R) BY <1>1, <1>3, WFMin
<1>5. \A y \in Waiting : x <= y
  <2> SUFFICES ASSUME NEW y \in Waiting, ~(x <= y) PROVE FALSE OBVIOUS
  <2>1. y < x BY <1>3
  <2> QED BY <2>1, <1>2, <1>3, <1>4
<1>6. First \in Waiting BY <1>5 DEF First
<1> QED BY <1>6 DEF Waiting

(* Two revisions of a file differ.                                           *)
LEMMA WholeDiffers ==
  ASSUME NEW f \in Files, NEW r \in Revisions, NEW q \in Revisions, Whole(f, r) = Whole(f, q)
  PROVE  r = q
<1>1. Size[f][r] \in 1 .. MaxSize /\ Size[f][q] \in 1 .. MaxSize /\ MaxSize \in Nat
  BY FilesAssumption
<1>2. 0 \in Offsets BY <1>1 DEF Offsets
<1>3. Whole(f, r)[0] = <<f, r>> /\ Whole(f, q)[0] = <<f, q>> BY <1>1, <1>2 DEF Whole
<1> QED BY <1>3

LEMMA WholeType ==
  ASSUME NEW f \in Files, NEW r \in Revisions
  PROVE  Whole(f, r) \in Contents /\ Blank \in Contents
BY DEF Whole, Blank, Contents

(* The firmware file found after a complete download is the one downloaded.  *)
LEMMA ImageFound ==
  ASSUME NEW f \in Files, NEW r \in Revisions, Intact(f, r)
  PROVE  Image(f) = r
<1>1. \E q \in Revisions : content[f] = Whole(f, q) BY DEF Intact
<1>2. PICK q \in Revisions : q = Image(f) /\ content[f] = Whole(f, q) BY <1>1 DEF Image
<1> QED BY <1>2, WholeDiffers DEF Intact

LEMMA InitInv == Init => Inv
<1> SUFFICES ASSUME Init PROVE Inv OBVIOUS
<1> USE DEF Init
<1>1. 1 \in Revisions /\ \A f \in Files : 1 <= Latest[f] BY FilesAssumption DEF Revisions
<1>2. sft = NoContext /\ NoContext \in SftType /\ sft.fua = NoPackage /\ sft.current = Null
      /\ sft.firmware = Null /\ sft.order = <<>> /\ sft.handle = NoFile /\ sft.checksum = NoSum
  BY DEF NoContext, SftType, NoPackage, Null, Ptr
<1>3. Types
  <2>1. content \in [Files -> Contents] BY <1>1, WholeType
  <2>2. /\ recorded \in [Files -> Revisions \cup {NoRevision}] /\ target \in [Files -> Revisions]
        /\ known \in [Files -> Revisions \cup {NoRevision}]
    BY <1>1
  <2>3. used \in Counts BY DEF Counts, Counters
  <2>4. mailbox \in Descs \cup {NoMail} /\ step \in Steps BY DEF Steps
  <2>5. down \in Seq(Fua \cup Chunks) /\ up \in Seq(Ups) /\ tasks \in Seq([file: Files, ok: BOOLEAN])
    OBVIOUS
  <2> QED BY <1>1, <1>2, <2>1, <2>2, <2>3, <2>4, <2>5 DEF Types
<1>4. SessionInv BY DEF SessionInv
<1>5. NoPackage.id = 0 /\ NoPackage.files = <<>> BY DEF NoPackage
<1>6. PackageInv BY <1>2, <1>5 DEF PackageInv
<1>7. CurrentInv BY <1>2 DEF CurrentInv, Pointers
<1>8. DoneInv BY <1>2 DEF DoneInv
<1>9. HandleInv BY <1>2 DEF HandleInv
<1>10. SumInv BY <1>2 DEF SumInv, Coherent
<1>11. UrlInv BY DEF UrlInv
<1>12. FirmwareInv BY <1>2, <1>5 DEF FirmwareInv
<1>13. OfferInv BY <1>2, <1>5 DEF OfferInv, HasFirmware
<1>14. BehindInv BY <1>1 DEF BehindInv
<1>15. TrialInv /\ FaultInv BY DEF TrialInv, FaultInv
<1>16. AloneInv BY <1>2 DEF AloneInv, Intact
<1>17. WireInv /\ ReportInv /\ KnownInv BY DEF WireInv, ReportInv, KnownInv
<1> QED BY <1>3, <1>4, <1>6, <1>7, <1>8, <1>9, <1>10, <1>11, <1>12, <1>13, <1>14, <1>15, <1>16,
           <1>17 DEF Inv

-----------------------------------------------------------------------------
(* The fields of the context.                                                *)
LEMMA SftFields ==
  ASSUME sft \in SftType
  PROVE  /\ sft.fua.files \in Seq(Descs) /\ sft.order \in Seq(Nat) /\ sft.fua.id \in 0 .. 2
         /\ sft.current \in Ptr /\ sft.firmware \in Ptr /\ sft.handle \in Files \cup {NoFile}
         /\ sft.checksum \in Sums \cup {NoSum}
         /\ sft.fua = [id |-> sft.fua.id, files |-> sft.fua.files]
BY DEF SftType

(* The descriptor of the file being downloaded.                              *)
LEMMA CurrentType ==
  ASSUME Types, CurrentInv, sft.current # Null, Live(sft.current)
  PROVE  /\ sft.current.at \in 1 .. Len(sft.fua.files) /\ ~Ordered(sft.current.at)
         /\ Current = sft.fua.files[sft.current.at] /\ Current \in Descs
         /\ Current.file \in Files /\ Current.rev \in Revisions
         /\ sft.fua # NoPackage /\ sft.current = [pkg |-> sft.fua.id, at |-> sft.current.at]
<1>1. sft \in SftType BY DEF Types
<1>2. sft.fua.files \in Seq(Descs) /\ sft.current \in Ptr BY <1>1, SftFields
<1>3. sft.current.at \in 1 .. Len(sft.fua.files) /\ ~Ordered(sft.current.at) BY DEF CurrentInv
<1>4. Current = sft.fua.files[sft.current.at] BY DEF Current, Desc
<1>5. Current \in Descs BY <1>2, <1>3, <1>4
<1>6. sft.fua # NoPackage /\ sft.current.pkg = sft.fua.id BY DEF Live
<1>7. sft.current = [pkg |-> sft.current.pkg, at |-> sft.current.at] BY <1>2 DEF Ptr
<1> QED BY <1>3, <1>4, <1>5, <1>6, <1>7 DEF Descs

(* The message at the head of the queue.                                     *)
LEMMA ChunkType ==
  ASSUME Types, Received("chunk")
  PROVE  /\ down # <<>> /\ Chunk = down[1] /\ Chunk \in Chunks /\ Chunk.type = "chunk"
         /\ Chunk.file \in Files /\ Chunk.rev \in Revisions /\ Chunk.off \in Nat
         /\ Tail(down) \in Seq(Fua \cup Chunks)
<1>1. down \in Seq(Fua \cup Chunks) /\ down # <<>> /\ Chunk.type = "chunk"
  BY DEF Types, Received, Chunk
<1>2. Chunk = down[1] /\ Chunk \in Fua \cup Chunks /\ Tail(down) \in Seq(Fua \cup Chunks)
  BY <1>1, Shifted DEF Chunk
<1>3. Chunk \in Chunks BY <1>1, <1>2 DEF Fua
<1> QED BY <1>1, <1>2, <1>3 DEF Chunks

LEMMA FuaType ==
  ASSUME Types, Received("fua")
  PROVE  /\ down # <<>> /\ Head(down) = down[1] /\ Head(down).type = "fua"
         /\ Head(down).files \in Seq(Descs) /\ Tail(down) \in Seq(Fua \cup Chunks)
<1>1. down \in Seq(Fua \cup Chunks) /\ down # <<>> /\ Head(down).type = "fua"
  BY DEF Types, Received
<1>2. Head(down) = down[1] /\ Head(down) \in Fua \cup Chunks /\ Tail(down) \in Seq(Fua \cup Chunks)
  BY <1>1, Shifted
<1>3. Head(down) \in Fua BY <1>1, <1>2 DEF Chunks
<1> QED BY <1>1, <1>2, <1>3 DEF Fua

(* The context after the file was opened, and after a chunk was written.     *)
LEMMA OpenedFields ==
  ASSUME Types, Received("chunk")
  PROVE  /\ Opened(sft) \in SftType
         /\ Opened(sft).fua = sft.fua /\ Opened(sft).order = sft.order
         /\ Opened(sft).current = sft.current /\ Opened(sft).firmware = sft.firmware
         /\ Chunk.off # 0 => Opened(sft).handle = sft.handle /\ Opened(sft).checksum = sft.checksum
         /\ Chunk.off = 0 => Opened(sft).handle = Chunk.file /\ Opened(sft).checksum = <<>>
<1>1. sft \in SftType BY DEF Types
<1>2. Chunk.file \in Files BY ChunkType
<1>3. <<>> \in Sums BY DEF Sums
<1> QED BY <1>1, <1>2, <1>3 DEF Opened, SftType

LEMMA WrittenFields ==
  ASSUME Types, Received("chunk")
  PROVE  /\ Written(sft) \in SftType
         /\ Written(sft).fua = sft.fua /\ Written(sft).order = sft.order
         /\ Written(sft).current = sft.current /\ Written(sft).firmware = sft.firmware
         /\ Written(sft).handle = Opened(sft).handle
         /\ Opened(sft).checksum = NoSum => Written(sft).checksum = NoSum
         /\ Opened(sft).checksum # NoSum =>
              /\ Opened(sft).checksum \in Sums
              /\ Written(sft).checksum = Append(Opened(sft).checksum, <<Chunk.file, Chunk.rev, Chunk.off>>)
<1> DEFINE o == Opened(sft)
           e == <<Chunk.file, Chunk.rev, Chunk.off>>
<1>1. /\ o \in SftType /\ o.fua = sft.fua /\ o.order = sft.order
      /\ o.current = sft.current /\ o.firmware = sft.firmware
  BY OpenedFields
<1>2. e \in Files \X Revisions \X Nat BY ChunkType
<1>3. Written(sft) = IF o.checksum = NoSum THEN o ELSE [o EXCEPT !.checksum = Append(@, e)]
  BY DEF Written, Fed
<1>4. o.checksum \in Sums \cup {NoSum} BY <1>1 DEF SftType
<1> HIDE DEF o, e
<1>5. /\ Written(sft) \in SftType /\ Written(sft).fua = o.fua /\ Written(sft).order = o.order
      /\ Written(sft).current = o.current /\ Written(sft).firmware = o.firmware
      /\ Written(sft).handle = o.handle
      /\ o.checksum = NoSum => Written(sft).checksum = NoSum
      /\ o.checksum # NoSum => o.checksum \in Sums /\ Written(sft).checksum = Append(o.checksum, e)
  <2>1. CASE o.checksum = NoSum BY <1>1, <1>3, <2>1
  <2>2. CASE o.checksum # NoSum
    <3>1. o.checksum \in Sums BY <1>4, <2>2
    <3>2. Append(o.checksum, e) \in Sums BY <1>2, <3>1, Appended DEF Sums
    <3>3. Written(sft) = [o EXCEPT !.checksum = Append(o.checksum, e)] BY <1>3, <2>2
    <3> QED BY <1>1, <2>2, <3>1, <3>2, <3>3 DEF SftType
  <2> QED BY <2>1, <2>2
<1> QED BY <1>1, <1>5 DEF o, e

-----------------------------------------------------------------------------
(***************************************************************************)
(* The session.                                                            *)
(***************************************************************************)
(* Whatever ends a session leaves an empty context.                          *)
LEMMA Cleared ==
  ASSUME FaultInv,
         sft' = NoContext, down' = <<>>, url' = {}, tasks' = <<>>, fault' = fault,
         conn' # "up" => up' = <<>>,
         step' \in {"idle", "mail", "unmail", "info"}, step' # "idle" => conn' = "subscribing"
  PROVE  /\ SessionInv' /\ PackageInv' /\ CurrentInv' /\ DoneInv' /\ HandleInv' /\ SumInv'
         /\ UrlInv' /\ FirmwareInv' /\ OfferInv' /\ FaultInv' /\ sft' \in SftType
         /\ up' = <<>> => WireInv' /\ ReportInv'
<1>1. /\ NoContext \in SftType /\ sft'.fua = NoPackage /\ sft'.current = Null
      /\ sft'.firmware = Null /\ sft'.order = <<>> /\ sft'.handle = NoFile /\ sft'.checksum = NoSum
  BY DEF NoContext, SftType, NoPackage, Null, Ptr
<1>2. NoPackage.id = 0 /\ NoPackage.files = <<>> BY DEF NoPackage
<1>3. SessionInv' BY DEF SessionInv
<1>4. PackageInv' BY <1>1, <1>2 DEF PackageInv
<1>5. CurrentInv' BY <1>1 DEF CurrentInv, Pointers
<1>6. DoneInv' BY <1>1 DEF DoneInv
<1>7. HandleInv' BY <1>1 DEF HandleInv
<1>8. SumInv' BY <1>1 DEF SumInv, Coherent
<1>9. UrlInv' BY DEF UrlInv
<1>10. FirmwareInv' BY <1>1, <1>2 DEF FirmwareInv
<1>11. OfferInv' BY <1>1, <1>2 DEF OfferInv, HasFirmware
<1>12. FaultInv' BY DEF FaultInv
<1>13. up' = <<>> => WireInv' /\ ReportInv' BY DEF WireInv, ReportInv
<1> QED BY <1>1, <1>3, <1>4, <1>5, <1>6, <1>7, <1>8, <1>9, <1>10, <1>11, <1>12, <1>13

(* What the server knows and the device records is then all that can be     *)
(* wrong about a file.                                                       *)
LEMMA ClearedAlone ==
  ASSUME Types, AloneInv,
         sft' = NoContext, down' = <<>>, step' # "next",
         Alone' => Alone, content' = content, target' = target,
         \A f \in Files \ Firmware : known'[f] \in {known[f], recorded[f]},
         \A f \in Files \ Firmware : recorded'[f] \in {recorded[f], NoRevision}
  PROVE  AloneInv'
<1>1. sft'.fua = NoPackage /\ sft'.handle = NoFile BY DEF NoContext
<1>2. ASSUME Alone, NEW f \in Files \ Firmware
      PROVE  /\ known'[f] = target[f] => Intact(f, target[f])
             /\ recorded'[f] = target[f] => Intact(f, target[f])
  <2>1. target[f] # NoRevision BY DEF Types, NoRevision, Revisions
  <2>2. /\ known[f] = target[f] => Intact(f, target[f])
        /\ recorded[f] = target[f] => Intact(f, target[f])
    BY <1>2 DEF AloneInv
  <2> QED BY <2>1, <2>2
<1>3. \A f \in Files : Intact(f, target[f])' <=> Intact(f, target[f]) BY DEF Intact, Whole
<1> QED BY <1>1, <1>2, <1>3 DEF AloneInv

(* A counter of the environment.                                             *)
LEMMA Counted ==
  ASSUME NEW what \in Counters, NEW max, used \in Counts, Budget(what, max)
  PROVE  used' \in Counts /\ (Alone' => Alone) /\ (what = "early" => ~Alone')
<1>1. used' = [used EXCEPT ![what] = @ + 1] BY DEF Budget
<1>2. {"early", "untold"} \subseteq Counters BY DEF Counters
<1> QED BY <1>1, <1>2 DEF Counts, Alone

LEMMA ConnectStep == Inv /\ Connect => Inv'
<1> SUFFICES ASSUME Inv, Connect PROVE Inv' OBVIOUS
<1>1. /\ Types /\ SessionInv /\ BehindInv /\ TrialInv /\ FaultInv /\ AloneInv BY DEF Inv
<1>2. /\ step = "idle" /\ conn = "down" /\ conn' = "subscribing" /\ sft' = NoContext /\ step' = step
      /\ UNCHANGED <<content, recorded, mailbox, running, committed, trial, target, known, down, up,
                     url, tasks, fault, used>>
  BY DEF Connect, Idle, disk, booted, server, wire, app
<1>3. down = <<>> /\ up = <<>> /\ url = {} /\ tasks = <<>> BY <1>1, <1>2 DEF SessionInv
<1>4. /\ SessionInv' /\ PackageInv' /\ CurrentInv' /\ DoneInv' /\ HandleInv' /\ SumInv'
      /\ UrlInv' /\ FirmwareInv' /\ OfferInv' /\ FaultInv' /\ sft' \in SftType
      /\ up' = <<>> => WireInv' /\ ReportInv'
  BY <1>1, <1>2, <1>3, Cleared
<1>5. Types' BY <1>1, <1>2, <1>4 DEF Types
<1>6. BehindInv' BY <1>1, <1>2 DEF BehindInv
<1>7. TrialInv' BY <1>1, <1>2 DEF TrialInv
<1>8. AloneInv' BY <1>1, <1>2, <1>3, ClearedAlone DEF Alone
<1>9. KnownInv' BY <1>2 DEF KnownInv
<1> QED BY <1>2, <1>3, <1>4, <1>5, <1>6, <1>7, <1>8, <1>9 DEF Inv

(* Of a session that is not up.                                              *)
LEMMA NotUp ==
  ASSUME Inv, conn # "up"
  PROVE  /\ Types /\ SessionInv /\ BehindInv /\ TrialInv /\ FaultInv /\ AloneInv
         /\ sft = NoContext /\ down = <<>> /\ up = <<>> /\ url = {} /\ tasks = <<>>
         /\ sft.fua = NoPackage /\ sft.firmware = Null /\ sft.current = Null
<1>1. Types /\ SessionInv /\ BehindInv /\ TrialInv /\ FaultInv /\ AloneInv BY DEF Inv
<1>2. sft = NoContext /\ down = <<>> /\ up = <<>> /\ url = {} /\ tasks = <<>>
  BY <1>1 DEF SessionInv
<1> QED BY <1>1, <1>2 DEF NoContext

LEMMA SubackOkStep == Inv /\ SubackOk => Inv'
<1> SUFFICES ASSUME Inv, SubackOk PROVE Inv' OBVIOUS
<1>1. /\ step = "idle" /\ conn = "subscribing" /\ trial' = FALSE /\ committed' = running
      /\ step' = (IF trial THEN "mail" ELSE "info")
      /\ UNCHANGED <<content, recorded, mailbox, running, conn, sft, target, known, down, up,
                     url, tasks, fault, used>>
  BY DEF SubackOk, Idle, Commit, disk, server, wire, app
<1>2. /\ Types /\ SessionInv /\ BehindInv /\ TrialInv /\ FaultInv /\ AloneInv
      /\ sft = NoContext /\ down = <<>> /\ up = <<>> /\ url = {} /\ tasks = <<>>
  BY <1>1, NotUp
<1>3. step' \in {"mail", "info"} BY <1>1
<1>4. /\ SessionInv' /\ PackageInv' /\ CurrentInv' /\ DoneInv' /\ HandleInv' /\ SumInv'
      /\ UrlInv' /\ FirmwareInv' /\ OfferInv' /\ FaultInv' /\ sft' \in SftType
      /\ up' = <<>> => WireInv' /\ ReportInv'
  BY <1>1, <1>2, <1>3, Cleared
<1>5. Types' BY <1>1, <1>2, <1>3, <1>4 DEF Types, Steps
<1>6. BehindInv' BY <1>1, <1>2 DEF BehindInv
<1>7. TrialInv' BY <1>1, <1>2 DEF TrialInv
<1>8. AloneInv' BY <1>1, <1>2, <1>3, ClearedAlone DEF Alone
<1>9. KnownInv' BY <1>1 DEF KnownInv
<1> QED BY <1>1, <1>2, <1>4, <1>5, <1>6, <1>7, <1>8, <1>9 DEF Inv

LEMMA RecordFirmwareStep == Inv /\ RecordFirmware => Inv'
<1> SUFFICES ASSUME Inv, RecordFirmware PROVE Inv' OBVIOUS
<1>1. /\ step = "mail"
      /\ \/ mailbox = NoMail /\ step' = "info" /\ recorded' = recorded
         \/ /\ mailbox # NoMail /\ step' = "unmail"
            /\ recorded' = [recorded EXCEPT ![mailbox.file] = mailbox.rev]
      /\ UNCHANGED <<content, mailbox, running, committed, trial, conn, sft, target, known, down, up,
                     url, tasks, fault, used>>
  BY DEF RecordFirmware, At, booted, server, wire, app
<1>2. conn = "subscribing" BY <1>1 DEF Inv, SessionInv
<1>3. /\ Types /\ SessionInv /\ BehindInv /\ TrialInv /\ FaultInv /\ AloneInv
      /\ sft = NoContext /\ down = <<>> /\ up = <<>> /\ url = {} /\ tasks = <<>>
  BY <1>2, NotUp
<1>4. step' \in {"unmail", "info"} BY <1>1
<1>5. mailbox # NoMail => /\ mailbox \in Descs /\ mailbox.file \in Firmware /\ mailbox.rev = running
                          /\ mailbox.rev \in Revisions /\ mailbox.rev <= target[mailbox.file]
  BY <1>1, <1>3 DEF Types, TrialInv, BehindInv
<1>6. /\ SessionInv' /\ PackageInv' /\ CurrentInv' /\ DoneInv' /\ HandleInv' /\ SumInv'
      /\ UrlInv' /\ FirmwareInv' /\ OfferInv' /\ FaultInv' /\ sft' \in SftType
      /\ up' = <<>> => WireInv' /\ ReportInv'
  BY <1>1, <1>2, <1>3, <1>4, Cleared
<1>7. Firmware \subseteq Files BY FilesAssumption
<1>8. recorded \in [Files -> Revisions \cup {NoRevision}] BY <1>3 DEF Types
<1>9. recorded' \in [Files -> Revisions \cup {NoRevision}] BY <1>1, <1>5, <1>8
<1>10. Types' BY <1>1, <1>3, <1>4, <1>6, <1>9 DEF Types, Steps
<1>11. BehindInv' BY <1>1, <1>3, <1>5, <1>8 DEF BehindInv
<1>12. TrialInv' BY <1>1, <1>3 DEF TrialInv
<1>13. \A f \in Files \ Firmware : recorded'[f] = recorded[f] BY <1>1, <1>5, <1>7, <1>8
<1>14. AloneInv' BY <1>1, <1>3, <1>4, <1>13, ClearedAlone DEF Alone
<1>15. KnownInv' BY <1>1, <1>2 DEF KnownInv
<1> QED BY <1>1, <1>3, <1>6, <1>10, <1>11, <1>12, <1>14, <1>15 DEF Inv

LEMMA RecordFirmwareFailsStep == Inv /\ RecordFirmwareFails => Inv'
<1> SUFFICES ASSUME Inv, RecordFirmwareFails PROVE Inv' OBVIOUS
<1>1. /\ step = "mail" /\ mailbox # NoMail /\ step' = "unmail"
      /\ \/ recorded' = recorded
         \/ recorded' = [recorded EXCEPT ![mailbox.file] = NoRevision]
      /\ Budget("faults", MaxFaults)
      /\ UNCHANGED <<content, mailbox, running, committed, trial, conn, sft, target, known, down, up,
                     url, tasks, fault>>
  BY DEF RecordFirmwareFails, RevisionLost, At, booted, server, wire, app
<1>2. conn = "subscribing" BY <1>1 DEF Inv, SessionInv
<1>3. /\ Types /\ SessionInv /\ BehindInv /\ TrialInv /\ FaultInv /\ AloneInv
      /\ sft = NoContext /\ down = <<>> /\ up = <<>> /\ url = {} /\ tasks = <<>>
  BY <1>2, NotUp
<1>4. used' \in Counts /\ (Alone' => Alone)
  <2>1. "faults" \in Counters BY DEF Counters
  <2> QED BY <1>1, <1>3, <2>1, Counted DEF Types
<1>5. /\ SessionInv' /\ PackageInv' /\ CurrentInv' /\ DoneInv' /\ HandleInv' /\ SumInv'
      /\ UrlInv' /\ FirmwareInv' /\ OfferInv' /\ FaultInv' /\ sft' \in SftType
      /\ up' = <<>> => WireInv' /\ ReportInv'
  BY <1>1, <1>2, <1>3, Cleared
<1>6. recorded \in [Files -> Revisions \cup {NoRevision}] BY <1>3 DEF Types
<1>7. recorded' \in [Files -> Revisions \cup {NoRevision}] BY <1>1, <1>6
<1>8. \A f \in Files : recorded'[f] \in {recorded[f], NoRevision} BY <1>1, <1>6
<1>9. Types' BY <1>1, <1>3, <1>4, <1>5, <1>7 DEF Types, Steps
<1>10. \A f \in Files : target[f] \in Nat /\ target[f] >= NoRevision
  BY <1>3 DEF Types, Revisions, NoRevision
<1>11. BehindInv' BY <1>1, <1>3, <1>8, <1>10 DEF BehindInv
<1>12. TrialInv' BY <1>1, <1>3 DEF TrialInv
<1>13. AloneInv' BY <1>1, <1>3, <1>4, <1>8, ClearedAlone
<1>14. KnownInv' BY <1>1, <1>2 DEF KnownInv
<1> QED BY <1>1, <1>3, <1>5, <1>9, <1>11, <1>12, <1>13, <1>14 DEF Inv

LEMMA RemoveMailboxStep == Inv /\ RemoveMailbox => Inv'
<1> SUFFICES ASSUME Inv, RemoveMailbox PROVE Inv' OBVIOUS
<1>1. /\ step = "unmail" /\ mailbox' = NoMail /\ step' = "info"
      /\ UNCHANGED <<content, recorded, running, committed, trial, conn, sft, target, known, down, up,
                     url, tasks, fault, used>>
  BY DEF RemoveMailbox, At, booted, server, wire, app
<1>2. conn = "subscribing" BY <1>1 DEF Inv, SessionInv
<1>3. /\ Types /\ SessionInv /\ BehindInv /\ TrialInv /\ FaultInv /\ AloneInv
      /\ sft = NoContext /\ down = <<>> /\ up = <<>> /\ url = {} /\ tasks = <<>>
  BY <1>2, NotUp
<1>4. /\ SessionInv' /\ PackageInv' /\ CurrentInv' /\ DoneInv' /\ HandleInv' /\ SumInv'
      /\ UrlInv' /\ FirmwareInv' /\ OfferInv' /\ FaultInv' /\ sft' \in SftType
      /\ up' = <<>> => WireInv' /\ ReportInv'
  BY <1>1, <1>2, <1>3, Cleared
<1>5. Types' BY <1>1, <1>3, <1>4 DEF Types, Steps
<1>6. BehindInv' BY <1>1, <1>3 DEF BehindInv
<1>7. TrialInv' BY <1>1, <1>3 DEF TrialInv
<1>8. AloneInv' BY <1>1, <1>3, ClearedAlone DEF Alone
<1>9. KnownInv' BY <1>1, <1>2 DEF KnownInv
<1> QED BY <1>1, <1>3, <1>4, <1>5, <1>6, <1>7, <1>8, <1>9 DEF Inv

LEMMA SendFileInfoStep == Inv /\ SendFileInfo => Inv'
<1> SUFFICES ASSUME Inv, SendFileInfo PROVE Inv' OBVIOUS
<1>1. /\ step = "info" /\ up' = Append(up, FileInfo) /\ conn' = "up" /\ step' = "idle"
      /\ UNCHANGED <<content, recorded, mailbox, running, committed, trial, sft, target, known, down,
                     url, tasks, fault, used>>
  BY DEF SendFileInfo, At, disk, booted, server, app
<1>2. conn = "subscribing" BY <1>1 DEF Inv, SessionInv
<1>3. /\ Types /\ SessionInv /\ BehindInv /\ TrialInv /\ FaultInv /\ AloneInv
      /\ sft = NoContext /\ down = <<>> /\ up = <<>> /\ url = {} /\ tasks = <<>>
  BY <1>2, NotUp
<1>4. /\ SessionInv' /\ PackageInv' /\ CurrentInv' /\ DoneInv' /\ HandleInv' /\ SumInv'
      /\ UrlInv' /\ FirmwareInv' /\ OfferInv' /\ FaultInv' /\ sft' \in SftType
  BY <1>1, <1>3, Cleared
<1>5. FileInfo.type = "info" /\ FileInfo.revs = recorded /\ FileInfo \in Ups
  BY <1>3 DEF FileInfo, Types, Ups, Infos
<1>6. PICK q \in Ups : q = FileInfo BY <1>5
<1>7. up' = <<q>> BY <1>1, <1>3, <1>6
<1>8. up' \in Seq(Ups) /\ Len(up') = 1 /\ up'[1] = q BY <1>6, <1>7
<1>9. \A i \in 1 .. Len(up') : i = 1 BY <1>8
<1>10. Types' BY <1>1, <1>3, <1>4, <1>8 DEF Types, Steps
<1>11. BehindInv' BY <1>1, <1>3 DEF BehindInv
<1>12. TrialInv' BY <1>1, <1>3 DEF TrialInv
<1>13. WireInv' /\ ReportInv'
  <2>1. \A i \in 1 .. Len(up') : up'[i].type = "info" /\ up'[i].revs = recorded'
    BY <1>1, <1>5, <1>6, <1>8, <1>9
  <2> QED BY <1>1, <1>3, <1>8, <2>1 DEF WireInv, ReportInv
<1>14. AloneInv' BY <1>1, <1>3, ClearedAlone DEF Alone
<1>15. KnownInv'
  <2>1. 1 \in 1 .. Len(up') /\ up'[1].type = "info" BY <1>5, <1>6, <1>8
  <2> QED BY <1>1, <2>1 DEF KnownInv, Heard
<1> QED BY <1>4, <1>10, <1>11, <1>12, <1>13, <1>14, <1>15 DEF Inv

LEMMA SubackFailedStep == Inv /\ SubackFailed => Inv'
<1> SUFFICES ASSUME Inv, SubackFailed PROVE Inv' OBVIOUS
<1>1. /\ conn = "subscribing" /\ running' = committed /\ trial' = FALSE
      /\ conn' = "down" /\ step' = "idle" /\ sft' = NoContext
      /\ down' = <<>> /\ up' = <<>> /\ url' = {} /\ tasks' = <<>>
      /\ Budget("crashes", MaxCrashes)
      /\ UNCHANGED <<content, recorded, mailbox, committed, target, known, fault>>
  BY DEF SubackFailed, LoseMemory, disk, server
<1>2. Types /\ SessionInv /\ BehindInv /\ TrialInv /\ FaultInv /\ AloneInv BY DEF Inv
<1>3. used' \in Counts /\ (Alone' => Alone)
  <2>1. "crashes" \in Counters BY DEF Counters
  <2> QED BY <1>1, <1>2, <2>1, Counted DEF Types
<1>4. /\ SessionInv' /\ PackageInv' /\ CurrentInv' /\ DoneInv' /\ HandleInv' /\ SumInv'
      /\ UrlInv' /\ FirmwareInv' /\ OfferInv' /\ FaultInv' /\ sft' \in SftType
      /\ up' = <<>> => WireInv' /\ ReportInv'
  BY <1>1, <1>2, Cleared
<1>5. Types'
  <2>1. /\ down' \in Seq(Fua \cup Chunks) /\ up' \in Seq(Ups) /\ url' \subseteq Descs
        /\ tasks' \in Seq([file: Files, ok: BOOLEAN])
    BY <1>1
  <2> QED BY <1>1, <1>2, <1>3, <1>4, <2>1 DEF Types, Steps
<1>6. BehindInv' BY <1>1, <1>2 DEF BehindInv
<1>7. TrialInv' BY <1>1, <1>2 DEF TrialInv
<1>8. AloneInv' BY <1>1, <1>2, <1>3, ClearedAlone
<1>9. KnownInv' BY <1>1 DEF KnownInv
<1> QED BY <1>1, <1>4, <1>5, <1>6, <1>7, <1>8, <1>9 DEF Inv

LEMMA DisconnectStep == Inv /\ Disconnect => Inv'
<1> SUFFICES ASSUME Inv, Disconnect PROVE Inv' OBVIOUS
<1>1. /\ step = "idle" /\ step' = step /\ conn' = "down" /\ sft' = NoContext
      /\ down' = <<>> /\ up' = <<>> /\ url = {} /\ tasks = <<>>
      /\ Budget("crashes", MaxCrashes)
      /\ UNCHANGED <<content, recorded, mailbox, running, committed, trial, target, known, url, tasks, fault>>
  BY DEF Disconnect, Idle, disk, booted, server, app
<1>2. Types /\ SessionInv /\ BehindInv /\ TrialInv /\ FaultInv /\ AloneInv BY DEF Inv
<1>3. used' \in Counts /\ (Alone' => Alone)
  <2>1. "crashes" \in Counters BY DEF Counters
  <2> QED BY <1>1, <1>2, <2>1, Counted DEF Types
<1>4. /\ SessionInv' /\ PackageInv' /\ CurrentInv' /\ DoneInv' /\ HandleInv' /\ SumInv'
      /\ UrlInv' /\ FirmwareInv' /\ OfferInv' /\ FaultInv' /\ sft' \in SftType
      /\ up' = <<>> => WireInv' /\ ReportInv'
  BY <1>1, <1>2, Cleared
<1>5. Types'
  <2>1. down' \in Seq(Fua \cup Chunks) /\ up' \in Seq(Ups) BY <1>1
  <2> QED BY <1>1, <1>2, <1>3, <1>4, <2>1 DEF Types
<1>6. BehindInv' BY <1>1, <1>2 DEF BehindInv
<1>7. TrialInv' BY <1>1, <1>2 DEF TrialInv
<1>8. AloneInv' BY <1>1, <1>2, <1>3, ClearedAlone
<1>9. KnownInv' BY <1>1 DEF KnownInv
<1> QED BY <1>1, <1>4, <1>5, <1>6, <1>7, <1>8, <1>9 DEF Inv

LEMMA CrashStep == Inv /\ Crash => Inv'
<1> SUFFICES ASSUME Inv, Crash PROVE Inv' OBVIOUS
<1>1. /\ conn' = "down" /\ step' = "idle" /\ sft' = NoContext
      /\ down' = <<>> /\ up' = <<>> /\ url' = {} /\ tasks' = <<>>
      /\ Budget("crashes", MaxCrashes)
      /\ UNCHANGED <<content, committed, target, known, fault>>
      /\ \/ running' = running /\ trial' = trial
         \/ running' = committed /\ trial' = FALSE
  BY DEF Crash, LoseMemory, server
<1>2. Types /\ SessionInv /\ CurrentInv /\ BehindInv /\ TrialInv /\ FaultInv /\ AloneInv BY DEF Inv
<1>3. used' \in Counts /\ (Alone' => Alone)
  <2>1. "crashes" \in Counters BY DEF Counters
  <2> QED BY <1>1, <1>2, <2>1, Counted DEF Types
<1>4. \/ recorded' = recorded
      \/ \E f \in Files : recorded' = [recorded EXCEPT ![f] = NoRevision]
  <2>1. CASE step = "save"
    <3>1. sft.current # Null /\ Live(sft.current) BY <1>2, <2>1 DEF CurrentInv
    <3>2. Current.file \in Files BY <1>2, <3>1, CurrentType
    <3>3. recorded' \in {recorded} \cup {[recorded EXCEPT ![Current.file] = NoRevision]}
      BY <2>1 DEF Crash
    <3> QED BY <3>2, <3>3
  <2>2. CASE step = "mail" /\ mailbox # NoMail
    <3>1. mailbox.file \in Files BY <1>2, <2>2, FilesAssumption DEF TrialInv
    <3>2. recorded' \in {recorded} \cup {[recorded EXCEPT ![mailbox.file] = NoRevision]}
      BY <2>2 DEF Crash
    <3> QED BY <3>1, <3>2
  <2>3. CASE step # "save" /\ ~(step = "mail" /\ mailbox # NoMail)
    <3>1. recorded' \in {recorded} \cup {} BY <2>3 DEF Crash
    <3> QED BY <3>1
  <2> QED BY <2>1, <2>2, <2>3
<1>5. mailbox' = mailbox \/ (mailbox' = NoMail /\ step = "record") BY DEF Crash
<1>6. /\ SessionInv' /\ PackageInv' /\ CurrentInv' /\ DoneInv' /\ HandleInv' /\ SumInv'
      /\ UrlInv' /\ FirmwareInv' /\ OfferInv' /\ FaultInv' /\ sft' \in SftType
      /\ up' = <<>> => WireInv' /\ ReportInv'
  BY <1>1, <1>2, Cleared
<1>7. recorded \in [Files -> Revisions \cup {NoRevision}] BY <1>2 DEF Types
<1>8. recorded' \in [Files -> Revisions \cup {NoRevision}] BY <1>4, <1>7
<1>9. \A f \in Files : recorded'[f] \in {recorded[f], NoRevision} BY <1>4, <1>7
<1>10. Types'
  <2>1. /\ down' \in Seq(Fua \cup Chunks) /\ up' \in Seq(Ups) /\ url' \subseteq Descs
        /\ tasks' \in Seq([file: Files, ok: BOOLEAN])
    BY <1>1
  <2>2. mailbox' \in Descs \cup {NoMail} /\ running' \in Revisions /\ trial' \in BOOLEAN
    BY <1>1, <1>2, <1>5 DEF Types
  <2> QED BY <1>1, <1>2, <1>3, <1>6, <1>8, <2>1, <2>2 DEF Types, Steps
<1>11. \A f \in Files : target[f] \in Nat /\ target[f] >= NoRevision
  BY <1>2 DEF Types, Revisions, NoRevision
<1>12. BehindInv' BY <1>1, <1>2, <1>5, <1>9, <1>11 DEF BehindInv
<1>13. TrialInv' BY <1>1, <1>2, <1>5 DEF TrialInv
<1>14. AloneInv' BY <1>1, <1>2, <1>3, <1>9, ClearedAlone
<1>15. KnownInv' BY <1>1 DEF KnownInv
<1> QED BY <1>1, <1>6, <1>10, <1>12, <1>13, <1>14, <1>15 DEF Inv

-----------------------------------------------------------------------------
(***************************************************************************)
(* The server and the messages in between.                                 *)
(***************************************************************************)
(* Nothing follows file_info before the server has it.                       *)
LEMMA NoInfo ==
  ASSUME Inv, sft.fua # NoPackage \/ down # <<>> \/ step # "idle" \/ url # {} \/ tasks # <<>>
  PROVE  \A i \in 1 .. Len(up) : up[i].type # "info"
<1>1. WireInv BY DEF Inv
<1>2. NoContext.fua = NoPackage BY DEF NoContext
<1> QED BY <1>1, <1>2 DEF WireInv

(* A request changes nothing about the reports on their way.                 *)
LEMMA ReportsKept ==
  ASSUME Inv, \A i \in 1 .. Len(up) : up[i].type # "info",
         up' = up \/ \E q \in Asks : up' = Append(up, q),
         known' = known, target' = target, Alone' => Alone,
         Alone => \A i \in 1 .. Len(up) : up[i].type = "status" => content'[up[i].file] = content[up[i].file]
  PROVE  /\ up' \in Seq(Ups) /\ WireInv' /\ ReportInv'
         /\ \A f : Told(f)' <=> Told(f)
         /\ \A f, r : Heard(f, r) => Heard(f, r)'
<1>1. Types /\ WireInv /\ ReportInv BY DEF Inv
<1>2. up \in Seq(Ups) /\ \A q \in Asks : q \in Ups /\ q.type = "get" BY <1>1 DEF Types, Ups, Asks
<1>3. /\ up' \in Seq(Ups) /\ Len(up) \in Nat /\ Len(up') \in Nat /\ Len(up) <= Len(up')
      /\ \A i \in 1 .. Len(up) : up'[i] = up[i]
      /\ \A i \in 1 .. Len(up') : i \in 1 .. Len(up) \/ up'[i].type = "get"
  <2>1. CASE up' = up BY <1>2, <2>1
  <2>2. ASSUME NEW q \in Asks, up' = Append(up, q) 
        PROVE  /\ up' \in Seq(Ups) /\ Len(up) \in Nat /\ Len(up') \in Nat /\ Len(up) <= Len(up')
               /\ \A i \in 1 .. Len(up) : up'[i] = up[i]
               /\ \A i \in 1 .. Len(up') : i \in 1 .. Len(up) \/ up'[i].type = "get"
    <3>1. /\ up' \in Seq(Ups) /\ Len(up') = Len(up) + 1 /\ Len(up) \in Nat
          /\ \A i \in 1 .. Len(up) : up'[i] = up[i]
          /\ up'[Len(up) + 1] = q
      BY <1>2, <2>2, Appended
    <3>2. \A i \in 1 .. Len(up') : i \in 1 .. Len(up) \/ i = Len(up) + 1 BY <3>1
    <3> QED BY <1>2, <3>1, <3>2
  <2> QED BY <2>1, <2>2
<1>4. \A i \in 1 .. Len(up) : i \in 1 .. Len(up') BY <1>3
<1>5. \A i \in 1 .. Len(up') : up'[i].type # "info" BY <1>3
<1>6. \A i \in 1 .. Len(up') : up'[i].type = "status" => i \in 1 .. Len(up) /\ up'[i] = up[i] BY <1>3
<1>7. WireInv' BY <1>1, <1>5, <1>6 DEF WireInv
<1>8. ReportInv'
  <2>1. SUFFICES ASSUME Alone PROVE ReportInv' BY DEF ReportInv
  <2>2. \A i \in 1 .. Len(up) : up[i].type = "status" =>
          (up[i].rev = target[up[i].file] => content'[up[i].file] = Whole(up[i].file, target[up[i].file]))
    BY <1>1, <2>1 DEF ReportInv, Intact
  <2>3. \A i \in 1 .. Len(up') : up'[i].type = "status" =>
          /\ known'[up'[i].file] <= up'[i].rev
          /\ up'[i].rev = target'[up'[i].file] => Intact(up[i].file, target[up[i].file])'
    BY <1>1, <1>6, <2>1, <2>2 DEF ReportInv, Intact
  <2>4. ASSUME NEW i \in 1 .. Len(up'), up'[i].type = "status",
               NEW j \in 1 .. Len(up'), up'[j].type = "status" /\ up'[j].file = up'[i].file
        PROVE  j = i
    BY <1>1, <1>6, <2>1, <2>4 DEF ReportInv
  <2> QED BY <2>3, <2>4 DEF ReportInv
<1>9. \A f : Told(f)' <=> Told(f) BY <1>3, <1>4, <1>6 DEF Told
<1>10. \A f, r : Heard(f, r) => Heard(f, r)' BY <1>3, <1>4 DEF Heard
<1> QED BY <1>3, <1>7, <1>8, <1>9, <1>10

(* What the server has heard or is about to hear covers the records.         *)
LEMMA StillHeard ==
  ASSUME KnownInv, Alone' => Alone, conn' = "up" => conn = "up", recorded' = recorded,
         step' = "save" => step = "save" /\ sft' = sft,
         Alone => \A f, r : Heard(f, r) => Heard(f, r)'
  PROVE  KnownInv'
<1>1. SUFFICES ASSUME Alone', conn' = "up", NEW f \in Files \ Firmware
               PROVE  /\ Heard(f, recorded[f])'
                      /\ step' = "save" /\ f = Current'.file => Heard(f, Current.rev)'
  BY DEF KnownInv
<1>2. /\ Heard(f, recorded[f])
      /\ step = "save" /\ f = Current.file => Heard(f, Current.rev)
  BY <1>1 DEF KnownInv
<1>3. Heard(f, recorded[f])'
  <2>1. PICK r : r = recorded[f] OBVIOUS
  <2>2. Heard(f, r)' BY <1>1, <1>2, <2>1
  <2> QED BY <2>1, <2>2 DEF Heard
<1>4. ASSUME step' = "save", f = Current'.file PROVE Heard(f, Current.rev)'
  <2>1. Current' = Current BY <1>4 DEF Current, Desc
  <2>2. PICK r : r = Current.rev OBVIOUS
  <2>3. Heard(f, r)' BY <1>1, <1>2, <1>4, <2>1, <2>2
  <2> QED BY <2>1, <2>2, <2>3 DEF Heard
<1> QED BY <1>3, <1>4

(* The first message is taken.                                               *)
LEMMA ReportTaken ==
  ASSUME Types, WireInv, up # <<>>, up' = Tail(up), target' = target
  PROVE  /\ up' \in Seq(Ups) /\ Len(up') = Len(up) - 1 /\ Len(up) \in Nat /\ Len(up') \in Nat
         /\ Head(up) = up[1] /\ 1 \in 1 .. Len(up) /\ up[1] \in Ups
         /\ \A i \in 1 .. Len(up') : up'[i] = up[i + 1] /\ i + 1 \in 1 .. Len(up) /\ up'[i].type # "info"
         /\ \A i \in 1 .. Len(up) : i = 1 \/ (i - 1 \in 1 .. Len(up') /\ up'[i - 1] = up[i])
         /\ WireInv' /\ \A f : Told(f)' => Told(f)
<1>1. up \in Seq(Ups) BY DEF Types
<1>2. /\ up' \in Seq(Ups) /\ Len(up') = Len(up) - 1 /\ Len(up) \in Nat /\ Len(up) >= 1
      /\ Head(up) = up[1] /\ up[1] \in Ups
      /\ \A i \in 1 .. (Len(up) - 1) : up'[i] = up[i + 1]
  BY <1>1, Shifted
<1>3. \A i \in 1 .. Len(up') : up'[i] = up[i + 1] /\ i + 1 \in 1 .. Len(up) BY <1>2
<1>4. \A i \in 1 .. Len(up) : i = 1 \/ (i - 1 \in 1 .. Len(up') /\ up'[i - 1] = up[i])
  <2>1. ASSUME NEW i \in 1 .. Len(up), i # 1 PROVE i - 1 \in 1 .. Len(up') /\ (i - 1) + 1 = i
    BY <1>2, <2>1
  <2> QED BY <1>3, <2>1
<1>5. \A i \in 1 .. Len(up') : up'[i].type # "info"
  <2>1. SUFFICES ASSUME NEW i \in 1 .. Len(up'), up[i + 1].type = "info" PROVE FALSE BY <1>3
  <2>2. Len(up) = 1 BY <1>3, <2>1 DEF WireInv
  <2> QED BY <1>2, <2>2
<1>6. WireInv' BY <1>3, <1>5 DEF WireInv
<1>7. \A f : Told(f)' => Told(f) BY <1>3 DEF Told
<1> QED BY <1>2, <1>3, <1>4, <1>5, <1>6, <1>7

(* A request is taken: the reports are still on their way.                   *)
LEMMA RequestTaken ==
  ASSUME Inv, up # <<>>, up' = Tail(up), up[1].type = "get", Alone' => Alone,
         UNCHANGED <<content, recorded, known, target, conn, step, sft>>
  PROVE  ReportInv' /\ KnownInv'
<1>1. Types /\ WireInv /\ ReportInv /\ KnownInv BY DEF Inv
<1>2. /\ \A i \in 1 .. Len(up') : up'[i] = up[i + 1] /\ i + 1 \in 1 .. Len(up) /\ up'[i].type # "info"
      /\ \A i \in 1 .. Len(up) : i = 1 \/ (i - 1 \in 1 .. Len(up') /\ up'[i - 1] = up[i])
  BY <1>1, ReportTaken
<1>3. ReportInv'
  <2>1. SUFFICES ASSUME Alone PROVE ReportInv' BY DEF ReportInv
  <2>2. \A i \in 1 .. Len(up') : up'[i].type = "status" =>
          /\ known'[up'[i].file] <= up'[i].rev
          /\ up'[i].rev = target'[up'[i].file] => Intact(up[i].file, target[up[i].file])'
    BY <1>1, <1>2, <2>1 DEF ReportInv, Intact
  <2>3. ASSUME NEW i \in 1 .. Len(up'), up'[i].type = "status",
               NEW j \in 1 .. Len(up'), up'[j].type = "status", up'[j].file = up'[i].file
        PROVE  j = i
    <3>1. \A a, b \in 1 .. Len(up) :
            up[a].type = "status" /\ up[b].type = "status" /\ up[b].file = up[a].file => b = a
      BY <1>1, <2>1 DEF ReportInv
    <3>2. /\ i + 1 \in 1 .. Len(up) /\ up'[i] = up[i + 1]
          /\ j + 1 \in 1 .. Len(up) /\ up'[j] = up[j + 1]
      BY <1>2
    <3>3. j + 1 = i + 1 BY <2>3, <3>1, <3>2
    <3> QED BY <3>3
  <2> QED BY <2>2, <2>3 DEF ReportInv
<1>4. ASSUME NEW f, NEW r, Heard(f, r) PROVE Heard(f, r)'
  <2>1. CASE r <= known[f] BY <2>1 DEF Heard
  <2>2. ASSUME NEW i \in 1 .. Len(up), \/ up[i].type = "status" /\ up[i].file = f /\ r <= up[i].rev
                                       \/ up[i].type = "info"
        PROVE  Heard(f, r)'
    <3>1. i - 1 \in 1 .. Len(up') /\ up'[i - 1] = up[i] BY <1>2, <2>2
    <3>2. PICK j \in 1 .. Len(up') : up'[j] = up[i] BY <3>1
    <3>3. \/ up'[j].type = "status" /\ up'[j].file = f /\ r <= up'[j].rev
          \/ up'[j].type = "info"
      BY <2>2, <3>2
    <3> QED BY <3>3 DEF Heard
  <2> QED BY <1>4, <2>1, <2>2 DEF Heard
<1>5. KnownInv'
  <2>1. Alone => \A f, r : Heard(f, r) => Heard(f, r)' BY <1>4
  <2> QED BY <1>1, <2>1, StillHeard
<1> QED BY <1>3, <1>5

(* What a message on its way leaves alone.                                   *)
LEMMA WireStep ==
  ASSUME Inv, conn = "up", Fresh => Fresh',
         UNCHANGED <<content, recorded, mailbox, running, trial, conn, step, sft, target, url,
                     tasks, fault>>
  PROVE  /\ SessionInv' /\ CurrentInv' /\ DoneInv' /\ HandleInv' /\ SumInv' /\ FirmwareInv'
         /\ TrialInv' /\ FaultInv'
<1>1. /\ SessionInv /\ CurrentInv /\ DoneInv /\ HandleInv /\ SumInv /\ FirmwareInv
      /\ TrialInv /\ FaultInv
  BY DEF Inv
<1>2. SessionInv' BY <1>1 DEF SessionInv
<1>3. CurrentInv' BY <1>1 DEF CurrentInv, Live, Ordered, Intact, Current, Desc
<1>4. \A i : Done(i)' <=> Done(i) BY DEF Done, Ordered
<1>5. DoneInv' BY <1>1, <1>4 DEF DoneInv, Intact
<1>6. HandleInv' BY <1>1, <1>4 DEF HandleInv
<1>7. SumInv' BY <1>1 DEF SumInv
<1>8. FirmwareInv' BY <1>1, <1>4 DEF FirmwareInv, Ordered
<1>9. TrialInv' /\ FaultInv' BY <1>1 DEF TrialInv, FaultInv
<1> QED BY <1>2, <1>3, <1>5, <1>6, <1>7, <1>8, <1>9

(* The same while the server learns nothing.                                 *)
LEMMA WireAlone ==
  ASSUME Inv, Fresh => Fresh',
         UNCHANGED <<content, recorded, mailbox, step, sft, target, known, url, tasks>>,
         Alone' => Alone, Alone' => \A f : Told(f)' => Told(f),
         Alone' => \A i \in 1 .. Len(down') : down'[i].type = "fua" =>
           /\ Len(down') = 1 /\ up' = <<>> /\ url = {} /\ tasks = <<>> /\ step = "idle"
           /\ \A k \in 1 .. Len(down'[i].files) : ToCome(down'[i].files[k])
  PROVE  BehindInv' /\ AloneInv'
<1>1. BehindInv /\ AloneInv BY DEF Inv
<1>2. BehindInv' BY <1>1 DEF BehindInv
<1>3. SUFFICES ASSUME Alone' PROVE AloneInv' BY <1>2 DEF AloneInv
<1>4. Alone BY <1>3
<1>5. \A d : ToCome(d) => ToCome(d)' BY <1>3 DEF ToCome
<1>6. \A i : Pending(i)' <=> Pending(i) BY DEF Pending, Ordered
<1>7. sft.fua # NoPackage =>
        \A i \in 1 .. Len(sft.fua.files) : Pending(i) => ToCome(sft.fua.files[i])
  BY <1>1, <1>4 DEF AloneInv
<1>8. sft'.fua # NoPackage =>
        \A i \in 1 .. Len(sft'.fua.files) : Pending(i)' => ToCome(sft.fua.files[i])'
  <2>1. SUFFICES ASSUME sft.fua # NoPackage, NEW i \in 1 .. Len(sft.fua.files), Pending(i)
                 PROVE  ToCome(sft.fua.files[i])'
    BY <1>6
  <2>2. PICK d : d = sft.fua.files[i] OBVIOUS
  <2>3. ToCome(d)' BY <1>5, <1>7, <2>1, <2>2
  <2> QED BY <2>2, <2>3 DEF ToCome
<1>9. \A i \in 1 .. Len(down') : down'[i].type = "fua" =>
         /\ Len(down') = 1 /\ up' = <<>> /\ url' = {} /\ tasks' = <<>> /\ step' = "idle"
         /\ \A k \in 1 .. Len(down'[i].files) : ToCome(down[i].files[k])'
  <2>1. SUFFICES ASSUME NEW i \in 1 .. Len(down'), down'[i].type = "fua"
                 PROVE  /\ Len(down') = 1 /\ up' = <<>> /\ url' = {} /\ tasks' = <<>> /\ step' = "idle"
                        /\ \A k \in 1 .. Len(down'[i].files) : ToCome(down[i].files[k])'
    OBVIOUS
  <2>2. ASSUME NEW k \in 1 .. Len(down'[i].files) PROVE ToCome(down[i].files[k])'
    <3>1. PICK d : d = down'[i].files[k] OBVIOUS
    <3>2. ToCome(d)' BY <1>3, <1>5, <2>1, <3>1
    <3> QED BY <3>1, <3>2 DEF ToCome
  <2> QED BY <1>3, <2>1, <2>2
<1>10. /\ \/ sft.handle = NoFile \/ Fresh
          \/ sft.current # Null /\ Live(sft.current) /\ sft.handle = Current.file
       /\ step = "next" => sft.handle = NoFile \/ Fresh
  BY <1>1, <1>4 DEF AloneInv
<1>11. /\ \/ sft'.handle = NoFile \/ Fresh'
          \/ sft'.current # Null /\ Live(sft.current)' /\ sft'.handle = Current'.file
       /\ step' = "next" => sft'.handle = NoFile \/ Fresh'
  BY <1>10 DEF Live, Current, Desc
<1>12. \A f \in Files \ Firmware : /\ known'[f] = target'[f] => Intact(f, target[f])'
                                   /\ recorded'[f] = target'[f] => Intact(f, target[f])'
  BY <1>1, <1>4 DEF AloneInv, Intact
<1> QED BY <1>8, <1>9, <1>11, <1>12 DEF AloneInv

(* What an offer lists: the outdated files, each once, in the revisions the  *)
(* server wants.                                                             *)
LEMMA PackageListed ==
  ASSUME Types, Outdated # {}, NEW files \in Packages
  PROVE  /\ files \in Seq(Descs) /\ IsPackage(files)
         /\ \A i \in 1 .. Len(files) : files[i].file \in Outdated /\ files[i].rev = target[files[i].file]
         /\ \A f \in Outdated : \E i \in 1 .. Len(files) : files[i].file = f
<1> DEFINE n == Cardinality(Outdated)
<1>1. Outdated \subseteq Files BY DEF Outdated
<1>2. n \in Nat /\ n <= Cardinality(Files) BY <1>1, CardinalityFacts
<1>3. PICK names \in Listings : files = [i \in DOMAIN names |-> [file |-> names[i], rev |-> target[names[i]]]]
  BY DEF Packages
<1>4. names \in Bijection(1 .. n, Outdated) BY <1>3 DEF Listings
<1> HIDE DEF n
<1>5. /\ names \in [1 .. n -> Outdated]
      /\ \A a, b \in 1 .. n : names[a] = names[b] => a = b
      /\ \A f \in Outdated : \E a \in 1 .. n : names[a] = f
  BY <1>4 DEF Bijection, Injection, IsInjective, Surjection
<1>6. /\ files = [i \in 1 .. n |-> [file |-> names[i], rev |-> target[names[i]]]]
  BY <1>3, <1>5
<1>7. target \in [Files -> Revisions] BY DEF Types
<1>8. \A i \in 1 .. n : [file |-> names[i], rev |-> target[names[i]]] \in Descs
  BY <1>1, <1>5, <1>7 DEF Descs
<1>9. files \in Seq(Descs) /\ Len(files) = n BY <1>2, <1>6, <1>8
<1>10. \A i \in 1 .. n : files[i].file = names[i] /\ files[i].rev = target[names[i]] BY <1>6
<1>11. files # <<>>
  <2>1. PICK f \in Outdated : TRUE OBVIOUS
  <2>2. PICK a \in 1 .. n : names[a] = f BY <1>5
  <2> QED BY <1>2, <1>9, <2>2
<1>12. Distinct(files) BY <1>5, <1>9, <1>10 DEF Distinct
<1>13. \A i \in 1 .. n : target[names[i]] \in Revisions BY <1>1, <1>5, <1>7
<1>14. IsPackage(files) BY <1>2, <1>9, <1>10, <1>11, <1>12, <1>13 DEF IsPackage, Revisions
<1> QED BY <1>5, <1>9, <1>10, <1>14

LEMMA SendPackageStep ==
  ASSUME Inv, SendPackage, used' \in Counts, Alone' => Alone /\ Quiet, url = {}, tasks = <<>>
  PROVE  Inv'
<1>1. /\ conn = "up" /\ Outdated # {} /\ OnTheWay("info") = {}
      /\ UNCHANGED <<content, recorded, mailbox, running, committed, trial, conn, step, sft, target,
                     known, up, url, tasks, fault>>
  BY DEF SendPackage, disk, booted, session, server, app
<1>2. PICK files \in Packages : down' = Append(down, [type |-> "fua", files |-> files])
  BY DEF SendPackage
<1>3. Types /\ PackageInv /\ UrlInv /\ OfferInv /\ BehindInv /\ KnownInv BY DEF Inv
<1>4. /\ files \in Seq(Descs) /\ IsPackage(files)
      /\ \A i \in 1 .. Len(files) : files[i].file \in Outdated /\ files[i].rev = target[files[i].file]
      /\ \A f \in Outdated : \E i \in 1 .. Len(files) : files[i].file = f
  BY <1>1, <1>3, PackageListed
<1> DEFINE m == [type |-> "fua", files |-> files]
           n == Len(down)
<1>5. m \in Fua \cup Chunks /\ m.type = "fua" /\ m.files = files BY <1>4 DEF Fua
<1>6. down \in Seq(Fua \cup Chunks) BY <1>3 DEF Types
<1>7. down' = Append(down, m) BY <1>2
<1> HIDE DEF m
<1>8. /\ down' \in Seq(Fua \cup Chunks) /\ Len(down') = n + 1 /\ n \in Nat
      /\ \A i \in 1 .. n : down'[i] = down[i]
      /\ down'[n + 1] = m
  BY <1>5, <1>6, <1>7, Appended
<1> HIDE DEF n
<1>9. \A i \in 1 .. Len(down') : i \in 1 .. n \/ i = n + 1 BY <1>8
<1>10. Fresh => Fresh'
  <2>1. SUFFICES ASSUME Fresh PROVE Fresh' OBVIOUS
  <2>2. \A i \in 1 .. Len(down') : down'[i].type = "chunk" => down'[i].off = 0
    BY <1>5, <1>8, <1>9, <2>1 DEF Fresh, n
  <2> QED BY <1>1, <2>1, <2>2 DEF Fresh
<1>11. \A f \in Outdated : f \in Files /\ known[f] # target[f] /\ known[f] < target[f]
  <2>1. \A f \in Files : known[f] \in Nat /\ target[f] \in Nat BY <1>3 DEF Types, Revisions, NoRevision
  <2>2. \A f \in Files : known[f] <= target[f] BY <1>3 DEF BehindInv
  <2> QED BY <2>1, <2>2 DEF Outdated
<1>12. Alone' => \A i \in 1 .. Len(down') : down'[i].type = "fua" =>
         /\ Len(down') = 1 /\ up' = <<>> /\ url = {} /\ tasks = <<>> /\ step = "idle"
         /\ \A k \in 1 .. Len(down'[i].files) : ToCome(down'[i].files[k])
  <2>1. SUFFICES ASSUME Alone', NEW i \in 1 .. Len(down')
                 PROVE  /\ Len(down') = 1 /\ up' = <<>> /\ step = "idle"
                        /\ \A k \in 1 .. Len(down'[i].files) : ToCome(down'[i].files[k])
    OBVIOUS
  <2>2. down = <<>> /\ up = <<>> /\ step = "idle" /\ Alone BY <2>1 DEF Quiet, Idle
  <2>3. n = 0 BY <2>2 DEF n
  <2>4. down'[i] = m BY <1>8, <1>9, <2>3
  <2>5. ASSUME NEW k \in 1 .. Len(files) PROVE ToCome(files[k])
    <3>1. files[k].file \in Files /\ known[files[k].file] < files[k].rev BY <1>4, <1>11
    <3>2. \A j \in 1 .. Len(up) : FALSE BY <2>2
    <3>3. PICK f \in Files : f = files[k].file BY <3>1
    <3>4. f \notin Firmware => recorded[f] <= known[f]
      BY <1>1, <1>3, <2>2, <3>2 DEF KnownInv, Heard
    <3>5. recorded[f] \in Nat /\ known[f] \in Nat BY <1>3 DEF Types, Revisions, NoRevision
    <3>6. files[k].rev \in Nat BY <1>3, <1>4, <3>1 DEF Types, Revisions
    <3>7. f \notin Firmware => recorded[f] < files[k].rev
      BY ONLY <3>1, <3>3, <3>4, <3>5, <3>6
    <3> QED BY <3>1, <3>2, <3>3, <3>7 DEF ToCome, Told
  <2> QED BY <1>1, <1>5, <1>8, <2>2, <2>3, <2>4, <2>5
<1>13. /\ SessionInv' /\ CurrentInv' /\ DoneInv' /\ HandleInv' /\ SumInv' /\ FirmwareInv'
       /\ TrialInv' /\ FaultInv'
  BY <1>1, <1>10, WireStep
<1>14. Types' BY <1>1, <1>3, <1>8 DEF Types
<1>15. PackageInv'
  <2>1. \A i \in 1 .. Len(down') : down'[i].type = "fua" => IsPackage(down'[i].files)
    BY <1>3, <1>4, <1>5, <1>8, <1>9 DEF PackageInv, n
  <2>2. \A fs : IsPackage(fs)' <=> IsPackage(fs) BY <1>1 DEF IsPackage
  <2>3. \A i \in 1 .. Len(down') : down'[i].type = "fua" => IsPackage(down[i].files)'
    BY <1>1, <2>1 DEF IsPackage
  <2>4. sft'.fua # NoPackage => IsPackage(sft.fua.files)'
    BY <1>1, <1>3 DEF PackageInv, IsPackage
  <2> QED BY <1>1, <1>3, <2>3, <2>4 DEF PackageInv
<1>16. UrlInv' BY <1>1 DEF UrlInv
<1>17. BehindInv' /\ AloneInv'
  <2>1. \A f : Told(f)' <=> Told(f) BY <1>1 DEF Told
  <2> QED BY <1>1, <1>10, <1>12, <2>1, WireAlone
<1>18. /\ WireInv' /\ ReportInv' /\ \A f, r : Heard(f, r) => Heard(f, r)'
  <2>1. \A i \in 1 .. Len(up) : up[i].type # "info" BY <1>1 DEF OnTheWay
  <2> QED BY <1>1, <2>1, ReportsKept
<1>19. KnownInv' BY <1>1, <1>3, <1>18, StillHeard
<1>20. OfferInv'
  <2> DEFINE Off(i) == down'[i].type = "fua" /\ HasFirmware(down'[i].files)
  <2>1. \A i \in 1 .. n : Off(i) <=> Offered(i) BY <1>8 DEF Offered
  <2>2. Off(n + 1) <=> HasFirmware(files) BY <1>5, <1>8
  <2>3. ASSUME NEW f \in Firmware, known[f] # target[f] PROVE HasFirmware(files)
    <3>1. f \in Outdated BY <2>3, FilesAssumption DEF Outdated
    <3> QED BY <1>4, <3>1 DEF HasFirmware
  <2>4. HasFirmware(files) => \A f \in Firmware : known[f] # target[f]
    <3>1. SUFFICES ASSUME HasFirmware(files), NEW f \in Firmware PROVE known[f] # target[f] OBVIOUS
    <3>2. PICK i \in 1 .. Len(files) : files[i].file \in Firmware BY <3>1 DEF HasFirmware
    <3>3. files[i].file = f BY <3>2, FilesAssumption
    <3> QED BY <1>4, <1>11, <3>3
  <2>5. ASSUME NEW i \in 1 .. n, Offered(i) PROVE HasFirmware(files)
    <3>1. PICK k \in 1 .. Len(down[i].files) : down[i].files[k].file \in Firmware
      BY <2>5 DEF Offered, HasFirmware
    <3>2. \A f \in Firmware : known[f] # target[f] BY <1>3, <2>5 DEF OfferInv, n
    <3> QED BY <2>3, <3>1, <3>2
  <2>6. HasFirmware(sft.fua.files) => HasFirmware(files)
    <3>1. SUFFICES ASSUME HasFirmware(sft.fua.files) PROVE HasFirmware(files) OBVIOUS
    <3>2. PICK k \in 1 .. Len(sft.fua.files) : sft.fua.files[k].file \in Firmware
      BY <3>1 DEF HasFirmware
    <3>3. \A f \in Firmware : known[f] # target[f] BY <1>3, <3>1 DEF OfferInv
    <3> QED BY <2>3, <3>2, <3>3
  <2>7. ASSUME NEW i \in 1 .. Len(down'), NEW j \in 1 .. Len(down'), i < j, Off(i), down'[j].type = "fua"
        PROVE  Off(j)
    <3>1. i \in 1 .. n BY <1>8, <2>7
    <3>2. Offered(i) BY <2>1, <2>7, <3>1
    <3>3. CASE j = n + 1 BY <2>2, <2>5, <3>1, <3>2, <3>3
    <3>4. CASE j \in 1 .. n
      <4>1. down[j].type = "fua" BY <1>8, <2>7, <3>4
      <4>2. Offered(j) BY <1>3, <2>7, <3>1, <3>2, <3>4, <4>1 DEF OfferInv, n
      <4> QED BY <2>1, <3>4, <4>2
    <3> QED BY <1>9, <3>3, <3>4
  <2>8. ASSUME HasFirmware(sft.fua.files), NEW i \in 1 .. Len(down'), down'[i].type = "fua"
        PROVE  Off(i)
    <3>1. CASE i = n + 1 BY <2>2, <2>6, <2>8, <3>1
    <3>2. CASE i \in 1 .. n
      <4>1. down[i].type = "fua" BY <1>8, <2>8, <3>2
      <4>2. Offered(i) BY <1>3, <2>8, <3>2, <4>1 DEF OfferInv, n
      <4> QED BY <2>1, <3>2, <4>2
    <3> QED BY <1>9, <3>1, <3>2
  <2>9. HasFirmware(sft.fua.files) \/ (\E i \in 1 .. Len(down') : Off(i)) =>
          \A f \in Firmware : known[f] # target[f]
    <3>1. CASE HasFirmware(sft.fua.files) BY <1>3, <3>1 DEF OfferInv
    <3>2. ASSUME NEW i \in 1 .. Len(down'), Off(i) PROVE \A f \in Firmware : known[f] # target[f]
      <4>1. HasFirmware(files) BY <1>9, <2>1, <2>2, <2>5, <3>2
      <4> QED BY <2>4, <4>1
    <3> QED BY <3>1, <3>2
  <2>10. sft.firmware # Null => HasFirmware(sft.fua.files) BY <1>3 DEF OfferInv
  <2>11. \A i : Offered(i)' <=> Off(i) BY DEF Offered, HasFirmware
  <2>12. HasFirmware(sft.fua.files)' <=> HasFirmware(sft.fua.files) BY <1>1 DEF HasFirmware
  <2> HIDE DEF Off
  <2> QED BY <1>1, <2>7, <2>8, <2>9, <2>10, <2>11, <2>12 DEF OfferInv
<1> QED BY <1>13, <1>14, <1>15, <1>16, <1>20, <1>17, <1>18, <1>19 DEF Inv

LEMMA OfferStep == Inv /\ Offer => Inv'
<1> SUFFICES ASSUME Inv, Offer PROVE Inv' OBVIOUS
<1>1. Quiet /\ SendPackage /\ used' = used /\ url = {} /\ tasks = <<>> BY DEF Offer, Quiet
<1>2. used \in Counts /\ (Alone' => Alone) BY <1>1 DEF Inv, Types, Alone
<1> QED BY <1>1, <1>2, SendPackageStep

LEMMA OfferEarlyStep == Inv /\ OfferEarly => Inv'
<1> SUFFICES ASSUME Inv, OfferEarly PROVE Inv' OBVIOUS
<1>1. SendPackage /\ Budget("early", MaxEarly) /\ url = {} /\ tasks = <<>> BY DEF OfferEarly
<1>2. used \in Counts BY DEF Inv, Types
<1>3. "early" \in Counters BY DEF Counters
<1>4. used' \in Counts /\ ~Alone' BY <1>1, <1>2, <1>3, Counted
<1> QED BY <1>1, <1>4, SendPackageStep

(* What is on its way when messages are only taken away.                     *)
LEMMA MessagesTaken ==
  ASSUME Inv, conn = "up", used' \in Counts, Alone' => Alone,
         UNCHANGED <<content, recorded, mailbox, running, committed, trial, conn, step, sft, target,
                     known, url, tasks, fault>>,
         \/ down' = down /\ up # <<>> /\ up' = Tail(up) /\ (Alone' => up[1].type = "get")
         \/ down # <<>> /\ down' = Tail(down) /\ up' = up
  PROVE  Inv'
<1>1. Types /\ PackageInv /\ UrlInv /\ OfferInv /\ AloneInv /\ WireInv /\ KnownInv BY DEF Inv
<1>2. down \in Seq(Fua \cup Chunks) /\ up \in Seq(Ups) BY <1>1 DEF Types
<1>3. /\ down' \in Seq(Fua \cup Chunks) /\ up' \in Seq(Ups)
      /\ Len(down) \in Nat /\ Len(up) \in Nat /\ Len(down') \in Nat /\ Len(up') \in Nat
  <2>1. down' = down \/ (down # <<>> /\ down' = Tail(down)) OBVIOUS
  <2>2. up' = up \/ (up # <<>> /\ up' = Tail(up)) OBVIOUS
  <2>3. down' \in Seq(Fua \cup Chunks) BY <1>2, <2>1, Shifted
  <2>4. up' \in Seq(Ups) BY <1>2, <2>2, Shifted
  <2> QED BY <1>2, <2>3, <2>4
<1>4. PICK k \in {0, 1} : /\ Len(down') = Len(down) - k
                          /\ \A i \in 1 .. Len(down') : down'[i] = down[i + k]
  <2>1. CASE down' = down
    <3>1. Len(down') = Len(down) - 0 /\ \A i \in 1 .. Len(down') : down'[i] = down[i + 0]
      BY <1>3, <2>1
    <3> QED BY <3>1
  <2>2. CASE down # <<>> /\ down' = Tail(down)
    <3>1. Len(down') = Len(down) - 1 /\ \A i \in 1 .. Len(down') : down'[i] = down[i + 1]
      BY <1>2, <2>2, Shifted
    <3> QED BY <3>1
  <2> QED BY <2>1, <2>2
<1>5. \A i \in 1 .. Len(down') : i + k \in 1 .. Len(down) /\ i + k >= i BY <1>3, <1>4
<1>6. \A i \in 1 .. Len(up') : \E j \in 1 .. Len(up) : up'[i] = up[j]
  <2>1. CASE up' = up BY <2>1
  <2>2. CASE up # <<>> /\ up' = Tail(up)
    <3>1. Len(up') = Len(up) - 1 /\ \A i \in 1 .. Len(up') : up'[i] = up[i + 1]
      BY <1>2, <2>2, Shifted
    <3>2. \A i \in 1 .. Len(up') : i + 1 \in 1 .. Len(up) BY <1>3, <3>1
    <3> QED BY <3>1, <3>2
  <2> QED BY <2>1, <2>2
<1>7. Fresh => Fresh' BY <1>4, <1>5, <1>6 DEF Fresh
<1>8. Alone' => \A i \in 1 .. Len(down') : down'[i].type = "fua" =>
        /\ Len(down') = 1 /\ up' = <<>> /\ url = {} /\ tasks = <<>> /\ step = "idle"
        /\ \A x \in 1 .. Len(down'[i].files) : ToCome(down'[i].files[x])
  <2>1. SUFFICES ASSUME Alone, NEW i \in 1 .. Len(down'), down'[i].type = "fua"
                 PROVE  /\ Len(down') = 1 /\ up' = <<>> /\ url = {} /\ tasks = <<>> /\ step = "idle"
                        /\ \A x \in 1 .. Len(down'[i].files) : ToCome(down'[i].files[x])
    OBVIOUS
  <2>2. i + k \in 1 .. Len(down) /\ down[i + k].type = "fua" /\ down'[i] = down[i + k]
    BY <1>4, <1>5, <2>1
  <2>3. /\ Len(down) = 1 /\ up = <<>> /\ url = {} /\ tasks = <<>> /\ step = "idle"
        /\ \A x \in 1 .. Len(down[i + k].files) : ToCome(down[i + k].files[x])
    BY <1>1, <2>1, <2>2 DEF AloneInv
  <2>4. k = 0 BY <1>3, <1>4, <2>1, <2>2, <2>3
  <2>5. up' = up
    <3>1. up' = up \/ up # <<>> OBVIOUS
    <3> QED BY <2>3, <3>1
  <2>6. Len(down') = 1 /\ up' = <<>> BY <1>3, <1>4, <2>3, <2>4, <2>5
  <2> QED BY <2>2, <2>3, <2>6
<1>9. /\ SessionInv' /\ CurrentInv' /\ DoneInv' /\ HandleInv' /\ SumInv' /\ FirmwareInv'
      /\ TrialInv' /\ FaultInv'
  BY <1>7, WireStep
<1>10. BehindInv' /\ AloneInv'
  <2>1. \A f : Told(f)' => Told(f) BY <1>6 DEF Told
  <2> QED BY <1>7, <1>8, <2>1, WireAlone
<1>11. Types' BY <1>1, <1>3 DEF Types
<1>12. PackageInv'
  <2>1. \A i \in 1 .. Len(down') : down'[i].type = "fua" => IsPackage(down[i].files)'
    BY <1>1, <1>4, <1>5 DEF PackageInv, IsPackage
  <2>2. sft'.fua # NoPackage => IsPackage(sft.fua.files)'
    BY <1>1 DEF PackageInv, IsPackage
  <2> QED BY <1>1, <2>1, <2>2 DEF PackageInv
<1>13. UrlInv'
  <2>1. SUFFICES ASSUME url # {} \/ tasks # <<>> PROVE UrlInv' BY DEF UrlInv
  <2>2. NoOverlap BY <1>1, <2>1 DEF UrlInv
  <2>3. down' = <<>> BY <2>2 DEF NoOverlap
  <2>4. \A i \in 1 .. Len(up') : up'[i].type # "get" BY <1>6, <2>2 DEF NoOverlap, OnTheWay
  <2>5. NoOverlap' BY <2>3, <2>4 DEF NoOverlap, OnTheWay
  <2> QED BY <1>1, <2>1, <2>5 DEF UrlInv, Current, Desc, Intact
<1>14. OfferInv'
  <2>1. \A i \in 1 .. Len(down') : Offered(i)' <=> Offered(i + k) BY <1>4 DEF Offered, HasFirmware
  <2>2. HasFirmware(sft.fua.files)' <=> HasFirmware(sft.fua.files) BY DEF HasFirmware
  <2>3. ASSUME NEW i \in 1 .. Len(down'), NEW j \in 1 .. Len(down'), i < j, Offered(i)',
               down'[j].type = "fua"
        PROVE  Offered(j)'
    <3>1. Offered(i + k) /\ down[j + k].type = "fua" /\ i + k < j + k BY <1>4, <2>1, <2>3
    <3>2. Offered(j + k) BY <1>1, <1>5, <3>1 DEF OfferInv
    <3> QED BY <2>1, <3>2
  <2>4. ASSUME HasFirmware(sft.fua.files), NEW i \in 1 .. Len(down'), down'[i].type = "fua"
        PROVE  Offered(i)'
    <3>1. Offered(i + k) BY <1>1, <1>4, <1>5, <2>4 DEF OfferInv
    <3> QED BY <2>1, <3>1
  <2>5. HasFirmware(sft.fua.files) \/ (\E i \in 1 .. Len(down') : Offered(i)') =>
          \A f \in Firmware : known[f] # target[f]
    BY <1>1, <1>5, <2>1 DEF OfferInv
  <2>6. sft.firmware # Null => HasFirmware(sft.fua.files) BY <1>1 DEF OfferInv
  <2> QED BY <2>2, <2>3, <2>4, <2>5, <2>6 DEF OfferInv
<1>15. WireInv' /\ ReportInv' /\ KnownInv'
  <2>1. CASE up # <<>> /\ up' = Tail(up) /\ (Alone' => up[1].type = "get")
    <3>1. WireInv' BY <1>1, <2>1, ReportTaken
    <3>2. CASE Alone' BY <2>1, <3>1, <3>2, RequestTaken
    <3>3. CASE ~Alone' BY <3>1, <3>3 DEF ReportInv, KnownInv
    <3> QED BY <3>2, <3>3
  <2>2. CASE down # <<>> /\ up' = up
    <3>1. \A i \in 1 .. Len(up) : up[i].type # "info" BY <2>2, NoInfo
    <3>2. /\ WireInv' /\ ReportInv' /\ \A f, r : Heard(f, r) => Heard(f, r)'
      BY <2>2, <3>1, ReportsKept
    <3> QED BY <1>1, <3>2, StillHeard
  <2> QED BY <2>1, <2>2
<1> QED BY <1>9, <1>10, <1>11, <1>12, <1>13, <1>14, <1>15 DEF Inv

LEMMA LoseMessageStep == Inv /\ LoseMessage => Inv'
<1> SUFFICES ASSUME Inv, LoseMessage PROVE Inv' OBVIOUS
<1>1. /\ up # <<>> /\ up' = Tail(up) /\ down' = down
      /\ used' = [used EXCEPT !.lost = @ + 1, !.untold = IF Head(up).type = "get" THEN @ ELSE @ + 1]
      /\ UNCHANGED <<content, recorded, mailbox, running, committed, trial, conn, step, sft, target,
                     known, url, tasks, fault>>
  BY DEF LoseMessage, Arriving, disk, booted, session, server, app
<1>2. conn = "up" BY <1>1 DEF Inv, SessionInv
<1>3. Types BY DEF Inv
<1>4. Head(up) = up[1] BY <1>1, <1>3, Shifted DEF Types
<1>5. used \in [Counters -> Nat] /\ {"lost", "early", "untold"} \subseteq Counters
  <2>1. used \in [Counters -> Nat] BY <1>3 DEF Types, Counts
  <2>2. {"lost", "early", "untold"} \subseteq Counters BY DEF Counters
  <2> QED BY <2>1, <2>2
<1> DEFINE u == IF Head(up).type = "get" THEN used.untold ELSE used.untold + 1
<1>6. u \in Nat /\ (u = 0 => used.untold = 0 /\ up[1].type = "get") BY <1>4, <1>5 DEF Counts
<1>7. used' = [used EXCEPT !.lost = @ + 1, !.untold = u] BY <1>1
<1> HIDE DEF u
<1>8. used' \in [Counters -> Nat] /\ used'["early"] = used["early"] /\ used'["untold"] = u
  <2>1. "lost" \in Counters /\ "untold" \in Counters BY <1>5
  <2>2. PICK n \in Nat : n = used["lost"] + 1 BY <1>5, <2>1
  <2>3. used' = [used EXCEPT !["lost"] = n, !["untold"] = u] BY <1>7, <2>2
  <2> QED BY ONLY <1>5, <1>6, <2>1, <2>3
<1>9. used' \in Counts /\ (Alone' => Alone /\ up[1].type = "get") BY <1>6, <1>8 DEF Alone, Counts
<1> QED BY <1>1, <1>2, <1>9, MessagesTaken

LEMMA UnexpectedChunkStep == Inv /\ UnexpectedChunk => Inv'
<1> SUFFICES ASSUME Inv, UnexpectedChunk PROVE Inv' OBVIOUS
<1>1. /\ step = "idle" /\ conn = "up" /\ down # <<>> /\ down' = Tail(down) /\ up' = up /\ used' = used
      /\ fault' = (IF sft.current # Null /\ ~Live(sft.current) THEN "file of a freed package" ELSE fault)
      /\ UNCHANGED <<content, recorded, mailbox, running, committed, trial, conn, step, sft, target,
                     known, url, tasks>>
  BY DEF UnexpectedChunk, Received, Idle, disk, booted, session, server, app
<1>2. sft.current # Null => Live(sft.current) BY <1>1 DEF Inv, CurrentInv
<1>3. fault' = fault BY <1>1, <1>2
<1>4. used \in Counts /\ (Alone' => Alone) BY <1>1 DEF Inv, Types, Alone
<1> QED BY <1>1, <1>3, <1>4, MessagesTaken

(* A chunk on its way is the answer to a request.                            *)
LEMMA AnswerStep == Inv /\ Answer => Inv'
<1> SUFFICES ASSUME Inv, Answer PROVE Inv' OBVIOUS
<1> DEFINE m == [type |-> "chunk", file |-> Head(up).file, rev |-> Head(up).rev, off |-> Head(up).off]
           n == Len(down)
<1>1. /\ up # <<>> /\ up' = Tail(up) /\ down' = Append(down, m) /\ used' = used
      /\ Head(up).type = "get"
      /\ UNCHANGED <<content, recorded, mailbox, running, committed, trial, conn, step, sft, target,
                     known, url, tasks, fault>>
  BY DEF Answer, Arriving, disk, booted, session, server, app
<1>2. Types /\ PackageInv /\ UrlInv /\ OfferInv /\ AloneInv /\ WireInv BY DEF Inv
<1>3. conn = "up" BY <1>1 DEF Inv, SessionInv
<1>4. down \in Seq(Fua \cup Chunks) /\ up \in Seq(Ups) BY <1>2 DEF Types
<1>5. /\ Head(up) = up[1] /\ up[1] \in Ups /\ 1 \in 1 .. Len(up) /\ up' \in Seq(Ups)
      /\ \A i \in 1 .. Len(up') : up'[i] = up[i + 1] /\ i + 1 \in 1 .. Len(up)
      /\ WireInv' /\ \A f : Told(f)' => Told(f)
  BY <1>1, <1>2, ReportTaken
<1>6. m \in Chunks /\ m.type = "chunk" /\ m.off = up[1].off
  <2>1. up[1] \in Asks /\ up[1].type = "get" BY <1>1, <1>5 DEF Ups, Reports, Infos
  <2> QED BY <1>5, <2>1 DEF Chunks, Asks
<1> HIDE DEF m
<1>7. /\ down' \in Seq(Fua \cup Chunks) /\ Len(down') = n + 1 /\ n \in Nat
      /\ \A i \in 1 .. n : down'[i] = down[i]
      /\ down'[n + 1] = m
  BY <1>1, <1>4, <1>6, Appended
<1>8. \A i \in 1 .. Len(down') : i \in 1 .. n \/ i = n + 1 BY <1>7
<1> HIDE DEF n
<1>9. Fresh => Fresh'
  <2>1. SUFFICES ASSUME Fresh PROVE Fresh' OBVIOUS
  <2>2. up[1].off = 0 BY <1>1, <1>5, <2>1 DEF Fresh
  <2>3. \A i \in 1 .. Len(down') : down'[i].type = "chunk" => down'[i].off = 0
    BY <1>6, <1>7, <1>8, <2>1, <2>2 DEF Fresh, n
  <2>4. \A i \in 1 .. Len(up') : up'[i].type = "get" => up'[i].off = 0 BY <1>5, <2>1 DEF Fresh
  <2> QED BY <2>3, <2>4 DEF Fresh
<1>10. \A i \in 1 .. Len(down') : down'[i].type = "fua" => i \in 1 .. n /\ down'[i] = down[i]
  BY <1>6, <1>7, <1>8
<1>11. Alone => \A i \in 1 .. Len(down') : down'[i].type # "fua"
  BY <1>1, <1>2, <1>10 DEF AloneInv, n
<1>12. used' \in Counts /\ (Alone' <=> Alone) BY <1>1, <1>2 DEF Types, Alone
<1>13. /\ SessionInv' /\ CurrentInv' /\ DoneInv' /\ HandleInv' /\ SumInv' /\ FirmwareInv'
       /\ TrialInv' /\ FaultInv' /\ BehindInv' /\ AloneInv' /\ ReportInv' /\ KnownInv'
  <2>1. up[1].type = "get" BY <1>1, <1>5
  <2>2. /\ SessionInv' /\ CurrentInv' /\ DoneInv' /\ HandleInv' /\ SumInv' /\ FirmwareInv'
        /\ TrialInv' /\ FaultInv'
    BY <1>1, <1>3, <1>9, WireStep
  <2>3. BehindInv' /\ AloneInv' BY <1>1, <1>5, <1>9, <1>11, <1>12, WireAlone
  <2>4. ReportInv' /\ KnownInv' BY <1>1, <1>12, <2>1, RequestTaken
  <2> QED BY <2>2, <2>3, <2>4
<1>14. Types' BY <1>1, <1>2, <1>5, <1>7 DEF Types
<1>15. PackageInv'
  <2>1. \A i \in 1 .. Len(down') : down'[i].type = "fua" => IsPackage(down[i].files)'
    BY <1>1, <1>2, <1>10 DEF PackageInv, IsPackage, n
  <2>2. sft'.fua # NoPackage => IsPackage(sft.fua.files)'
    BY <1>1, <1>2 DEF PackageInv, IsPackage
  <2> QED BY <1>1, <1>2, <2>1, <2>2 DEF PackageInv
<1>16. UrlInv'
  <2>1. ~NoOverlap BY <1>1, <1>5 DEF NoOverlap, OnTheWay
  <2> QED BY <1>1, <1>2, <2>1 DEF UrlInv
<1>17. OfferInv'
  <2>1. \A i \in 1 .. Len(down') : Offered(i)' => i \in 1 .. n /\ Offered(i) /\ down[i].type = "fua"
    BY <1>10 DEF Offered, HasFirmware
  <2>2. \A i \in 1 .. n : i \in 1 .. Len(down') /\ (Offered(i)' <=> Offered(i)) /\ down'[i] = down[i]
    BY <1>7 DEF Offered, HasFirmware
  <2>3. HasFirmware(sft.fua.files)' <=> HasFirmware(sft.fua.files) BY <1>1 DEF HasFirmware
  <2>4. ASSUME NEW i \in 1 .. Len(down'), NEW j \in 1 .. Len(down'), i < j, Offered(i)',
               down'[j].type = "fua"
        PROVE  Offered(j)'
    <3>1. i \in 1 .. n /\ Offered(i) /\ j \in 1 .. n /\ down[j].type = "fua" BY <1>10, <2>1, <2>4
    <3>2. Offered(j) BY <1>2, <2>4, <3>1 DEF OfferInv, n
    <3> QED BY <2>2, <3>1, <3>2
  <2>5. ASSUME HasFirmware(sft.fua.files), NEW i \in 1 .. Len(down'), down'[i].type = "fua"
        PROVE  Offered(i)'
    <3>1. i \in 1 .. n /\ down[i].type = "fua" BY <1>10, <2>5
    <3>2. Offered(i) BY <1>2, <2>5, <3>1 DEF OfferInv, n
    <3> QED BY <2>2, <3>1, <3>2
  <2>6. HasFirmware(sft.fua.files) \/ (\E i \in 1 .. Len(down') : Offered(i)') =>
          \A f \in Firmware : known[f] # target[f]
    BY <1>2, <2>1 DEF OfferInv, n
  <2>7. sft.firmware # Null => HasFirmware(sft.fua.files) BY <1>2 DEF OfferInv
  <2> QED BY <1>1, <2>3, <2>4, <2>5, <2>6, <2>7 DEF OfferInv
<1> QED BY <1>5, <1>13, <1>14, <1>15, <1>16, <1>17 DEF Inv

(* The server hears of a file the device has recorded or is about to record, *)
(* or of all of them at once.                                                *)
LEMMA LearnStep == Inv /\ Learn => Inv'
<1> SUFFICES ASSUME Inv, Learn PROVE Inv' OBVIOUS
<1>1. /\ up # <<>> /\ up' = Tail(up) /\ Head(up).type \in {"status", "info"}
      /\ known' = (IF Head(up).type = "info" THEN Head(up).revs
                   ELSE [known EXCEPT ![Head(up).file] = Head(up).rev])
      /\ UNCHANGED <<content, recorded, mailbox, running, committed, trial, conn, step, sft, target,
                     down, url, tasks, fault, used>>
  BY DEF Learn, Arriving, disk, booted, session, app
<1>2. /\ Types /\ PackageInv /\ UrlInv /\ OfferInv /\ BehindInv /\ TrialInv /\ FaultInv
      /\ WireInv /\ AloneInv /\ ReportInv /\ KnownInv
  BY DEF Inv
<1>3. conn = "up" BY <1>1 DEF Inv, SessionInv
<1>4. used' \in Counts /\ (Alone' <=> Alone) BY <1>1, <1>2 DEF Types, Alone
<1>5. /\ up' \in Seq(Ups) /\ Len(up') = Len(up) - 1 /\ Len(up) \in Nat /\ Len(up') \in Nat
      /\ Head(up) = up[1] /\ 1 \in 1 .. Len(up) /\ up[1] \in Ups
      /\ \A i \in 1 .. Len(up') : up'[i] = up[i + 1] /\ i + 1 \in 1 .. Len(up) /\ up'[i].type # "info"
      /\ \A i \in 1 .. Len(up) : i = 1 \/ (i - 1 \in 1 .. Len(up') /\ up'[i - 1] = up[i])
      /\ WireInv' /\ \A f : Told(f)' => Told(f)
  BY <1>1, <1>2, ReportTaken
<1>6. \A f \in Files : recorded[f] \in Nat /\ known[f] \in Nat /\ target[f] \in Nat
  BY <1>2 DEF Types, Revisions, NoRevision
<1>7. CASE up[1].type = "info"
  <2>1. /\ Len(up) = 1 /\ up[1].revs = recorded /\ sft = NoContext
        /\ down = <<>> /\ step = "idle" /\ url = {} /\ tasks = <<>>
    BY <1>2, <1>5, <1>7 DEF WireInv
  <2>2. known' = recorded BY <1>1, <1>5, <1>7, <2>1
  <2>3. Len(up') = 0 BY <1>5, <2>1
  <2>4. /\ SessionInv' /\ PackageInv' /\ CurrentInv' /\ DoneInv' /\ HandleInv' /\ SumInv'
        /\ UrlInv' /\ FirmwareInv' /\ OfferInv' /\ FaultInv'
    BY <1>1, <1>2, <1>3, <2>1, Cleared
  <2>5. Types' BY <1>1, <1>2, <1>5, <2>2 DEF Types
  <2>6. BehindInv' /\ TrialInv' BY <1>1, <1>2, <2>2 DEF BehindInv, TrialInv
  <2>7. ReportInv' BY <2>3 DEF ReportInv
  <2>8. AloneInv' BY <1>1, <1>2, <1>4, <2>1, <2>2, ClearedAlone
  <2>9. KnownInv'
    <3>1. recorded' = recorded BY <1>1
    <3>2. \A f \in Files : recorded[f] <= recorded[f] BY <1>6
    <3>3. \A f \in Files : recorded'[f] <= known'[f] BY ONLY <2>2, <3>1, <3>2
    <3> QED BY <1>1, <2>1, <3>3 DEF KnownInv, Heard
  <2> QED BY <1>5, <2>4, <2>5, <2>6, <2>7, <2>8, <2>9 DEF Inv
<1>8. CASE up[1].type = "status"
  <2>1. up[1] \in Reports BY <1>5, <1>8 DEF Ups, Asks, Infos
  <2>2. PICK f \in Files, r \in Revisions : f = up[1].file /\ r = up[1].rev BY <2>1 DEF Reports
  <2>3. known' = [known EXCEPT ![f] = r] BY <1>1, <1>5, <1>8, <2>2
  <2>4. /\ known' \in [Files -> Revisions \cup {NoRevision}] /\ known'[f] = r
        /\ \A g \in Files : g # f => known'[g] = known[g]
    BY <1>2, <2>3 DEF Types
  <2>5. f \notin Firmware /\ r <= target[f] /\ Told(f)
    BY <1>2, <1>5, <1>8, <2>2 DEF WireInv, Told
  <2>6. Alone => /\ known[f] <= r
                 /\ r = target[f] => Intact(f, target[f])
                 /\ \A j \in 1 .. Len(up) : up[j].type = "status" /\ up[j].file = f => j = 1
    BY <1>2, <1>5, <1>8, <2>2 DEF ReportInv
  <2>7. Fresh => Fresh'
    <3>1. \A i \in 1 .. Len(up') : \E j \in 1 .. Len(up) : up'[i] = up[j] BY <1>5
    <3> QED BY <1>1, <3>1 DEF Fresh
  <2>8. /\ SessionInv' /\ CurrentInv' /\ DoneInv' /\ HandleInv' /\ SumInv' /\ FirmwareInv'
        /\ TrialInv' /\ FaultInv'
    BY <1>1, <1>3, <2>7, WireStep
  <2>9. Types' BY <1>1, <1>2, <1>5, <2>4 DEF Types
  <2>10. PackageInv' BY <1>1, <1>2 DEF PackageInv, IsPackage
  <2>11. UrlInv'
    <3>1. NoOverlap => NoOverlap'
      <4>1. \A i \in 1 .. Len(up') : \E j \in 1 .. Len(up) : up'[i] = up[j] BY <1>5
      <4> QED BY <1>1, <4>1 DEF NoOverlap, OnTheWay
    <3> QED BY <1>1, <1>2, <3>1 DEF UrlInv, Current, Desc, Intact
  <2>12. OfferInv'
    <3>1. \A g \in Firmware : known'[g] = known[g] BY <2>4, <2>5, FilesAssumption
    <3> QED BY <1>1, <1>2, <3>1 DEF OfferInv, Offered, HasFirmware
  <2>13. BehindInv' BY <1>1, <1>2, <2>4, <2>5 DEF BehindInv
  <2>14. ReportInv'
    <3>1. SUFFICES ASSUME Alone PROVE ReportInv' BY <1>4 DEF ReportInv
    <3>2. ASSUME NEW i \in 1 .. Len(up'), up'[i].type = "status"
          PROVE  /\ known'[up'[i].file] <= up'[i].rev
                 /\ up'[i].rev = target'[up'[i].file] => Intact(up[i].file, target[up[i].file])'
                 /\ \A j \in 1 .. Len(up') : up'[j].type = "status" /\ up'[j].file = up'[i].file => j = i
      <4>1. i + 1 \in 1 .. Len(up) /\ up'[i] = up[i + 1] BY <1>5
      <4>2. up[i + 1] \in Ups BY <1>2, <4>1 DEF Types
      <4>3. up[i + 1] \in Reports BY <3>2, <4>1, <4>2 DEF Ups, Asks, Infos
      <4>4. PICK g \in Files : g = up[i + 1].file BY <4>3 DEF Reports
      <4>5. i + 1 # 1 OBVIOUS
      <4>6. g # f BY <2>6, <3>1, <3>2, <4>1, <4>4, <4>5
      <4>7. /\ known[g] <= up[i + 1].rev
            /\ up[i + 1].rev = target[g] => Intact(g, target[g])
            /\ \A j \in 1 .. Len(up) : up[j].type = "status" /\ up[j].file = g => j = i + 1
        BY <1>2, <3>1, <3>2, <4>1, <4>4 DEF ReportInv
      <4>8. known'[g] = known[g] BY <2>4, <4>6
      <4>9. ASSUME NEW j \in 1 .. Len(up'), up'[j].type = "status", up'[j].file = up'[i].file
            PROVE  j = i
        <5>1. j + 1 = i + 1 BY <1>5, <4>1, <4>4, <4>7, <4>9
        <5> QED BY <5>1
      <4>10. up'[i].rev = target'[up'[i].file] => content'[up'[i].file] = Whole(up'[i].file, target'[up'[i].file])
        BY <1>1, <4>1, <4>4, <4>7 DEF Intact
      <4> QED BY <4>1, <4>4, <4>7, <4>8, <4>9, <4>10 DEF Intact
    <3> QED BY <3>2 DEF ReportInv
  <2>15. KnownInv'
    <3>1. ASSUME Alone, NEW g \in Files, NEW q \in Nat, Heard(g, q) PROVE Heard(g, q)'
      <4>1. CASE q <= known[g]
        <5>1. q <= known'[g]
          <6>1. CASE g = f BY <1>6, <2>4, <2>6, <3>1, <4>1, <6>1 DEF Revisions
          <6>2. CASE g # f BY <2>4, <4>1, <6>2
          <6> QED BY <6>1, <6>2
        <5> QED BY <5>1 DEF Heard
      <4>2. ASSUME NEW i \in 1 .. Len(up),
                   \/ up[i].type = "status" /\ up[i].file = g /\ q <= up[i].rev
                   \/ up[i].type = "info"
            PROVE  Heard(g, q)'
        <5>1. CASE i = 1
          <6>1. g = f /\ q <= r BY <1>8, <2>2, <4>2, <5>1
          <6> QED BY <2>4, <6>1 DEF Heard
        <5>2. CASE i # 1 BY <1>5, <4>2, <5>2 DEF Heard
        <5> QED BY <5>1, <5>2
      <4> QED BY <3>1, <4>1, <4>2 DEF Heard
    <3>2. SUFFICES ASSUME Alone, NEW g \in Files \ Firmware
                   PROVE  /\ Heard(g, recorded[g])'
                          /\ step' = "save" /\ g = Current'.file => Heard(g, Current.rev)'
      BY <1>4 DEF KnownInv
    <3>3. /\ Heard(g, recorded[g])
          /\ step = "save" /\ g = Current.file => Heard(g, Current.rev)
      BY <1>2, <1>3, <3>2 DEF KnownInv
    <3>4. Heard(g, recorded[g])'
      <4>1. PICK q \in Nat : q = recorded[g] BY <1>6
      <4>2. Heard(g, q)' BY <3>1, <3>2, <3>3, <4>1
      <4> QED BY <1>1, <4>1, <4>2 DEF Heard
    <3>5. ASSUME step' = "save", g = Current'.file PROVE Heard(g, Current.rev)'
      <4>1. Current' = Current BY <1>1 DEF Current, Desc
      <4>2. step = "save" BY <1>1, <3>5
      <4>3. sft.current # Null /\ Live(sft.current) BY <4>2 DEF Inv, CurrentInv
      <4>4. Current.rev \in Revisions BY <1>2, <4>3, CurrentType DEF Inv
      <4>5. PICK q \in Nat : q = Current.rev BY <4>4 DEF Revisions
      <4>6. Heard(g, q)' BY <3>1, <3>2, <3>3, <3>5, <4>1, <4>2, <4>5
      <4> QED BY <4>1, <4>5, <4>6 DEF Heard
    <3> QED BY <3>4, <3>5
  <2>16. AloneInv'
    <3>1. SUFFICES ASSUME Alone PROVE AloneInv' BY <1>4 DEF AloneInv
    <3>2. \A i \in 1 .. Len(down') : down'[i].type # "fua" BY <1>1, <1>2, <3>1 DEF AloneInv
    <3>3. ASSUME NEW d \in Descs, ToCome(d) PROVE ToCome(d)'
      <4>1. d.file \in Files BY DEF Descs
      <4>2. d.file \notin Firmware => d.file # f BY <2>5, <3>3 DEF ToCome
      <4> QED BY <1>1, <1>5, <2>4, <3>3, <4>1, <4>2 DEF ToCome
    <3>4. \A i : Pending(i)' <=> Pending(i) BY <1>1 DEF Pending, Ordered
    <3>5. sft.fua.files \in Seq(Descs) BY <1>2, SftFields DEF Types
    <3>6. sft'.fua # NoPackage =>
            \A i \in 1 .. Len(sft'.fua.files) : Pending(i)' => ToCome(sft.fua.files[i])'
      <4>1. SUFFICES ASSUME sft.fua # NoPackage, NEW i \in 1 .. Len(sft.fua.files), Pending(i)
                     PROVE  ToCome(sft.fua.files[i])'
        BY <1>1, <3>4
      <4>2. PICK d \in Descs : d = sft.fua.files[i] BY <3>5
      <4>3. ToCome(d) BY <1>2, <3>1, <4>1, <4>2 DEF AloneInv
      <4>4. ToCome(d)' BY <3>3, <4>3
      <4> QED BY <1>1, <4>2, <4>4 DEF ToCome
    <3>7. /\ \/ sft.handle = NoFile \/ Fresh
             \/ sft.current # Null /\ Live(sft.current) /\ sft.handle = Current.file
          /\ step = "next" => sft.handle = NoFile \/ Fresh
      BY <1>2, <3>1 DEF AloneInv
    <3>8. /\ \/ sft'.handle = NoFile \/ Fresh'
             \/ sft'.current # Null /\ Live(sft.current)' /\ sft'.handle = Current'.file
          /\ step' = "next" => sft'.handle = NoFile \/ Fresh'
      BY <1>1, <2>7, <3>7 DEF Live, Current, Desc
    <3>9. \A g \in Files \ Firmware : /\ known'[g] = target'[g] => Intact(g, target[g])'
                                      /\ recorded'[g] = target'[g] => Intact(g, target[g])'
      BY <1>1, <1>2, <2>4, <2>6, <3>1 DEF AloneInv, Intact
    <3> QED BY <3>2, <3>6, <3>8, <3>9 DEF AloneInv
  <2> QED BY <1>5, <2>8, <2>9, <2>10, <2>11, <2>12, <2>13, <2>14, <2>15, <2>16 DEF Inv
<1> QED BY <1>1, <1>5, <1>7, <1>8

LEMMA ReleaseStep == ASSUME NEW F \in SUBSET Files PROVE Inv /\ Release(F) => Inv'
<1> SUFFICES ASSUME Inv, Release(F) PROVE Inv' OBVIOUS
<1>1. /\ \A f \in F : target[f] < Latest[f]
      /\ target' = [f \in Files |-> IF f \in F THEN target[f] + 1 ELSE target[f]]
      /\ UNCHANGED <<content, recorded, mailbox, running, committed, trial, conn, step, sft, known,
                     down, up, url, tasks, fault, used>>
  BY DEF Release, disk, booted, session, wire, app
<1>2. /\ Types /\ PackageInv /\ OfferInv /\ BehindInv /\ WireInv /\ AloneInv /\ ReportInv
      /\ KnownInv
  BY DEF Inv
<1>3. /\ target \in [Files -> Revisions] /\ known \in [Files -> Revisions \cup {NoRevision}]
      /\ recorded \in [Files -> Revisions \cup {NoRevision}]
      /\ sft \in SftType /\ down \in Seq(Fua \cup Chunks) /\ mailbox \in Descs \cup {NoMail}
  BY <1>2 DEF Types
<1>4. \A f \in Files : target[f] \in Nat /\ known[f] \in Nat /\ recorded[f] \in Nat
  BY <1>3 DEF Revisions, NoRevision
<1>5. \A f \in Files : /\ target'[f] \in Nat /\ target[f] <= target'[f]
                       /\ target'[f] = (IF f \in F THEN target[f] + 1 ELSE target[f])
  BY <1>1, <1>4
<1>6. target' \in [Files -> Revisions]
  <2>1. ASSUME NEW f \in Files PROVE target'[f] \in Revisions
    <3>1. Latest[f] \in Revisions /\ target[f] \in Revisions /\ MaxRevision \in Nat
      BY <1>3, FilesAssumption
    <3> QED BY <1>1, <1>5, <3>1 DEF Revisions
  <2> QED BY <1>1, <2>1
<1>7. Types' BY <1>1, <1>2, <1>6 DEF Types
<1>8. /\ SessionInv' /\ CurrentInv' /\ DoneInv' /\ HandleInv' /\ SumInv' /\ UrlInv' /\ FirmwareInv'
      /\ TrialInv' /\ FaultInv'
  <2>1. /\ SessionInv /\ CurrentInv /\ DoneInv /\ HandleInv /\ SumInv /\ UrlInv /\ FirmwareInv
        /\ TrialInv /\ FaultInv
    BY DEF Inv
  <2>2. SessionInv' BY <1>1, <2>1 DEF SessionInv
  <2>3. CurrentInv' BY <1>1, <2>1 DEF CurrentInv, Live, Ordered, Intact, Current, Desc
  <2>4. \A i : Done(i)' <=> Done(i) BY <1>1 DEF Done, Ordered
  <2>5. DoneInv' BY <1>1, <2>1, <2>4 DEF DoneInv, Intact
  <2>6. HandleInv' BY <1>1, <2>1, <2>4 DEF HandleInv, Fresh
  <2>7. SumInv' BY <1>1, <2>1 DEF SumInv, Fresh
  <2>8. UrlInv' BY <1>1, <2>1 DEF UrlInv, NoOverlap, OnTheWay, Current, Desc, Intact
  <2>9. FirmwareInv' BY <1>1, <2>1, <2>4 DEF FirmwareInv, Ordered
  <2>10. TrialInv' /\ FaultInv' BY <1>1, <2>1 DEF TrialInv, FaultInv
  <2> QED BY <2>2, <2>3, <2>5, <2>6, <2>7, <2>8, <2>9, <2>10
<1>9. ASSUME NEW fs \in Seq(Descs), IsPackage(fs) PROVE IsPackage(fs)'
  <2>1. \A i \in 1 .. Len(fs) : fs[i] \in Descs OBVIOUS
  <2>2. \A i \in 1 .. Len(fs) : fs[i].file \in Files /\ fs[i].rev \in Nat BY <2>1 DEF Descs, Revisions
  <2>3. \A i \in 1 .. Len(fs) : fs[i].rev <= target'[fs[i].file] BY <1>4, <1>5, <1>9, <2>2 DEF IsPackage
  <2> QED BY <1>9, <2>3 DEF IsPackage
<1>10. PackageInv'
  <2>1. \A i \in 1 .. Len(down) : down[i].type = "fua" => down[i].files \in Seq(Descs)
    <3>1. \A i \in 1 .. Len(down) : down[i] \in Fua \cup Chunks BY <1>3
    <3> QED BY <3>1 DEF Fua, Chunks
  <2>2. \A i \in 1 .. Len(down') : down'[i].type = "fua" => IsPackage(down[i].files)'
    <3>1. SUFFICES ASSUME NEW i \in 1 .. Len(down), down[i].type = "fua" PROVE IsPackage(down[i].files)'
      BY <1>1
    <3>2. IsPackage(down[i].files) BY <1>2, <3>1 DEF PackageInv
    <3>3. PICK fs \in Seq(Descs) : fs = down[i].files BY <2>1, <3>1
    <3>4. IsPackage(fs)' BY <1>9, <3>2, <3>3
    <3> QED BY <1>1, <3>3, <3>4
  <2>3. sft'.fua # NoPackage => IsPackage(sft.fua.files)'
    <3>1. SUFFICES ASSUME sft.fua # NoPackage PROVE IsPackage(sft.fua.files)' BY <1>1
    <3>2. IsPackage(sft.fua.files) BY <1>2, <3>1 DEF PackageInv
    <3>3. PICK fs \in Seq(Descs) : fs = sft.fua.files BY <1>3, SftFields
    <3>4. IsPackage(fs)' BY <1>9, <3>2, <3>3
    <3> QED BY <1>1, <3>3, <3>4
  <2> QED BY <1>1, <1>2, <2>2, <2>3 DEF PackageInv
<1>11. OfferInv'
  <2>1. \A i : Offered(i)' <=> Offered(i) BY <1>1 DEF Offered, HasFirmware
  <2>2. HasFirmware(sft.fua.files)' <=> HasFirmware(sft.fua.files) BY <1>1 DEF HasFirmware
  <2>3. \A f \in Firmware : known[f] # target[f] => known'[f] # target'[f]
    BY <1>1, <1>2, <1>4, <1>5, FilesAssumption DEF BehindInv
  <2> QED BY <1>1, <1>2, <2>1, <2>2, <2>3 DEF OfferInv
<1>12. BehindInv'
  <2>1. \A f \in Files : known[f] <= target'[f] /\ recorded[f] <= target'[f]
    BY <1>2, <1>4, <1>5 DEF BehindInv
  <2>2. mailbox # NoMail => mailbox.rev <= target'[mailbox.file]
    <3>1. SUFFICES ASSUME mailbox # NoMail PROVE mailbox.rev <= target'[mailbox.file] OBVIOUS
    <3>2. mailbox.file \in Files /\ mailbox.rev \in Nat BY <1>3, <3>1 DEF Descs, Revisions
    <3> QED BY <1>2, <1>4, <1>5, <3>1, <3>2 DEF BehindInv
  <2> QED BY <1>1, <2>1, <2>2 DEF BehindInv
<1>13. AloneInv'
  <2>1. SUFFICES ASSUME Alone PROVE AloneInv' BY <1>1 DEF AloneInv, Alone
  <2>2. \A f \in Files \ Firmware : /\ known[f] = target'[f] => Intact(f, target'[f])
                                    /\ recorded[f] = target'[f] => Intact(f, target'[f])
    <3>1. SUFFICES ASSUME NEW f \in Files \ Firmware, known[f] = target'[f] \/ recorded[f] = target'[f]
                   PROVE Intact(f, target'[f])
      OBVIOUS
    <3>2. target'[f] = target[f] BY <1>2, <1>4, <1>5, <3>1 DEF BehindInv
    <3> QED BY <1>2, <2>1, <3>1, <3>2 DEF AloneInv
  <2>3. \A f \in Files : Intact(f, target[f])' <=> Intact(f, target'[f]) BY <1>1 DEF Intact
  <2>4. \A i : Pending(i)' <=> Pending(i) BY <1>1 DEF Pending, Ordered
  <2>5. /\ \A i \in 1 .. Len(down) : down[i].type = "fua" =>
             /\ Len(down) = 1 /\ up = <<>> /\ url = {} /\ tasks = <<>> /\ step = "idle"
             /\ \A k \in 1 .. Len(down[i].files) : ToCome(down[i].files[k])'
        /\ sft.fua # NoPackage =>
             \A i \in 1 .. Len(sft.fua.files) : Pending(i) => ToCome(sft.fua.files[i])'
    BY <1>1, <1>2, <2>1 DEF AloneInv, ToCome, Told
  <2>6. Fresh' <=> Fresh BY <1>1 DEF Fresh
  <2>7. Live(sft.current)' <=> Live(sft.current) BY <1>1 DEF Live
  <2>8. Current' = Current BY <1>1 DEF Current, Desc
  <2>9. /\ \/ sft.handle = NoFile \/ Fresh
           \/ sft.current # Null /\ Live(sft.current) /\ sft.handle = Current.file
        /\ step = "next" => sft.handle = NoFile \/ Fresh
    BY <1>2, <2>1 DEF AloneInv
  <2> QED BY <1>1, <2>2, <2>3, <2>4, <2>5, <2>6, <2>7, <2>8, <2>9 DEF AloneInv
<1>14. \A i \in 1 .. Len(up) : up[i].type = "status" =>
         /\ up[i].file \in Files /\ up[i].rev \in Nat
         /\ target[up[i].file] \in Nat /\ target[up[i].file] <= target'[up[i].file]
         /\ target[up[i].file] = target'[up[i].file] \/ target[up[i].file] < target'[up[i].file]
  <2>1. SUFFICES ASSUME NEW i \in 1 .. Len(up), up[i].type = "status"
                 PROVE  up[i].file \in Files /\ up[i].rev \in Nat
    BY <1>4, <1>5
  <2>2. up[i] \in Ups BY <1>2 DEF Types
  <2>3. up[i] \in Reports BY <2>1, <2>2 DEF Ups, Asks, Infos
  <2> QED BY <2>3 DEF Reports, Revisions
<1>15. WireInv'
  <2>1. ASSUME NEW i \in 1 .. Len(up), up[i].type = "status"
        PROVE  up[i].file \notin Firmware /\ up[i].rev <= target'[up[i].file]
    <3>1. up[i].file \notin Firmware /\ up[i].rev <= target[up[i].file] BY <1>2, <2>1 DEF WireInv
    <3>2. target'[up[i].file] \in Nat BY <1>5, <1>14, <2>1
    <3> QED BY <1>14, <2>1, <3>1, <3>2
  <2> QED BY <1>1, <1>2, <2>1 DEF WireInv
<1>16. ReportInv'
  <2>1. SUFFICES ASSUME Alone PROVE ReportInv' BY <1>1 DEF ReportInv, Alone
  <2>2. ASSUME NEW i \in 1 .. Len(up), up[i].type = "status", up[i].rev = target'[up[i].file]
        PROVE  Intact(up[i].file, target[up[i].file])'
    <3>1. up[i].rev <= target[up[i].file] BY <1>2, <2>2 DEF WireInv
    <3>2. up[i].rev = target[up[i].file] BY <1>14, <2>2, <3>1
    <3>3. Intact(up[i].file, target[up[i].file]) BY <1>2, <2>1, <2>2, <3>2 DEF ReportInv
    <3> QED BY <1>1, <2>2, <3>2, <3>3 DEF Intact
  <2> QED BY <1>1, <1>2, <2>1, <2>2 DEF ReportInv
<1>17. KnownInv'
  <2>1. \A f, r : Heard(f, r) => Heard(f, r)' BY <1>1 DEF Heard
  <2> QED BY <1>1, <1>2, <2>1, StillHeard DEF Alone
<1> QED BY <1>7, <1>8, <1>10, <1>11, <1>12, <1>13, <1>15, <1>16, <1>17 DEF Inv

-----------------------------------------------------------------------------
(***************************************************************************)
(* A file is complete: its revision.                                       *)
(***************************************************************************)
LEMMA AtRecord ==
  ASSUME Inv, step \in {"record", "save"}
  PROVE  /\ conn = "up" /\ url = {} /\ tasks = <<>> /\ ~trial
         /\ sft.current # Null /\ Live(sft.current) /\ sft.fua # NoPackage
         /\ sft.current.at \in 1 .. Len(sft.fua.files) /\ ~Ordered(sft.current.at)
         /\ sft.current = [pkg |-> sft.fua.id, at |-> sft.current.at]
         /\ Current = sft.fua.files[sft.current.at] /\ Current \in Descs
         /\ Current.file \in Files /\ Current.rev \in Revisions
         /\ Current.rev <= target[Current.file] /\ Intact(Current.file, Current.rev)
         /\ \A i \in 1 .. Len(sft.fua.files) :
              /\ sft.fua.files[i].file = Current.file => i = sft.current.at
              /\ sft.current = [pkg |-> sft.fua.id, at |-> i] => i = sft.current.at
         /\ sft.handle = NoFile \/ Fresh
         /\ \A i \in 1 .. Len(up) : up[i].type # "info"
         /\ Alone => \A i \in 1 .. Len(down) : down[i].type # "fua"
<1>1. Types /\ SessionInv /\ PackageInv /\ CurrentInv /\ HandleInv /\ UrlInv /\ TrialInv /\ AloneInv
  BY DEF Inv
<1>2. conn = "up" /\ url = {} /\ tasks = <<>> /\ ~trial BY <1>1 DEF SessionInv, UrlInv, TrialInv
<1>3. sft.current # Null /\ Live(sft.current) /\ Intact(Current.file, Current.rev) BY <1>1 DEF CurrentInv
<1>4. /\ sft.current.at \in 1 .. Len(sft.fua.files) /\ ~Ordered(sft.current.at)
      /\ Current = sft.fua.files[sft.current.at] /\ Current \in Descs
      /\ Current.file \in Files /\ Current.rev \in Revisions
      /\ sft.fua # NoPackage /\ sft.current = [pkg |-> sft.fua.id, at |-> sft.current.at]
  BY <1>1, <1>3, CurrentType
<1>5. IsPackage(sft.fua.files) BY <1>1, <1>4 DEF PackageInv
<1>6. Current.rev <= target[Current.file] BY <1>4, <1>5 DEF IsPackage
<1>7. \A i \in 1 .. Len(sft.fua.files) : sft.fua.files[i].file = Current.file => i = sft.current.at
  BY <1>4, <1>5 DEF IsPackage, Distinct
<1>8. \A i : sft.current = [pkg |-> sft.fua.id, at |-> i] => i = sft.current.at OBVIOUS
<1>9. sft.handle = NoFile \/ Fresh BY <1>1 DEF HandleInv
<1>10. Alone => \A i \in 1 .. Len(down) : down[i].type # "fua" BY <1>1 DEF AloneInv
<1>11. \A i \in 1 .. Len(up) : up[i].type # "info"
  <2>1. step # "idle" OBVIOUS
  <2> QED BY <2>1, NoInfo
<1> QED BY <1>2, <1>3, <1>4, <1>6, <1>7, <1>8, <1>9, <1>10, <1>11

LEMMA RevisionHandled ==
  ASSUME Inv, step \in {"record", "save"}, step' \in {"save", "next"},
         UNCHANGED <<content, conn, sft, target, down, url, tasks, fault>>,
         Fresh => Fresh'
  PROVE  /\ SessionInv' /\ PackageInv' /\ CurrentInv' /\ DoneInv' /\ HandleInv' /\ SumInv'
         /\ UrlInv' /\ FaultInv'
         /\ \A i : Done(i) => Done(i)'
         /\ \A i : Done(i)' /\ step' = "save" => Done(i)
         /\ \A i : Done(i)' /\ i # sft.current.at => Done(i)
<1>1. /\ SessionInv /\ PackageInv /\ CurrentInv /\ DoneInv /\ SumInv /\ UrlInv /\ FaultInv
      /\ HandleInv
  BY DEF Inv
<1>2. /\ conn = "up" /\ url = {} /\ tasks = <<>>
      /\ sft.current # Null /\ Live(sft.current) /\ sft.fua # NoPackage
      /\ sft.current.at \in 1 .. Len(sft.fua.files) /\ ~Ordered(sft.current.at)
      /\ Current = sft.fua.files[sft.current.at] /\ Intact(Current.file, Current.rev)
      /\ \A i \in 1 .. Len(sft.fua.files) : sft.current = [pkg |-> sft.fua.id, at |-> i] => i = sft.current.at
      /\ sft.handle = NoFile \/ Fresh
  BY AtRecord
<1>3. \A i : Ordered(i)' <=> Ordered(i) BY DEF Ordered
<1>4. SessionInv' BY <1>1, <1>2 DEF SessionInv
<1>5. PackageInv' BY <1>1 DEF PackageInv, IsPackage
<1>6. CurrentInv'
  <2>1. Live(sft.current)' /\ Current' = Current BY <1>2 DEF Live, Current, Desc
  <2>2. Intact(Current.file, Current.rev)' BY <1>2, <2>1 DEF Intact
  <2>3. {sft'.current, sft'.firmware} \subseteq Pointers BY <1>1 DEF CurrentInv
  <2>4. sft'.current.at \in 1 .. Len(sft'.fua.files) /\ ~Ordered(sft.current.at)' BY <1>2 DEF Ordered
  <2> QED BY <1>2, <2>1, <2>2, <2>3, <2>4 DEF CurrentInv
<1>7. \A i : Done(i) => Done(i)' BY <1>2, <1>3 DEF Done
<1>8. \A i : Done(i)' /\ step' = "save" => Done(i) BY <1>2, <1>3 DEF Done
<1>9. \A i : Done(i)' /\ i # sft.current.at => Done(i) BY <1>2, <1>3 DEF Done
<1>10. DoneInv'
  <2>1. SUFFICES ASSUME NEW i \in 1 .. Len(sft.fua.files), Done(i)'
                 PROVE  Intact(sft.fua.files[i].file, sft.fua.files[i].rev)
    BY DEF DoneInv, Intact
  <2>2. CASE i = sft.current.at BY <1>2, <2>2
  <2>3. CASE i # sft.current.at
    <3>1. Done(i) BY <1>9, <2>1, <2>3
    <3> QED BY <1>1, <1>2, <3>1 DEF DoneInv
  <2> QED BY <2>2, <2>3
<1>11. HandleInv'
  <2>1. sft'.handle = NoFile \/ Fresh' BY <1>2
  <2> QED BY <2>1 DEF HandleInv
<1>12. SumInv' BY <1>1 DEF SumInv
<1>13. UrlInv' BY <1>2 DEF UrlInv
<1>14. FaultInv' BY <1>1 DEF FaultInv
<1> QED BY <1>4, <1>5, <1>6, <1>7, <1>8, <1>9, <1>10, <1>11, <1>12, <1>13, <1>14

LEMMA MailFirmwareStep == Inv /\ MailFirmware => Inv'
<1> SUFFICES ASSUME Inv, MailFirmware PROVE Inv' OBVIOUS
<1>1. /\ step = "record" /\ sft.firmware = sft.current /\ mailbox' = Current /\ step' = "next"
      /\ UNCHANGED <<content, recorded, running, committed, trial, conn, sft, target, known, down, up,
                     url, tasks, fault, used>>
  BY DEF MailFirmware, At, booted, server, wire, app
<1>2. Types /\ FirmwareInv /\ OfferInv /\ BehindInv /\ TrialInv /\ AloneInv /\ KnownInv BY DEF Inv
<1>3. /\ conn = "up" /\ ~trial /\ sft.current = [pkg |-> sft.fua.id, at |-> sft.current.at]
      /\ Current = sft.fua.files[sft.current.at] /\ Current \in Descs
      /\ Current.rev <= target[Current.file]
      /\ \A i \in 1 .. Len(up) : up[i].type # "info"
      /\ sft.handle = NoFile \/ Fresh
      /\ Alone => \A i \in 1 .. Len(down) : down[i].type # "fua"
  BY <1>1, AtRecord
<1>4. /\ SessionInv' /\ PackageInv' /\ CurrentInv' /\ DoneInv' /\ HandleInv' /\ SumInv'
      /\ UrlInv' /\ FaultInv'
  <2>1. Fresh => Fresh' BY <1>1 DEF Fresh
  <2> QED BY <1>1, <2>1, RevisionHandled
<1>5. Types' BY <1>1, <1>2, <1>3 DEF Types, Steps
<1>6. FirmwareInv'
  <2>1. ASSUME NEW i \in 1 .. Len(sft.fua.files), sft.fua.files[i].file \in Firmware, ~Ordered(i)
        PROVE  sft.firmware = [pkg |-> sft.fua.id, at |-> i] /\ mailbox' = sft.fua.files[i]
    <3>1. sft.firmware = [pkg |-> sft.fua.id, at |-> i] BY <1>2, <2>1 DEF FirmwareInv
    <3>2. sft.current.at = i BY <1>1, <3>1
    <3> QED BY <1>1, <1>3, <3>1, <3>2
  <2>2. \A i : Ordered(i)' <=> Ordered(i) BY <1>1 DEF Ordered
  <2> QED BY <1>1, <1>2, <2>1, <2>2 DEF FirmwareInv
<1>7. OfferInv' BY <1>1, <1>2 DEF OfferInv, Offered, HasFirmware
<1>8. BehindInv' BY <1>1, <1>2, <1>3 DEF BehindInv
<1>9. TrialInv' BY <1>1, <1>2, <1>3 DEF TrialInv
<1>10. AloneInv'
  <2>1. SUFFICES ASSUME Alone PROVE AloneInv' BY <1>1 DEF AloneInv, Alone
  <2>2. \A i : Pending(i)' => Pending(i) BY <1>1 DEF Pending, Ordered
  <2>3. sft'.fua # NoPackage =>
          \A i \in 1 .. Len(sft'.fua.files) : Pending(i)' => ToCome(sft.fua.files[i])'
    BY <1>1, <1>2, <2>1, <2>2 DEF AloneInv, ToCome, Told
  <2>4. sft'.handle = NoFile \/ Fresh' BY <1>1, <1>3 DEF Fresh
  <2>5. \A f \in Files \ Firmware : /\ known'[f] = target'[f] => Intact(f, target[f])'
                                    /\ recorded'[f] = target'[f] => Intact(f, target[f])'
    BY <1>1, <1>2, <2>1 DEF AloneInv, Intact
  <2> QED BY <1>1, <1>3, <2>1, <2>3, <2>4, <2>5 DEF AloneInv
<1>11. WireInv' /\ ReportInv' /\ KnownInv'
  <2>1. Alone' => Alone BY <1>1 DEF Alone
  <2>2. /\ WireInv' /\ ReportInv' /\ \A f, r : Heard(f, r) => Heard(f, r)'
    BY <1>1, <1>3, <2>1, ReportsKept
  <2> QED BY <1>1, <1>2, <2>1, <2>2, StillHeard
<1> QED BY <1>4, <1>5, <1>6, <1>7, <1>8, <1>9, <1>10, <1>11 DEF Inv

LEMMA ReportFinishedStep == Inv /\ ReportFinished => Inv'
<1> SUFFICES ASSUME Inv, ReportFinished PROVE Inv' OBVIOUS
<1> DEFINE q == Status(Current)
           n == Len(up)
<1>1. /\ step = "record" /\ sft.firmware # sft.current /\ step' = "save" /\ up' = Append(up, q)
      /\ UNCHANGED <<content, recorded, mailbox, running, committed, trial, conn, sft, target, known, down,
                     url, tasks, fault, used>>
  BY DEF ReportFinished, At, disk, booted, server, app
<1>2. /\ Types /\ FirmwareInv /\ OfferInv /\ BehindInv /\ TrialInv /\ WireInv /\ AloneInv /\ ReportInv
      /\ KnownInv
  BY DEF Inv
<1>3. /\ conn = "up" /\ ~trial /\ sft.current = [pkg |-> sft.fua.id, at |-> sft.current.at]
      /\ sft.current.at \in 1 .. Len(sft.fua.files) /\ ~Ordered(sft.current.at)
      /\ Current = sft.fua.files[sft.current.at] /\ Current.file \in Files /\ Current.rev \in Revisions
      /\ Current.rev <= target[Current.file] /\ Intact(Current.file, Current.rev)
      /\ \A i \in 1 .. Len(sft.fua.files) : sft.fua.files[i].file = Current.file => i = sft.current.at
      /\ sft.handle = NoFile \/ Fresh
      /\ sft.fua # NoPackage
      /\ \A i \in 1 .. Len(up) : up[i].type # "info"
      /\ Alone => \A i \in 1 .. Len(down) : down[i].type # "fua"
  BY <1>1, AtRecord
<1>4. q \in Ups /\ q.type = "status" /\ q.file = Current.file /\ q.rev = Current.rev
  BY <1>3 DEF Status, Ups, Reports
<1> HIDE DEF q
<1>5. up \in Seq(Ups) BY <1>2 DEF Types
<1>6. /\ up' \in Seq(Ups) /\ Len(up') = n + 1 /\ n \in Nat
      /\ \A i \in 1 .. n : up'[i] = up[i]
      /\ up'[n + 1] = q
  BY <1>1, <1>4, <1>5, Appended
<1>7. /\ \A i \in 1 .. Len(up') : (i \in 1 .. n /\ up'[i] = up[i]) \/ (i = n + 1 /\ up'[i] = q)
      /\ \A i \in 1 .. n : i \in 1 .. Len(up')
      /\ n + 1 \in 1 .. Len(up') /\ n + 1 \notin 1 .. n
  BY <1>6
<1>8. Len(up) = n OBVIOUS
<1> HIDE DEF n
<1>9. Fresh => Fresh'
  <2>1. Fresh => \A i \in 1 .. Len(up') : up'[i].type = "get" => up'[i].off = 0
    BY <1>4, <1>7, <1>8 DEF Fresh
  <2> QED BY <1>1, <2>1 DEF Fresh
<1>10. /\ SessionInv' /\ PackageInv' /\ CurrentInv' /\ DoneInv' /\ HandleInv' /\ SumInv'
       /\ UrlInv' /\ FaultInv' /\ \A i : Done(i)' => Done(i)
  BY <1>1, <1>9, RevisionHandled
<1>11. Types' BY <1>1, <1>2, <1>6 DEF Types, Steps
<1>12. Current.file \notin Firmware BY <1>1, <1>2, <1>3 DEF FirmwareInv
<1>13. Current' = Current BY <1>1 DEF Current, Desc
<1>14. FirmwareInv'
  <2>1. \A i : Ordered(i)' <=> Ordered(i) BY <1>1 DEF Ordered
  <2> QED BY <1>1, <1>2, <1>10, <2>1 DEF FirmwareInv
<1>15. OfferInv' BY <1>1, <1>2 DEF OfferInv, Offered, HasFirmware
<1>16. BehindInv' /\ TrialInv' BY <1>1, <1>2, <1>3 DEF BehindInv, TrialInv
<1>17. WireInv'
  <2>1. \A i \in 1 .. Len(up') : up'[i].type # "info" BY <1>3, <1>4, <1>7, <1>8
  <2>2. \A i \in 1 .. Len(up') : up'[i].type = "status" =>
          up'[i].file \notin Firmware /\ up'[i].rev <= target[up'[i].file]
    BY <1>2, <1>3, <1>4, <1>7, <1>8, <1>12 DEF WireInv
  <2> QED BY <1>1, <2>1, <2>2 DEF WireInv
<1>18. Alone' <=> Alone BY <1>1 DEF Alone
<1>19. Alone => known[Current.file] < Current.rev /\ ~Told(Current.file)
  <2>1. Pending(sft.current.at) BY <1>1, <1>3 DEF Pending
  <2>2. Alone => ToCome(Current) BY <1>2, <1>3, <2>1 DEF AloneInv
  <2> QED BY <1>12, <2>2 DEF ToCome
<1>20. ReportInv'
  <2>1. SUFFICES ASSUME Alone PROVE ReportInv' BY <1>18 DEF ReportInv
  <2>2. \A i \in 1 .. n : up[i].type = "status" =>
          /\ known[up[i].file] <= up[i].rev
          /\ up[i].rev = target[up[i].file] => content[up[i].file] = Whole(up[i].file, target[up[i].file])
          /\ \A j \in 1 .. n : up[j].type = "status" /\ up[j].file = up[i].file => j = i
          /\ up[i].file # q.file
    BY <1>2, <1>4, <1>8, <1>19, <2>1 DEF ReportInv, Intact, Told
  <2>3. /\ known[q.file] <= q.rev
        /\ q.rev = target[q.file] => content[q.file] = Whole(q.file, target[q.file])
    <3>1. known[Current.file] \in Nat /\ Current.rev \in Nat
      <4>1. known[Current.file] \in Revisions \cup {NoRevision} BY <1>2, <1>3 DEF Types
      <4> QED BY <1>3, <4>1, RevisionNumbers
    <3>2. known[Current.file] <= Current.rev BY <1>19, <2>1, <3>1
    <3> QED BY <1>3, <1>4, <3>2 DEF Intact
  <2>4. ASSUME NEW i \in 1 .. Len(up'), up'[i].type = "status"
        PROVE  /\ known'[up'[i].file] <= up'[i].rev
               /\ up'[i].rev = target'[up'[i].file] =>
                    content'[up'[i].file] = Whole(up'[i].file, target'[up'[i].file])
    BY <1>1, <1>7, <2>2, <2>3, <2>4
  <2>5. ASSUME NEW i \in 1 .. Len(up'), up'[i].type = "status",
               NEW j \in 1 .. Len(up'), up'[j].type = "status", up'[j].file = up'[i].file
        PROVE  j = i
    BY <1>7, <2>2, <2>5
  <2> QED BY <2>4, <2>5 DEF ReportInv, Intact
<1>21. KnownInv'
  <2>1. SUFFICES ASSUME Alone, NEW f \in Files \ Firmware
                 PROVE  Heard(f, recorded[f])' /\ (f = Current'.file => Heard(f, Current.rev)')
    BY <1>1, <1>18 DEF KnownInv
  <2>2. Heard(f, recorded[f]) BY <1>1, <1>2, <1>3, <2>1 DEF KnownInv
  <2>3. Heard(f, recorded[f])' BY <1>1, <1>7, <1>8, <2>2 DEF Heard
  <2>4. ASSUME f = Current'.file PROVE Heard(f, Current.rev)'
    <3>1. /\ n + 1 \in 1 .. Len(up') /\ up'[n + 1].type = "status" /\ up'[n + 1].file = f
          /\ Current'.rev <= up'[n + 1].rev
      <4>1. Current.rev <= Current.rev BY <1>3, RevisionNumbers
      <4> QED BY <1>4, <1>6, <1>7, <1>13, <2>4, <4>1
    <3> QED BY <3>1 DEF Heard
  <2> QED BY <2>3, <2>4
<1>22. AloneInv'
  <2>1. SUFFICES ASSUME Alone PROVE AloneInv' BY <1>18 DEF AloneInv
  <2>2. ASSUME NEW i \in 1 .. Len(sft.fua.files), Pending(i)' PROVE ToCome(sft.fua.files[i])'
    <3>1. Ordered(i) BY <1>1, <2>2 DEF Pending, Ordered
    <3>2. ToCome(sft.fua.files[i]) BY <1>2, <1>3, <2>1, <3>1 DEF AloneInv, Pending
    <3>3. sft.fua.files[i].file # Current.file BY <1>3, <3>1
    <3>4. Told(sft.fua.files[i].file)' => Told(sft.fua.files[i].file)
      BY <1>1, <1>4, <1>7, <1>8, <3>3 DEF Told
    <3> QED BY <1>1, <3>2, <3>4 DEF ToCome
  <2>3. sft'.handle = NoFile \/ Fresh' BY <1>1, <1>3, <1>9
  <2>4. \A f \in Files \ Firmware : /\ known'[f] = target'[f] => Intact(f, target[f])'
                                    /\ recorded'[f] = target'[f] => Intact(f, target[f])'
    BY <1>1, <1>2, <2>1 DEF AloneInv, Intact
  <2> QED BY <1>1, <1>3, <2>1, <2>2, <2>3, <2>4 DEF AloneInv
<1> QED BY <1>10, <1>11, <1>14, <1>15, <1>16, <1>17, <1>20, <1>21, <1>22 DEF Inv

(* The revision is saved, or is not, or is lost.                             *)
LEMMA RevisionSaved ==
  ASSUME Inv, step = "save", step' = "next",
         NEW r, r \in {Current.rev, NoRevision, recorded[Current.file]},
         recorded' = [recorded EXCEPT ![Current.file] = r],
         used' \in Counts, Alone' => Alone,
         UNCHANGED <<content, mailbox, running, committed, trial, conn, sft, target, known, down, up,
                     url, tasks, fault>>
  PROVE  Inv'
<1>2. Types /\ FirmwareInv /\ OfferInv /\ BehindInv /\ TrialInv /\ AloneInv /\ KnownInv BY DEF Inv
<1>3. /\ conn = "up" /\ ~trial /\ sft.current = [pkg |-> sft.fua.id, at |-> sft.current.at]
      /\ sft.current.at \in 1 .. Len(sft.fua.files) /\ ~Ordered(sft.current.at)
      /\ Current = sft.fua.files[sft.current.at] /\ Current.file \in Files /\ Current.rev \in Revisions
      /\ Current.rev <= target[Current.file] /\ Intact(Current.file, Current.rev)
      /\ \A i \in 1 .. Len(sft.fua.files) : sft.fua.files[i].file = Current.file => i = sft.current.at
      /\ sft.handle = NoFile \/ Fresh
      /\ sft.fua # NoPackage
      /\ \A i \in 1 .. Len(up) : up[i].type # "info"
      /\ Alone => \A i \in 1 .. Len(down) : down[i].type # "fua"
  BY AtRecord
<1>4. /\ SessionInv' /\ PackageInv' /\ CurrentInv' /\ DoneInv' /\ HandleInv' /\ SumInv'
      /\ UrlInv' /\ FaultInv' /\ \A i : Done(i)' /\ i # sft.current.at => Done(i)
  <2>1. Fresh => Fresh' BY DEF Fresh
  <2> QED BY <2>1, RevisionHandled
<1>5. recorded \in [Files -> Revisions \cup {NoRevision}] BY <1>2 DEF Types
<1>6. /\ recorded' \in [Files -> Revisions \cup {NoRevision}] /\ recorded'[Current.file] = r
      /\ \A f \in Files : f # Current.file => recorded'[f] = recorded[f]
  BY <1>3, <1>5
<1>7. Types' BY <1>2, <1>6 DEF Types, Steps
<1>8. FirmwareInv'
  <2>1. \A i : Ordered(i)' <=> Ordered(i) BY DEF Ordered
  <2>2. sft.firmware # sft.current BY <1>2 DEF FirmwareInv
  <2>3. ASSUME NEW i \in 1 .. Len(sft.fua.files), sft.fua.files[i].file \in Firmware, ~Ordered(i), Done(i)'
        PROVE  mailbox = sft.fua.files[i]
    <3>1. sft.firmware = [pkg |-> sft.fua.id, at |-> i] BY <1>2, <2>3 DEF FirmwareInv
    <3>2. i # sft.current.at BY <1>3, <2>2, <3>1
    <3>3. Done(i) BY <1>4, <2>3, <3>2
    <3> QED BY <1>2, <2>3, <3>3 DEF FirmwareInv
  <2> QED BY <1>2, <2>1, <2>3 DEF FirmwareInv
<1>9. OfferInv' BY <1>2 DEF OfferInv, Offered, HasFirmware
<1>10. BehindInv'
  <2>1. \A f \in Files : NoRevision <= target[f] BY <1>2 DEF Types, Revisions, NoRevision
  <2>2. \A f \in Files : recorded'[f] <= target[f] BY <1>2, <1>3, <1>6, <2>1 DEF BehindInv
  <2> QED BY <1>2, <2>2 DEF BehindInv
<1>11. TrialInv' BY <1>2, <1>3 DEF TrialInv
<1>12. AloneInv'
  <2>1. SUFFICES ASSUME Alone PROVE AloneInv' BY DEF AloneInv
  <2>2. ASSUME NEW i \in 1 .. Len(sft.fua.files), Pending(i)', sft.fua # NoPackage
        PROVE ToCome(sft.fua.files[i])'
    <3>1. Ordered(i) BY <2>2 DEF Pending, Ordered
    <3>2. ToCome(sft.fua.files[i]) BY <1>2, <2>1, <2>2, <3>1 DEF AloneInv, Pending
    <3>3. sft.fua.files[i].file # Current.file BY <1>3, <3>1
    <3>4. sft.fua.files[i].file \in Files
      <4>1. sft.fua.files \in Seq(Descs) BY <1>2, SftFields DEF Types
      <4>2. sft.fua.files[i] \in Descs BY <4>1
      <4> QED BY <4>2 DEF Descs
    <3>5. recorded'[sft.fua.files[i].file] = recorded[sft.fua.files[i].file] BY <1>6, <3>3, <3>4
    <3> QED BY <3>2, <3>5 DEF ToCome, Told
  <2>3. sft'.handle = NoFile \/ Fresh' BY <1>3 DEF Fresh
  <2>4. \A f \in Files \ Firmware : /\ known'[f] = target'[f] => Intact(f, target[f])'
                                    /\ recorded'[f] = target'[f] => Intact(f, target[f])'
    <3>1. SUFFICES ASSUME NEW f \in Files \ Firmware, recorded'[f] = target[f] PROVE Intact(f, target[f])
      BY <1>2, <2>1 DEF AloneInv, Intact
    <3>2. CASE f # Current.file BY <1>2, <1>6, <2>1, <3>1, <3>2 DEF AloneInv
    <3>3. CASE f = Current.file
      <4>1. target[f] # NoRevision BY <1>2 DEF Types, Revisions, NoRevision
      <4>2. CASE r = Current.rev BY <1>3, <1>6, <3>1, <3>3, <4>2
      <4>3. CASE r = recorded[f] BY <1>2, <1>6, <2>1, <3>1, <3>3, <4>3 DEF AloneInv
      <4> QED BY <1>6, <3>1, <3>3, <4>1, <4>2, <4>3
    <3> QED BY <3>2, <3>3
  <2> QED BY <1>3, <2>1, <2>2, <2>3, <2>4 DEF AloneInv
<1>13. WireInv' /\ ReportInv' /\ \A f, x : Heard(f, x) => Heard(f, x)'
  BY <1>3, ReportsKept
<1>14. KnownInv'
  <2>1. SUFFICES ASSUME Alone, NEW f \in Files \ Firmware PROVE Heard(f, recorded[f])'
    BY DEF KnownInv
  <2>2. /\ Heard(f, recorded[f])
        /\ f = Current.file => Heard(f, Current.rev)
    BY <1>2, <1>3, <2>1 DEF KnownInv
  <2>3. Heard(f, NoRevision)
    <3>1. known[f] \in Revisions \cup {NoRevision} BY <1>2 DEF Types
    <3>2. NoRevision <= known[f] BY <3>1 DEF Revisions, NoRevision
    <3> QED BY <3>2 DEF Heard
  <2>4. Heard(f, recorded'[f]) BY <1>6, <2>2, <2>3
  <2>5. PICK x : x = recorded'[f] OBVIOUS
  <2>6. Heard(f, x)' BY <1>13, <2>4, <2>5
  <2> QED BY <2>5, <2>6 DEF Heard
<1> QED BY <1>4, <1>7, <1>8, <1>9, <1>10, <1>11, <1>12, <1>13, <1>14 DEF Inv

LEMMA SaveRevisionStep == Inv /\ SaveRevision => Inv'
<1> SUFFICES ASSUME Inv, SaveRevision PROVE Inv' OBVIOUS
<1>1. /\ step = "save" /\ step' = "next"
      /\ recorded' = [recorded EXCEPT ![Current.file] = Current.rev]
      /\ UNCHANGED <<content, mailbox, running, committed, trial, conn, sft, target, known, down, up,
                     url, tasks, fault, used>>
  BY DEF SaveRevision, At, booted, server, wire, app
<1>2. used' \in Counts /\ (Alone' => Alone) BY <1>1 DEF Inv, Types, Alone
<1> QED BY <1>1, <1>2, RevisionSaved

LEMMA SaveFailsStep == Inv /\ SaveFails => Inv'
<1> SUFFICES ASSUME Inv, SaveFails PROVE Inv' OBVIOUS
<1>1. /\ step = "save" /\ step' = "next"
      /\ \/ recorded' = recorded
         \/ recorded' = [recorded EXCEPT ![Current.file] = NoRevision]
      /\ used' = [used EXCEPT !.faults = @ + 1, !.unsaved = @ + 1]
      /\ UNCHANGED <<content, mailbox, running, committed, trial, conn, sft, target, known, down, up,
                     url, tasks, fault>>
  BY DEF SaveFails, RevisionLost, At, booted, server, wire, app
<1>2. Types BY DEF Inv
<1>3. used \in [Counters -> Nat] BY <1>2 DEF Types, Counts
<1>4. {"faults", "unsaved", "early", "untold"} \subseteq Counters BY DEF Counters
<1>5. PICK a \in Nat, b \in Nat : a = used["faults"] + 1 /\ b = used["unsaved"] + 1 BY <1>3, <1>4
<1>6. used' = [used EXCEPT !["faults"] = a, !["unsaved"] = b] BY <1>1, <1>5
<1>7. used' \in [Counters -> Nat] /\ used'["early"] = used["early"] /\ used'["untold"] = used["untold"]
  BY ONLY <1>3, <1>4, <1>6
<1>8. used' \in Counts /\ (Alone' => Alone) BY <1>7 DEF Counts, Alone
<1>9. Current.file \in Files BY <1>1, AtRecord
<1>10. recorded = [recorded EXCEPT ![Current.file] = recorded[Current.file]]
  BY <1>2, <1>9 DEF Types
<1>11. CASE recorded' = recorded BY <1>1, <1>8, <1>10, <1>11, RevisionSaved
<1>12. CASE recorded' = [recorded EXCEPT ![Current.file] = NoRevision]
  BY <1>1, <1>8, <1>12, RevisionSaved
<1> QED BY <1>1, <1>11, <1>12

-----------------------------------------------------------------------------
(***************************************************************************)
(* A chunk of the file being downloaded.                                   *)
(***************************************************************************)
LEMMA AtChunk ==
  ASSUME Inv, Received("chunk"), Expected
  PROVE  /\ step = "idle" /\ conn = "up" /\ url = {} /\ tasks = <<>> /\ ~trial
         /\ sft.current # Null /\ Live(sft.current) /\ sft.fua # NoPackage
         /\ sft.current.at \in 1 .. Len(sft.fua.files) /\ ~Ordered(sft.current.at)
         /\ sft.current = [pkg |-> sft.fua.id, at |-> sft.current.at]
         /\ Current = sft.fua.files[sft.current.at] /\ Current.file = Chunk.file
         /\ Current.rev \in Revisions /\ Current.rev <= target[Current.file]
         /\ \A i \in 1 .. Len(sft.fua.files) : Done(i) => sft.fua.files[i].file # Current.file
         /\ Chunk.off # 0 => ~Fresh
<1>1. Types /\ SessionInv /\ PackageInv /\ CurrentInv /\ UrlInv /\ TrialInv BY DEF Inv
<1>2. step = "idle" /\ conn = "up" /\ down # <<>> BY DEF Received, Idle
<1>3. url = {} /\ tasks = <<>> /\ ~trial BY <1>1, <1>2 DEF UrlInv, NoOverlap, TrialInv
<1>4. sft.current # Null /\ Live(sft.current) /\ Current.file = Chunk.file BY DEF Expected
<1>5. /\ sft.current.at \in 1 .. Len(sft.fua.files) /\ ~Ordered(sft.current.at)
      /\ Current = sft.fua.files[sft.current.at] /\ Current.rev \in Revisions
      /\ sft.fua # NoPackage /\ sft.current = [pkg |-> sft.fua.id, at |-> sft.current.at]
  BY <1>1, <1>4, CurrentType
<1>6. IsPackage(sft.fua.files) BY <1>1, <1>5 DEF PackageInv
<1>7. Current.rev <= target[Current.file] BY <1>5, <1>6 DEF IsPackage
<1>8. ~Done(sft.current.at) BY <1>2, <1>5 DEF Done
<1>9. \A i \in 1 .. Len(sft.fua.files) : Done(i) => sft.fua.files[i].file # Current.file
  BY <1>5, <1>6, <1>8 DEF IsPackage, Distinct
<1>10. Chunk.off # 0 => ~Fresh
  <2>1. Chunk = down[1] /\ Chunk.type = "chunk" BY <1>1, ChunkType
  <2>2. 1 \in 1 .. Len(down)
    <3>1. down \in Seq(Fua \cup Chunks) BY <1>1 DEF Types
    <3> QED BY <1>2, <3>1
  <2> QED BY <2>1, <2>2 DEF Fresh
<1> QED BY <1>2, <1>3, <1>4, <1>5, <1>7, <1>9, <1>10

(* All but the checksum, whether the chunk is written or not.                *)
LEMMA ChunkTaken ==
  ASSUME Inv, Received("chunk"), Expected, down' = Tail(down),
         up' = up \/ \E q \in Asks : up' = Append(up, q),
         UNCHANGED <<recorded, mailbox, running, committed, trial, conn, target, known, url, tasks, fault>>,
         used' \in Counts, Alone' => Alone,
         sft' \in SftType, sft'.fua = sft.fua, sft'.order = sft.order,
         sft'.current = sft.current, sft'.firmware = sft.firmware,
         sft'.handle \in {NoFile, IF Chunk.off = 0 THEN Chunk.file ELSE sft.handle},
         content' \in [Files -> Contents],
         \A g \in Files : g # Chunk.file /\ (Chunk.off # 0 => g # sft.handle) => content'[g] = content[g],
         step' \in {"idle", "record"},
         step' = "record" => sft'.handle = NoFile /\ content'[Current.file] = Whole(Current.file, Current.rev),
         SumInv'
  PROVE  Inv'
<1>1. /\ Types /\ SessionInv /\ PackageInv /\ CurrentInv /\ DoneInv /\ HandleInv /\ FirmwareInv
      /\ OfferInv /\ BehindInv /\ TrialInv /\ FaultInv /\ WireInv /\ AloneInv /\ KnownInv
  BY DEF Inv
<1>2. /\ step = "idle" /\ conn = "up" /\ url = {} /\ tasks = <<>> /\ ~trial
      /\ sft.current # Null /\ Live(sft.current) /\ sft.fua # NoPackage
      /\ sft.current.at \in 1 .. Len(sft.fua.files) /\ ~Ordered(sft.current.at)
      /\ sft.current = [pkg |-> sft.fua.id, at |-> sft.current.at]
      /\ Current = sft.fua.files[sft.current.at] /\ Current.file = Chunk.file
      /\ Current.rev \in Revisions /\ Current.rev <= target[Current.file]
      /\ \A i \in 1 .. Len(sft.fua.files) : Done(i) => sft.fua.files[i].file # Current.file
      /\ Chunk.off # 0 => ~Fresh
  BY AtChunk
<1>3. down \in Seq(Fua \cup Chunks) /\ down # <<>> BY <1>1, ChunkType DEF Types
<1>4. /\ down' \in Seq(Fua \cup Chunks) /\ Len(down') = Len(down) - 1 /\ Len(down) \in Nat
      /\ \A i \in 1 .. Len(down') : down'[i] = down[i + 1] /\ i + 1 \in 1 .. Len(down)
  BY <1>3, Shifted
<1>24. NoFile \notin Files BY FilesAssumption
<1>25. ASSUME Alone
       PROVE  ToCome(Current) /\ (Chunk.off # 0 => sft.handle \in {NoFile, Current.file})
  <2>1. Pending(sft.current.at) BY <1>2 DEF Pending
  <2>2. ToCome(sft.fua.files[sft.current.at]) BY <1>1, <1>2, <1>25, <2>1 DEF AloneInv
  <2>3. \/ sft.handle = NoFile \/ Fresh
        \/ sft.current # Null /\ Live(sft.current) /\ sft.handle = Current.file
    BY <1>1, <1>25 DEF AloneInv
  <2> QED BY <1>2, <2>2, <2>3
<1>26. ASSUME Alone, NEW i \in 1 .. Len(up), up[i].type = "status"
       PROVE  content'[up[i].file] = content[up[i].file]
  <2>1. up \in Seq(Ups) BY <1>1 DEF Types
  <2>2. up[i] \in Ups BY <2>1
  <2>3. up[i].file \in Files
    <3>1. up[i] \in Reports BY <1>26, <2>2 DEF Ups, Asks, Infos
    <3> QED BY <3>1 DEF Reports
  <2>4. up[i].file \notin Firmware BY <1>1, <1>26 DEF WireInv
  <2>5. Current.file \notin Firmware => ~Told(Current.file) BY <1>25, <1>26 DEF ToCome
  <2>6. up[i].file # Current.file BY <1>26, <2>4, <2>5 DEF Told
  <2> QED BY <1>2, <1>24, <1>25, <1>26, <2>3, <2>6
<1>27. /\ up' \in Seq(Ups) /\ WireInv' /\ ReportInv' /\ \A f : Told(f)' <=> Told(f)
       /\ \A f, r : Heard(f, r) => Heard(f, r)'
  <2>1. \A i \in 1 .. Len(up) : up[i].type # "info" BY <1>2, NoInfo
  <2>2. Alone => \A i \in 1 .. Len(up) : up[i].type = "status" => content'[up[i].file] = content[up[i].file]
    BY <1>26
  <2> QED BY <2>1, <2>2, ReportsKept
<1>5. Types'
  <2>1. step' \in Steps BY DEF Steps
  <2> QED BY <1>1, <1>4, <1>27, <2>1 DEF Types
<1>6. \A i : Ordered(i)' <=> Ordered(i) BY DEF Ordered
<1>7. \A i : Done(i)' <=> Done(i) BY <1>2, <1>6 DEF Done
<1>8. Live(sft.current)' /\ Current' = Current BY <1>2 DEF Live, Current, Desc
<1>9. SessionInv' BY <1>1, <1>2 DEF SessionInv
<1>10. PackageInv'
  <2>1. \A i \in 1 .. Len(down') : down'[i].type = "fua" => IsPackage(down[i].files)'
    BY <1>1, <1>4 DEF PackageInv, IsPackage
  <2>2. sft'.fua # NoPackage => IsPackage(sft.fua.files)' BY <1>1 DEF PackageInv, IsPackage
  <2> QED BY <1>1, <2>1, <2>2 DEF PackageInv
<1>11. CurrentInv'
  <2>1. step' = "record" => Intact(Current.file, Current.rev)' BY <1>8 DEF Intact
  <2>2. {sft'.current, sft'.firmware} \subseteq Pointers BY <1>1 DEF CurrentInv
  <2>3. ~Ordered(sft.current.at)' BY <1>2 DEF Ordered
  <2> QED BY <1>2, <1>8, <2>1, <2>2, <2>3 DEF CurrentInv
<1>12. \A i \in 1 .. Len(sft.fua.files) : Done(i) =>
         /\ sft.fua.files[i].file # Chunk.file
         /\ Chunk.off # 0 => sft.handle = NoFile \/ sft.fua.files[i].file # sft.handle
  BY <1>1, <1>2 DEF HandleInv
<1>13. \A i \in 1 .. Len(sft.fua.files) : sft.fua.files[i].file \in Files
  <2>1. sft.fua.files \in Seq(Descs) BY <1>1, SftFields DEF Types
  <2>2. \A i \in 1 .. Len(sft.fua.files) : sft.fua.files[i] \in Descs BY <2>1
  <2> QED BY <2>2 DEF Descs
<1>15. DoneInv'
  <2>1. SUFFICES ASSUME NEW i \in 1 .. Len(sft.fua.files), Done(i)
                 PROVE  content'[sft.fua.files[i].file] = content[sft.fua.files[i].file]
    BY <1>1, <1>2, <1>7 DEF DoneInv, Intact
  <2>2. Chunk.off # 0 => sft.fua.files[i].file # sft.handle BY <1>12, <1>13, <1>24, <2>1
  <2> QED BY <1>12, <1>13, <2>1, <2>2
<1>16. HandleInv' BY <1>7, <1>12 DEF HandleInv
<1>17. UrlInv' BY <1>2 DEF UrlInv
<1>18. FirmwareInv' BY <1>1, <1>6, <1>7 DEF FirmwareInv
<1>19. OfferInv'
  <2>1. \A i \in 1 .. Len(down') : Offered(i)' <=> Offered(i + 1) BY <1>4 DEF Offered, HasFirmware
  <2>2. HasFirmware(sft.fua.files)' <=> HasFirmware(sft.fua.files) BY DEF HasFirmware
  <2>3. ASSUME NEW i \in 1 .. Len(down'), NEW j \in 1 .. Len(down'), i < j, Offered(i)',
               down'[j].type = "fua"
        PROVE  Offered(j)'
    <3>1. Offered(i + 1) /\ down[j + 1].type = "fua" /\ i + 1 < j + 1 BY <1>4, <2>1, <2>3
    <3>2. Offered(j + 1) BY <1>1, <1>4, <3>1 DEF OfferInv
    <3> QED BY <2>1, <3>2
  <2>4. ASSUME HasFirmware(sft.fua.files), NEW i \in 1 .. Len(down'), down'[i].type = "fua"
        PROVE  Offered(i)'
    <3>1. Offered(i + 1) BY <1>1, <1>4, <2>4 DEF OfferInv
    <3> QED BY <2>1, <3>1
  <2>5. HasFirmware(sft.fua.files) \/ (\E i \in 1 .. Len(down') : Offered(i)') =>
          \A f \in Firmware : known[f] # target[f]
    BY <1>1, <1>4, <2>1 DEF OfferInv
  <2>6. sft.firmware # Null => HasFirmware(sft.fua.files) BY <1>1 DEF OfferInv
  <2> QED BY <2>2, <2>3, <2>4, <2>5, <2>6 DEF OfferInv
<1>20. BehindInv' /\ FaultInv' BY <1>1 DEF BehindInv, FaultInv
<1>21. TrialInv' BY <1>1, <1>2 DEF TrialInv
<1>22. AloneInv'
  <2>1. SUFFICES ASSUME Alone PROVE AloneInv' BY DEF AloneInv
  <2>2. \A i \in 1 .. Len(down') : down'[i].type # "fua"
    <3>1. SUFFICES ASSUME NEW i \in 1 .. Len(down'), down[i + 1].type = "fua" PROVE FALSE BY <1>4
    <3>2. Len(down) = 1 BY <1>1, <1>4, <2>1, <3>1 DEF AloneInv
    <3> QED BY <1>4, <3>2
  <2>3. \A i : Pending(i)' <=> Pending(i) BY <1>2, <1>6 DEF Pending
  <2>4. sft'.fua # NoPackage =>
          \A i \in 1 .. Len(sft'.fua.files) : Pending(i)' => ToCome(sft.fua.files[i])'
    BY <1>1, <1>27, <2>1, <2>3 DEF AloneInv, ToCome
  <2>5. Chunk.off # 0 => sft.handle \in {NoFile, Current.file} BY <1>25, <2>1
  <2>6. sft'.handle = NoFile \/ (sft'.current # Null /\ Live(sft.current)' /\ sft'.handle = Current'.file)
    BY <1>2, <1>8, <2>5
  <2>8. ToCome(Current) BY <1>25, <2>1
  <2>9. ASSUME NEW f \in Files \ Firmware, known[f] = target[f] \/ recorded[f] = target[f]
        PROVE  content'[f] = Whole(f, target[f])
    <3>1. f # Current.file
      <4>1. SUFFICES ASSUME f = Current.file PROVE FALSE OBVIOUS
      <4>2. known[f] < Current.rev /\ recorded[f] < Current.rev BY <2>8, <2>9, <4>1 DEF ToCome
      <4>3. known[f] \in Nat /\ recorded[f] \in Nat /\ target[f] \in Nat /\ Current.rev \in Nat
        <5>1. /\ known \in [Files -> Revisions \cup {NoRevision}] /\ target \in [Files -> Revisions]
              /\ recorded \in [Files -> Revisions \cup {NoRevision}]
          BY <1>1 DEF Types
        <5> QED BY <1>2, <5>1, RevisionNumbers
      <4> QED BY <1>2, <2>9, <4>1, <4>2, <4>3
    <3>2. Chunk.off # 0 => f # sft.handle BY <1>24, <2>5, <3>1
    <3>3. content'[f] = content[f] BY <1>2, <3>1, <3>2
    <3> QED BY <1>1, <2>1, <2>9, <3>3 DEF AloneInv, Intact
  <2>10. \A f \in Files \ Firmware : /\ known'[f] = target'[f] => Intact(f, target[f])'
                                     /\ recorded'[f] = target'[f] => Intact(f, target[f])'
    BY <2>9 DEF Intact
  <2> QED BY <2>2, <2>4, <2>6, <2>10 DEF AloneInv
<1>23. KnownInv' BY <1>1, <1>27, StillHeard
<1> QED BY <1>5, <1>9, <1>10, <1>11, <1>15, <1>16, <1>17, <1>18, <1>19, <1>20, <1>21, <1>22,
           <1>23, <1>27 DEF Inv

(* A chunk taken from the queue leaves fewer.                                *)
LEMMA FreshAgain ==
  ASSUME Types, Received("chunk"), down' = Tail(down), up' = up, Fresh
  PROVE  Fresh'
<1>1. down \in Seq(Fua \cup Chunks) /\ down # <<>> BY ChunkType DEF Types
<1>2. \A i \in 1 .. Len(down') : down'[i] = down[i + 1] /\ i + 1 \in 1 .. Len(down) BY <1>1, Shifted
<1> QED BY <1>2 DEF Fresh

(* The file is emptied by the first chunk.                                   *)
LEMMA TruncatedType ==
  ASSUME Types, Received("chunk")
  PROVE  /\ Truncated \in [Files -> Contents]
         /\ Chunk.off # 0 => Truncated = content
         /\ Chunk.off = 0 => Truncated[Chunk.file] = Blank
         /\ \A g \in Files : g # Chunk.file => Truncated[g] = content[g]
<1>1. content \in [Files -> Contents] /\ Chunk.file \in Files BY ChunkType DEF Types
<1>2. Blank \in Contents BY DEF Blank, Contents
<1> QED BY <1>1, <1>2 DEF Truncated

LEMMA ChunkFailsStep == Inv /\ ChunkFails => Inv'
<1> SUFFICES ASSUME Inv, ChunkFails PROVE Inv' OBVIOUS
<1>1. /\ Received("chunk") /\ Expected /\ down' = Tail(down)
      /\ UNCHANGED <<recorded, mailbox, running, committed, trial, conn, step, target, known, up, url,
                     tasks, fault>>
  BY DEF ChunkFails, booted, server, app
<1>2. Types /\ SumInv BY DEF Inv
<1>3. step = "idle" /\ (Chunk.off # 0 => ~Fresh) BY <1>1, AtChunk
<1>4. sft \in SftType /\ content \in [Files -> Contents] /\ used \in Counts
  BY <1>2 DEF Types
<1>5. /\ Opened(sft) \in SftType
      /\ Opened(sft).fua = sft.fua /\ Opened(sft).order = sft.order
      /\ Opened(sft).current = sft.current /\ Opened(sft).firmware = sft.firmware
      /\ Chunk.off # 0 => Opened(sft).handle = sft.handle /\ Opened(sft).checksum = sft.checksum
      /\ Chunk.off = 0 => Opened(sft).handle = Chunk.file /\ Opened(sft).checksum = <<>>
  BY <1>1, <1>2, OpenedFields
<1>6. Fresh => Fresh' BY <1>1, <1>2, FreshAgain
<1>7. CASE /\ Budget("faults", MaxFaults)
           /\ sft' = [sft EXCEPT !.handle = NoFile] /\ content' = content
  <2>1. /\ sft' \in SftType /\ sft'.fua = sft.fua /\ sft'.order = sft.order
        /\ sft'.current = sft.current /\ sft'.firmware = sft.firmware
        /\ sft'.handle = NoFile /\ sft'.checksum = sft.checksum
    BY <1>4, <1>7 DEF SftType
  <2>2. used' \in Counts /\ (Alone' => Alone) BY <1>4, <1>7, Counted DEF Counters
  <2>3. SumInv' BY <1>2, <1>6, <1>7, <2>1 DEF SumInv, Coherent
  <2> QED BY <1>1, <1>3, <1>4, <1>7, <2>1, <2>2, <2>3, ChunkTaken
<1>8. CASE Budget("faults", MaxFaults) /\ sft' = Opened(sft) /\ content' = Truncated
  <2>1. /\ Truncated \in [Files -> Contents]
        /\ Chunk.off # 0 => Truncated = content
        /\ \A g \in Files : g # Chunk.file => Truncated[g] = content[g]
    BY <1>1, <1>2, TruncatedType
  <2>2. used' \in Counts /\ (Alone' => Alone) BY <1>4, <1>8, Counted DEF Counters
  <2>3. SumInv'
    <3>1. CASE Chunk.off = 0 BY <1>5, <1>8, <3>1 DEF SumInv, Coherent
    <3>2. CASE Chunk.off # 0 BY <1>2, <1>3, <1>5, <1>8, <2>1, <3>2 DEF SumInv
    <3> QED BY <3>1, <3>2
  <2>4. sft'.handle = IF Chunk.off = 0 THEN Chunk.file ELSE sft.handle BY <1>5, <1>8
  <2> QED BY <1>1, <1>3, <1>4, <1>5, <1>8, <2>1, <2>2, <2>3, <2>4, ChunkTaken
<1>9. CASE Opened(sft).handle = NoFile /\ sft' = sft /\ content' = content /\ used' = used
  <2>1. SumInv' BY <1>2, <1>6, <1>9 DEF SumInv
  <2>2. Chunk.file \in Files /\ NoFile \notin Files BY <1>1, <1>2, ChunkType, FilesAssumption
  <2>3. sft.handle = NoFile BY <1>5, <1>9, <2>2
  <2>4. Alone' => Alone BY <1>9 DEF Alone
  <2> QED BY <1>1, <1>3, <1>4, <1>9, <2>1, <2>3, <2>4, ChunkTaken
<1> QED BY <1>7, <1>8, <1>9 DEF ChunkFails

(* What is on the disk after the chunk was written.                          *)
LEMMA ContentWritten ==
  ASSUME Types, ChunkWritten, NEW h, h = Opened(sft).handle
  PROVE  /\ h \in Files /\ content' \in [Files -> Contents]
         /\ \A g \in Files : g # Chunk.file /\ g # h => content'[g] = content[g]
         /\ \A o \in Offsets : content'[h][o] = IF o = Chunk.off THEN <<Chunk.file, Chunk.rev>>
                                                ELSE IF Chunk.off = 0 THEN Hole ELSE content[h][o]
<1> DEFINE v == <<Chunk.file, Chunk.rev>>
           t == Truncated
           o_ == Chunk.off
           f_ == Chunk.file
<1>1. /\ Received("chunk") /\ h # NoFile /\ content' = [t EXCEPT ![h][o_] = v] BY DEF ChunkWritten
<1>2. /\ t \in [Files -> Contents] /\ (o_ # 0 => t = content) /\ (o_ = 0 => t[f_] = Blank)
      /\ \A g \in Files : g # f_ => t[g] = content[g]
  BY <1>1, TruncatedType
<1>3. v \in Files \X Revisions BY <1>1, ChunkType
<1>4. h \in Files /\ (o_ = 0 => h = f_)
  <2>1. Opened(sft) \in SftType /\ (o_ = 0 => h = f_) BY <1>1, OpenedFields
  <2> QED BY <1>1, <2>1 DEF SftType
<1> HIDE DEF v, t, o_, f_
<1>5. t[h] \in [Offsets -> {Hole} \cup (Files \X Revisions)] BY <1>2, <1>4 DEF Contents
<1>6. content' = [t EXCEPT ![h] = [t[h] EXCEPT ![o_] = v]] BY <1>1
<1>7. [t[h] EXCEPT ![o_] = v] \in Contents BY <1>3, <1>5 DEF Contents
<1>8. /\ content' \in [Files -> Contents] /\ content'[h] = [t[h] EXCEPT ![o_] = v]
      /\ \A g \in Files : g # h => content'[g] = t[g]
  BY <1>2, <1>4, <1>6, <1>7
<1>9. \A o \in Offsets : content'[h][o] = IF o = o_ THEN v ELSE t[h][o] BY <1>5, <1>8
<1>10. \A o \in Offsets : t[h][o] = IF o_ = 0 THEN Hole ELSE content[h][o] BY <1>2, <1>4 DEF Blank
<1> QED BY <1>2, <1>4, <1>8, <1>9, <1>10 DEF v, o_, f_

(* The checksum covers what is on the disk, if it may still come out right.  *)
LEMMA WrittenCoherent ==
  ASSUME Inv, ChunkWritten
  PROVE  Coherent(Written(sft).checksum, Written(sft).handle, content')
<1> DEFINE h == Opened(sft).handle
           b == Opened(sft).checksum
           a == Written(sft).checksum
           e == <<Chunk.file, Chunk.rev, Chunk.off>>
<1>1. Types /\ SumInv BY DEF Inv
<1>2. Received("chunk") /\ Expected /\ h # NoFile BY DEF ChunkWritten
<1>3. /\ Chunk.off # 0 => h = sft.handle /\ b = sft.checksum
      /\ Chunk.off = 0 => h = Chunk.file /\ b = <<>>
  BY <1>1, <1>2, OpenedFields
<1>4. Written(sft).handle = h /\ (b = NoSum => a = NoSum) /\ (b # NoSum => b \in Sums /\ a = Append(b, e))
  BY <1>1, <1>2, WrittenFields
<1>5. Chunk.off # 0 => Coherent(b, h, content)
  <2>1. Chunk.off # 0 => ~Fresh BY <1>2, AtChunk
  <2> QED BY <1>1, <1>3, <2>1 DEF SumInv
<1>6. h \in Files /\ \A o \in Offsets : content'[h][o] = IF o = Chunk.off THEN <<Chunk.file, Chunk.rev>>
                                                ELSE IF Chunk.off = 0 THEN Hole ELSE content[h][o]
  BY <1>1, ContentWritten
<1>7. Chunk.file \in Files /\ Chunk.rev \in Revisions /\ Chunk.off \in Nat BY <1>1, <1>2, ChunkType
<1> HIDE DEF h, b, a, e
<1>8. SUFFICES ASSUME a # NoSum, NEW f \in Files, NEW r \in Revisions, Prefix(a, f, r)
               PROVE  /\ h \in {f, NoFile}
                      /\ \A o \in Offsets : content'[f][o] = IF o < Len(a) THEN <<f, r>> ELSE Hole
  BY <1>4 DEF Coherent, a
<1>9. b \in Sums /\ a = Append(b, e) BY <1>4, <1>8
<1>10. e \in Files \X Revisions \X Nat BY <1>7 DEF e
<1>11. /\ Len(a) = Len(b) + 1 /\ Len(b) \in Nat /\ a[Len(b) + 1] = e
       /\ \A i \in 1 .. Len(b) : a[i] = b[i]
  BY <1>9, <1>10, Appended DEF Sums
<1>12. a[Len(b) + 1] = <<f, r, Len(b)>>
  <2>1. Len(b) + 1 \in 1 .. Len(a) BY <1>11
  <2>2. a[Len(b) + 1] = <<f, r, (Len(b) + 1) - 1>> BY <1>8, <2>1 DEF Prefix
  <2>3. (Len(b) + 1) - 1 = Len(b) BY <1>11
  <2> QED BY <2>2, <2>3
<1>13. Chunk.file = f /\ Chunk.rev = r /\ Chunk.off = Len(b) BY <1>11, <1>12 DEF e
<1>14. Prefix(b, f, r) BY <1>8, <1>11 DEF Prefix
<1>15. CASE Chunk.off = 0
  <2>1. h = f /\ Len(a) = 1 BY <1>3, <1>11, <1>13, <1>15
  <2>2. \A o \in Offsets : o < 1 <=> o = 0 BY DEF Offsets
  <2> QED BY <1>6, <1>13, <1>15, <2>1, <2>2
<1>16. CASE Chunk.off # 0
  <2>1. b # <<>> BY <1>13, <1>16
  <2>2. b # NoSum
    <3>1. SUFFICES ASSUME b = NoSum PROVE FALSE OBVIOUS
    <3>2. a = NoSum BY <1>4, <3>1 
    <3> QED BY <1>8, <3>2
  <2>3. /\ h \in {f, NoFile}
        /\ \A o \in Offsets : content[f][o] = IF o < Len(b) THEN <<f, r>> ELSE Hole
    BY <1>5, <1>14, <1>16, <2>1, <2>2 DEF Coherent
  <2>4. h = f BY <1>2, <2>3 DEF h
  <2>5. \A o \in Offsets : o < Len(a) <=> (o < Len(b) \/ o = Chunk.off) BY <1>11, <1>13 DEF Offsets
  <2> QED BY <1>6, <1>13, <1>16, <2>3, <2>4, <2>5
<1> QED BY <1>15, <1>16

(* What both actions that write a chunk have in common.                      *)
LEMMA AtWritten ==
  ASSUME Inv, ChunkWritten
  PROVE  /\ Received("chunk") /\ Expected /\ down' = Tail(down)
         /\ UNCHANGED <<recorded, mailbox, running, committed, trial, conn, target, known, url, tasks, fault>>
         /\ Written(sft) \in SftType /\ Written(sft).fua = sft.fua /\ Written(sft).order = sft.order
         /\ Written(sft).current = sft.current /\ Written(sft).firmware = sft.firmware
         /\ Written(sft).handle = IF Chunk.off = 0 THEN Chunk.file ELSE sft.handle
         /\ content' \in [Files -> Contents]
         /\ \A g \in Files : g # Chunk.file /\ (Chunk.off # 0 => g # sft.handle) => content'[g] = content[g]
<1>1. Types BY DEF Inv
<1>2. /\ Received("chunk") /\ Expected /\ down' = Tail(down)
      /\ UNCHANGED <<recorded, mailbox, running, committed, trial, conn, target, known, url, tasks, fault>>
  BY DEF ChunkWritten, booted, server, app
<1>3. /\ Written(sft) \in SftType /\ Written(sft).fua = sft.fua /\ Written(sft).order = sft.order
      /\ Written(sft).current = sft.current /\ Written(sft).firmware = sft.firmware
      /\ Written(sft).handle = Opened(sft).handle
  BY <1>1, <1>2, WrittenFields
<1>4. Opened(sft).handle = IF Chunk.off = 0 THEN Chunk.file ELSE sft.handle BY <1>1, <1>2, OpenedFields
<1>5. /\ content' \in [Files -> Contents]
      /\ \A g \in Files : g # Chunk.file /\ g # Opened(sft).handle => content'[g] = content[g]
  BY <1>1, ContentWritten
<1> QED BY <1>2, <1>3, <1>4, <1>5

LEMMA FileContinuesStep == Inv /\ FileContinues => Inv'
<1> SUFFICES ASSUME Inv, FileContinues PROVE Inv' OBVIOUS
<1>1. /\ ChunkWritten /\ sft' = Written(sft) /\ step' = step /\ used' = used
      /\ up' = Append(up, Request(Current, Chunk.off + 1))
  BY DEF FileContinues
<1>2. Types /\ SumInv /\ CurrentInv BY DEF Inv
<1>3. /\ Received("chunk") /\ Expected /\ down' = Tail(down)
      /\ UNCHANGED <<recorded, mailbox, running, committed, trial, conn, target, known, url, tasks, fault>>
      /\ sft' \in SftType /\ sft'.fua = sft.fua /\ sft'.order = sft.order
      /\ sft'.current = sft.current /\ sft'.firmware = sft.firmware
      /\ sft'.handle = IF Chunk.off = 0 THEN Chunk.file ELSE sft.handle
      /\ content' \in [Files -> Contents]
      /\ \A g \in Files : g # Chunk.file /\ (Chunk.off # 0 => g # sft.handle) => content'[g] = content[g]
  BY <1>1, AtWritten
<1>4. step = "idle" /\ sft.current # Null /\ Live(sft.current) BY <1>3, AtChunk
<1>5. \E q \in Asks : up' = Append(up, q)
  <2>1. Current.file \in Files /\ Current.rev \in Revisions BY <1>2, <1>4, CurrentType
  <2>2. Chunk.off + 1 \in Nat BY <1>2, <1>3, ChunkType
  <2>3. Request(Current, Chunk.off + 1) \in Asks BY <2>1, <2>2 DEF Request, Asks
  <2> QED BY <1>1, <2>3
<1>6. SumInv' BY <1>1, WrittenCoherent DEF SumInv
<1>7. used' \in Counts /\ (Alone' => Alone) BY <1>1, <1>2 DEF Types, Alone
<1> QED BY <1>1, <1>3, <1>4, <1>5, <1>6, <1>7, ChunkTaken

(* A checksum that comes out right means that the file is as it should be.   *)
LEMMA VerifiedIsIntact ==
  ASSUME Inv, ChunkWritten, Verified(Written(sft), Current)
  PROVE  content'[Current.file] = Whole(Current.file, Current.rev)
<1> DEFINE f == Current.file
           r == Current.rev
           a == Written(sft).checksum
<1>1. Types /\ CurrentInv BY DEF Inv
<1>2. Received("chunk") /\ Expected /\ content' \in [Files -> Contents] BY AtWritten
<1>3. sft.current # Null /\ Live(sft.current) BY <1>2, AtChunk
<1>4. f \in Files /\ r \in Revisions BY <1>1, <1>3, CurrentType
<1>5. a = Fingerprint(f, r) BY DEF Verified
<1>6. Coherent(a, Written(sft).handle, content') BY WrittenCoherent
<1> HIDE DEF f, r, a
<1>7. Size[f][r] \in Nat /\ Size[f][r] >= 1 BY <1>4, FilesAssumption
<1>8. a = [i \in 1 .. Size[f][r] |-> <<f, r, i - 1>>] BY <1>5 DEF Fingerprint
<1>9. Len(a) = Size[f][r] /\ \A i \in 1 .. Len(a) : a[i] = <<f, r, i - 1>> BY <1>7, <1>8
<1>10. a # <<>> BY <1>7, <1>9
<1>11. a # NoSum
  <2>1. a[1] = <<f, r, 1 - 1>> BY <1>7, <1>9
  <2>2. a[1] # <<>> BY <2>1
  <2>3. NoSum[1] = <<>> BY DEF NoSum
  <2> QED BY <2>2, <2>3
<1>12. \A o \in Offsets : content'[f][o] = IF o < Size[f][r] THEN <<f, r>> ELSE Hole
  BY <1>4, <1>6, <1>9, <1>10, <1>11 DEF Coherent, Prefix
<1>13. content'[f] \in Contents BY <1>2, <1>4
<1>14. content'[f] = [o \in Offsets |-> content'[f][o]] BY <1>13 DEF Contents
<1>15. content'[f] = Whole(f, r) BY <1>12, <1>14 DEF Whole
<1> QED BY <1>15 DEF f, r

LEMMA FileEndsStep == Inv /\ FileEnds => Inv'
<1> SUFFICES ASSUME Inv, FileEnds PROVE Inv' OBVIOUS
<1> DEFINE s == Written(sft)
           t == [s EXCEPT !.checksum = NoSum]
<1>1. /\ ChunkWritten /\ up' = up
      /\ \/ sft' = t /\ step' = step /\ used' = used
         \/ Budget("faults", MaxFaults) /\ sft' = [t EXCEPT !.handle = NoFile] /\ step' = step
         \/ /\ Verified(s, Current) /\ sft' = [t EXCEPT !.handle = NoFile]
            /\ step' = "record" /\ used' = used
  BY DEF FileEnds
<1>2. Types BY DEF Inv
<1>3. /\ Received("chunk") /\ Expected /\ down' = Tail(down)
      /\ UNCHANGED <<recorded, mailbox, running, committed, trial, conn, target, known, url, tasks, fault>>
      /\ s \in SftType /\ s.fua = sft.fua /\ s.order = sft.order
      /\ s.current = sft.current /\ s.firmware = sft.firmware
      /\ s.handle = IF Chunk.off = 0 THEN Chunk.file ELSE sft.handle
      /\ content' \in [Files -> Contents]
      /\ \A g \in Files : g # Chunk.file /\ (Chunk.off # 0 => g # sft.handle) => content'[g] = content[g]
  BY <1>1, AtWritten
<1>4. step = "idle" BY <1>3, AtChunk
<1>5. Verified(s, Current) => content'[Current.file] = Whole(Current.file, Current.rev)
  BY <1>1, VerifiedIsIntact
<1>6. used' \in Counts /\ (Alone' => Alone)
  <2>1. used \in Counts BY <1>2 DEF Types
  <2>2. CASE used' = used BY <2>1, <2>2 DEF Alone
  <2>3. CASE Budget("faults", MaxFaults) BY <2>1, <2>3, Counted DEF Counters
  <2> QED BY <1>1, <2>2, <2>3
<1> HIDE DEF s
<1>7. /\ t \in SftType /\ t.fua = s.fua /\ t.order = s.order /\ t.current = s.current
      /\ t.firmware = s.firmware /\ t.handle = s.handle /\ t.checksum = NoSum
  BY <1>3 DEF SftType
<1> HIDE DEF t
<1>8. /\ sft' \in SftType /\ sft'.fua = t.fua /\ sft'.order = t.order /\ sft'.current = t.current
      /\ sft'.firmware = t.firmware /\ sft'.checksum = NoSum
      /\ sft'.handle \in {NoFile, t.handle}
      /\ step' = "record" => sft'.handle = NoFile
  <2>1. (sft' = t /\ step' = step) \/ sft' = [t EXCEPT !.handle = NoFile] BY <1>1
  <2>2. CASE sft' = t /\ step' = step BY <1>4, <1>7, <2>2
  <2>3. CASE sft' = [t EXCEPT !.handle = NoFile] BY <1>7, <2>3 DEF SftType
  <2> QED BY <2>1, <2>2, <2>3
<1>9. SumInv' BY <1>8 DEF SumInv, Coherent
<1>10. step' \in {"idle", "record"} /\ (step' = "record" => Verified(s, Current)) BY <1>1, <1>4
<1>12. sft'.handle \in {NoFile, IF Chunk.off = 0 THEN Chunk.file ELSE sft.handle} BY <1>3, <1>7, <1>8
<1>13. /\ sft'.fua = sft.fua /\ sft'.order = sft.order /\ sft'.current = sft.current
       /\ sft'.firmware = sft.firmware
  BY <1>3, <1>7, <1>8
<1> QED BY <1>1, <1>3, <1>5, <1>6, <1>8, <1>9, <1>10, <1>12, <1>13, ChunkTaken

-----------------------------------------------------------------------------
(***************************************************************************)
(* A package, from the offer to its end.                                   *)
(***************************************************************************)
LEMMA FileUpdateAvailableStep == Inv /\ FileUpdateAvailable => Inv'
<1> SUFFICES ASSUME Inv, FileUpdateAvailable PROVE Inv' OBVIOUS
<1>1. Received("fua") BY DEF FileUpdateAvailable
<1>2. /\ Types /\ SessionInv /\ PackageInv /\ CurrentInv /\ SumInv /\ UrlInv /\ FirmwareInv
      /\ OfferInv /\ BehindInv /\ TrialInv /\ FaultInv /\ AloneInv /\ KnownInv
  BY DEF Inv
<1>3. step = "idle" /\ conn = "up" /\ down # <<>> BY <1>1 DEF Received, Idle
<1>4. /\ Head(down) = down[1] /\ Head(down).type = "fua"
      /\ Head(down).files \in Seq(Descs) /\ Tail(down) \in Seq(Fua \cup Chunks)
  BY <1>1, <1>2, FuaType
<1>5. PICK files \in Seq(Descs) : files = Head(down).files BY <1>4
<1>6. PICK id \in NewIds, p \in Permutations(Len(files)) :
        sft' = [sft EXCEPT !.fua = [id |-> id, files |-> files], !.order = p]
  BY <1>5 DEF FileUpdateAvailable
<1>7. /\ down' = Tail(down) /\ step' = Begin(files)
      /\ UNCHANGED <<content, recorded, mailbox, running, committed, trial, conn, target, known, up,
                     url, tasks, fault, used>>
  BY <1>5 DEF FileUpdateAvailable, disk, booted, server, app
<1>8. down \in Seq(Fua \cup Chunks) /\ sft \in SftType BY <1>2 DEF Types
<1>9. /\ down' \in Seq(Fua \cup Chunks) /\ Len(down') = Len(down) - 1 /\ Len(down) \in Nat /\ Len(down) >= 1
      /\ \A i \in 1 .. Len(down') : down'[i] = down[i + 1] /\ i + 1 \in 1 .. Len(down)
  BY <1>3, <1>7, <1>8, Shifted
<1>10. 1 \in 1 .. Len(down) /\ down[1].type = "fua" /\ down[1].files = files BY <1>4, <1>5, <1>9
<1>11. IsPackage(files) BY <1>2, <1>10 DEF PackageInv
<1>12. step' = "next" BY <1>7, <1>11 DEF IsPackage, Begin
<1>13. url = {} /\ tasks = <<>> /\ ~trial BY <1>2, <1>3 DEF UrlInv, NoOverlap, TrialInv
<1>14. /\ id \in {1, 2} /\ (sft.current # Null \/ sft.firmware # Null => id # sft.fua.id)
  BY DEF NewIds
<1>15. Len(files) \in Nat BY <1>5
<1>16. /\ p \in [1 .. Len(files) -> 1 .. Len(files)]
       /\ \A a, b \in 1 .. Len(files) : p[a] = p[b] => a = b
       /\ \A i \in 1 .. Len(files) : \E a \in 1 .. Len(files) : p[a] = i
  BY DEF Permutations, Bijection, Injection, IsInjective, Surjection
<1>17. p \in Seq(Nat) /\ Len(p) = Len(files) /\ \A j \in 1 .. Len(p) : p[j] \in 1 .. Len(files)
  <2>1. PICK n \in Nat : n = Len(files) BY <1>15
  <2>2. p \in [1 .. n -> 1 .. n] BY <1>16, <2>1
  <2>3. p \in [1 .. n -> Nat] BY <2>2
  <2>4. p \in Seq(Nat) /\ Len(p) = n BY <2>2, <2>3
  <2>5. \A j \in 1 .. Len(p) : p[j] \in 1 .. n BY <2>2, <2>4
  <2> QED BY <2>1, <2>4, <2>5
<1>18. /\ sft' \in SftType /\ sft'.fua = [id |-> id, files |-> files] /\ sft'.order = p
       /\ sft'.current = sft.current /\ sft'.firmware = sft.firmware
       /\ sft'.handle = sft.handle /\ sft'.checksum = sft.checksum
  <2>1. [id |-> id, files |-> files] \in [id: 0 .. 2, files: Seq(Descs)] BY <1>14
  <2>2. PICK u \in [id: 0 .. 2, files: Seq(Descs)] : u = [id |-> id, files |-> files] BY <2>1
  <2>3. sft' = [sft EXCEPT !.fua = u, !.order = p] BY <1>6, <2>2
  <2>4. /\ sft' \in SftType /\ sft'.fua = u /\ sft'.order = p
        /\ sft'.current = sft.current /\ sft'.firmware = sft.firmware
        /\ sft'.handle = sft.handle /\ sft'.checksum = sft.checksum
    BY <1>8, <1>17, <2>3 DEF SftType
  <2> QED BY <2>2, <2>4
<1>19. sft'.fua.id = id /\ sft'.fua.files = files BY <1>18
<1>20. sft'.fua # NoPackage BY <1>14, <1>19 DEF NoPackage
<1>21. \A i \in 1 .. Len(files) : Ordered(i)' BY <1>16, <1>17, <1>18 DEF Ordered
<1>22. \A i : ~Done(i)' BY <1>19, <1>21 DEF Done
<1>23. Types' BY <1>2, <1>7, <1>9, <1>12, <1>18 DEF Types, Steps
<1>24. SessionInv' BY <1>3, <1>7, <1>12, <1>20 DEF SessionInv
<1>25. PackageInv'
  <2>1. \A i \in 1 .. Len(down') : down'[i].type = "fua" => IsPackage(down[i].files)'
    BY <1>2, <1>7, <1>9 DEF PackageInv, IsPackage
  <2>2. IsPackage(sft.fua.files)' BY <1>7, <1>11, <1>19 DEF IsPackage
  <2>3. \A j \in 1 .. Len(p) : p[j] \in Nat /\ p[j] <= Len(files) /\ p[j] <= Cardinality(Files)
    <3>1. PICK c \in Nat : c = Cardinality(Files) BY CardinalityFacts
    <3>2. Len(files) <= c BY <1>11, <3>1 DEF IsPackage
    <3>3. \A j \in 1 .. Len(p) : p[j] \in Nat /\ p[j] <= Len(files) /\ p[j] <= c BY <1>15, <1>17, <3>2
    <3> QED BY <3>1, <3>3
  <2>4. \A j, k \in 1 .. Len(p) : p[j] = p[k] /\ p[j] # 0 => j = k BY <1>16, <1>17
  <2>5. sft'.fua.id # 0 BY <1>14, <1>19
  <2> QED BY <1>17, <1>18, <1>19, <1>20, <2>1, <2>2, <2>3, <2>4, <2>5 DEF PackageInv
<1>26. CurrentInv'
  <2>1. sft.current # Null => ~Live(sft.current)'
    <3>1. sft.current # Null => Live(sft.current) BY <1>2, <1>3 DEF CurrentInv
    <3> QED BY <1>14, <1>18, <1>19, <3>1 DEF Live
  <2>2. {sft'.current, sft'.firmware} \subseteq Pointers BY <1>2, <1>18 DEF CurrentInv
  <2> QED BY <1>12, <1>18, <1>20, <2>1, <2>2 DEF CurrentInv
<1>27. DoneInv' BY <1>22 DEF DoneInv
<1>28. HandleInv' BY <1>12, <1>22 DEF HandleInv
<1>29. SumInv'
  <2>1. Fresh => Fresh' BY <1>7, <1>9 DEF Fresh
  <2> QED BY <1>2, <1>7, <1>18, <2>1 DEF SumInv
<1>30. UrlInv' BY <1>7, <1>13 DEF UrlInv
<1>31. FirmwareInv' BY <1>2, <1>12, <1>18, <1>19, <1>21 DEF FirmwareInv
<1>32. OfferInv'
  <2>1. \A i \in 1 .. Len(down') : Offered(i)' <=> Offered(i + 1) BY <1>9 DEF Offered, HasFirmware
  <2>2. HasFirmware(sft.fua.files)' <=> Offered(1) BY <1>10, <1>19 DEF HasFirmware, Offered
  <2>3. ASSUME NEW i \in 1 .. Len(down'), NEW j \in 1 .. Len(down'), i < j, Offered(i)',
               down'[j].type = "fua"
        PROVE  Offered(j)'
    <3>1. Offered(i + 1) /\ down[j + 1].type = "fua" /\ i + 1 < j + 1 BY <1>9, <2>1, <2>3
    <3>2. Offered(j + 1) BY <1>2, <1>9, <3>1 DEF OfferInv
    <3> QED BY <2>1, <3>2
  <2>4. ASSUME Offered(1), NEW i \in 1 .. Len(down'), down'[i].type = "fua"
        PROVE  Offered(i)'
    <3>1. 1 < i + 1 /\ down[i + 1].type = "fua" BY <1>9, <2>4
    <3>2. Offered(i + 1) BY <1>2, <1>9, <1>10, <2>4, <3>1 DEF OfferInv
    <3> QED BY <2>1, <3>2
  <2>5. Offered(1) \/ (\E i \in 1 .. Len(down') : Offered(i)') =>
          \A f \in Firmware : known[f] # target[f]
    BY <1>2, <1>9, <1>10, <2>1 DEF OfferInv
  <2>6. sft.firmware # Null => Offered(1) BY <1>2, <1>10 DEF OfferInv
  <2> QED BY <1>7, <1>18, <2>2, <2>3, <2>4, <2>5, <2>6 DEF OfferInv
<1>33. BehindInv' /\ FaultInv' BY <1>2, <1>7 DEF BehindInv, FaultInv
<1>34. TrialInv' BY <1>2, <1>7, <1>12, <1>13 DEF TrialInv
<1>35. AloneInv'
  <2>1. SUFFICES ASSUME Alone PROVE AloneInv' BY <1>7 DEF AloneInv, Alone
  <2>2. Len(down) = 1 /\ up = <<>> /\ \A k \in 1 .. Len(files) : ToCome(files[k])
    BY <1>2, <1>10, <2>1 DEF AloneInv
  <2>3. Len(down') = 0 /\ Len(up') = 0 BY <1>7, <1>9, <2>2
  <2>4. Fresh' BY <2>3 DEF Fresh
  <2>5. \A i \in 1 .. Len(sft'.fua.files) : ToCome(sft.fua.files[i])' BY <1>7, <1>19, <2>2 DEF ToCome, Told
  <2>6. \A f \in Files \ Firmware : /\ known'[f] = target'[f] => Intact(f, target[f])'
                                    /\ recorded'[f] = target'[f] => Intact(f, target[f])'
    BY <1>2, <1>7, <2>1 DEF AloneInv, Intact
  <2> QED BY <2>3, <2>4, <2>5, <2>6 DEF AloneInv
<1>36. Alone' => Alone BY <1>7 DEF Alone
<1>37. /\ WireInv' /\ ReportInv' /\ \A f, r : Heard(f, r) => Heard(f, r)'
  <2>1. \A i \in 1 .. Len(up) : up[i].type # "info" BY <1>3, NoInfo
  <2> QED BY <1>7, <1>36, <2>1, ReportsKept
<1>38. KnownInv' BY <1>2, <1>7, <1>12, <1>36, <1>37, StillHeard
<1> QED BY <1>23, <1>24, <1>25, <1>26, <1>27, <1>28, <1>29, <1>30, <1>31, <1>32, <1>33, <1>34, <1>35,
           <1>37, <1>38 DEF Inv

(* Between two files.                                                        *)
LEMMA AtNext ==
  ASSUME Inv, step = "next"
  PROVE  /\ conn = "up" /\ url = {} /\ tasks = <<>> /\ ~trial
         /\ sft.fua # NoPackage /\ sft.fua.id \in {1, 2} /\ IsPackage(sft.fua.files)
         /\ sft.fua.files \in Seq(Descs) /\ sft.order \in Seq(Nat)
         /\ Len(sft.order) = Len(sft.fua.files)
         /\ \A j \in 1 .. Len(sft.order) : sft.order[j] <= Len(sft.fua.files)
         /\ \A j, k \in 1 .. Len(sft.order) : sft.order[j] = sft.order[k] /\ sft.order[j] # 0 => j = k
         /\ \A i \in 1 .. Len(sft.fua.files) : ~Ordered(i) => Done(i)
         /\ \A i \in 1 .. Len(up) : up[i].type # "info"
         /\ Alone => /\ \A i \in 1 .. Len(down) : down[i].type # "fua"
                     /\ sft.handle = NoFile \/ Fresh
<1>1. Types /\ SessionInv /\ PackageInv /\ UrlInv /\ TrialInv /\ AloneInv BY DEF Inv
<1>2. conn = "up" /\ sft.fua # NoPackage BY <1>1 DEF SessionInv
<1>3. url = {} /\ tasks = <<>> /\ ~trial BY <1>1, <1>2 DEF UrlInv, NoOverlap, TrialInv
<1>4. sft.fua.files \in Seq(Descs) /\ sft.order \in Seq(Nat) /\ sft.fua.id \in 0 .. 2
  BY <1>1, SftFields DEF Types
<1>5. /\ sft.fua.id # 0 /\ IsPackage(sft.fua.files) /\ Len(sft.order) = Len(sft.fua.files)
      /\ \A j \in 1 .. Len(sft.order) : sft.order[j] <= Len(sft.fua.files)
      /\ \A j, k \in 1 .. Len(sft.order) : sft.order[j] = sft.order[k] /\ sft.order[j] # 0 => j = k
  BY <1>1, <1>2 DEF PackageInv
<1>6. \A i \in 1 .. Len(sft.fua.files) : ~Ordered(i) => Done(i) BY DEF Done
<1>7. Alone => /\ \A i \in 1 .. Len(down) : down[i].type # "fua"
               /\ sft.handle = NoFile \/ Fresh
  BY <1>1 DEF AloneInv
<1>8. sft.fua.id \in {1, 2} BY <1>4, <1>5
<1>9. \A i \in 1 .. Len(up) : up[i].type # "info" BY NoInfo
<1> QED BY <1>2, <1>3, <1>4, <1>5, <1>6, <1>7, <1>8, <1>9

LEMMA NextFileStep == Inv /\ NextFile => Inv'
<1> SUFFICES ASSUME Inv, NextFile PROVE Inv' OBVIOUS
<1>1. /\ step = "next" /\ Waiting # {} /\ step' = "idle"
      /\ UNCHANGED <<content, recorded, mailbox, running, committed, trial, conn, target, known, down,
                     tasks, fault, used>>
  BY DEF NextFile, At, disk, booted, server
<1>2. /\ Types /\ SessionInv /\ PackageInv /\ CurrentInv /\ DoneInv /\ HandleInv /\ SumInv
      /\ FirmwareInv /\ OfferInv /\ BehindInv /\ TrialInv /\ FaultInv /\ AloneInv /\ KnownInv
  BY DEF Inv
<1>3. /\ conn = "up" /\ url = {} /\ tasks = <<>> /\ ~trial
      /\ sft.fua # NoPackage /\ sft.fua.id \in {1, 2} /\ IsPackage(sft.fua.files)
      /\ sft.fua.files \in Seq(Descs) /\ sft.order \in Seq(Nat)
      /\ Len(sft.order) = Len(sft.fua.files)
      /\ \A j \in 1 .. Len(sft.order) : sft.order[j] <= Len(sft.fua.files)
      /\ \A j, k \in 1 .. Len(sft.order) : sft.order[j] = sft.order[k] /\ sft.order[j] # 0 => j = k
      /\ \A i \in 1 .. Len(up) : up[i].type # "info"
      /\ Alone => /\ \A i \in 1 .. Len(down) : down[i].type # "fua"
                  /\ sft.handle = NoFile \/ Fresh
  BY <1>1, AtNext
<1>4. First \in 1 .. Len(sft.order) /\ sft.order[First] # 0 BY <1>1, <1>2, FirstWaits
<1>5. PICK x \in 1 .. Len(sft.order) : x = First BY <1>4
<1>6. PICK at \in Nat : at = sft.order[x] BY <1>3, <1>5
<1>7. at \in 1 .. Len(sft.fua.files) /\ at # 0 BY <1>3, <1>4, <1>5, <1>6
<1>8. PICK d \in Descs : d = sft.fua.files[at] BY <1>3, <1>7
<1>9. d.file \in Files /\ d.rev \in Revisions BY <1>8 DEF Descs
<1> DEFINE cur == [pkg |-> sft.fua.id, at |-> at]
           s == [sft EXCEPT !.current = cur, !.order = [sft.order EXCEPT ![x] = 0]]
<1>10. SelectNext(sft) = s
  <2>1. SelectNext(sft) = [sft EXCEPT !.current = cur, !.order[x] = 0] BY <1>5, <1>6 DEF SelectNext
  <2> QED BY <2>1
<1>11. sft \in SftType /\ up \in Seq(Ups) BY <1>2 DEF Types
<1>12. cur \in Ptr /\ cur # Null /\ cur \in Pointers
  <2>1. Len(sft.fua.files) <= Cardinality(Files) /\ Cardinality(Files) \in Nat
    BY <1>3, CardinalityFacts DEF IsPackage
  <2>2. at \in 1 .. Cardinality(Files) BY <1>3, <1>7, <2>1
  <2> QED BY <1>3, <1>7, <2>2 DEF Ptr, Null, Pointers
<1>13. [sft.order EXCEPT ![x] = 0] \in Seq(Nat) BY <1>3
<1> HIDE DEF cur
<1>14. /\ s \in SftType /\ s.fua = sft.fua /\ s.order = [sft.order EXCEPT ![x] = 0]
       /\ s.current = cur /\ s.firmware = sft.firmware
       /\ s.handle = sft.handle /\ s.checksum = sft.checksum
  BY <1>11, <1>12, <1>13 DEF SftType
<1> HIDE DEF s
<1>15. cur.pkg = sft.fua.id /\ cur.at = at /\ \A i : cur = [pkg |-> sft.fua.id, at |-> i] => i = at
  BY DEF cur
<1>16. s.fua.files[s.current.at] = d BY <1>8, <1>14, <1>15
<1>17. sft' = IF d.file \in Firmware THEN [s EXCEPT !.firmware = s.current] ELSE s
  BY <1>10, <1>16 DEF NextFile
<1>18. /\ sft' \in SftType /\ sft'.fua = sft.fua /\ sft'.order = [sft.order EXCEPT ![x] = 0]
       /\ sft'.current = cur /\ sft'.firmware = (IF d.file \in Firmware THEN cur ELSE sft.firmware)
       /\ sft'.handle = sft.handle /\ sft'.checksum = sft.checksum
  <2>1. CASE d.file \in Firmware
    <3>1. sft' = [s EXCEPT !.firmware = cur] BY <1>14, <1>17, <2>1
    <3> QED BY <1>12, <1>14, <2>1, <3>1 DEF SftType
  <2>2. CASE d.file \notin Firmware BY <1>14, <1>17, <2>2
  <2> QED BY <2>1, <2>2
<1>19. PICK started \in BOOLEAN :
         /\ started => NoOverlap
         /\ url' = IF started THEN url \cup {d} ELSE url
         /\ \/ up' = up
            \/ up' = Append(up, Request(d, 0)) /\ ~started
  <2>1. PICK started \in IF d.file \in Links /\ UrlHandler /\ NoOverlap THEN BOOLEAN ELSE {FALSE} :
          /\ url' = IF started THEN url \cup {d} ELSE url
          /\ up' = IF ~started /\ (d.file \notin Links \/ d.file \in MqttAlso)
                   THEN Append(up, Request(d, 0)) ELSE up
    BY <1>10, <1>16 DEF NextFile
  <2>2. started \in BOOLEAN /\ (started => NoOverlap) OBVIOUS
  <2> QED BY <2>1, <2>2
<1>20. Request(d, 0) \in Asks /\ Request(d, 0) \in Ups /\ Request(d, 0).off = 0
  BY <1>9 DEF Request, Asks, Ups
<1>41. Alone' => Alone BY <1>1 DEF Alone
<1>42. /\ up' \in Seq(Ups) /\ WireInv' /\ ReportInv' /\ \A f : Told(f)' <=> Told(f)
       /\ \A f, r : Heard(f, r) => Heard(f, r)'
  <2>1. up' = up \/ \E q \in Asks : up' = Append(up, q) BY <1>19, <1>20
  <2> QED BY <1>1, <1>3, <1>41, <2>1, ReportsKept
<1>21. Fresh => Fresh'
  <2>1. SUFFICES ASSUME Fresh PROVE Fresh' OBVIOUS
  <2>2. CASE up' = up BY <1>1, <2>1, <2>2 DEF Fresh
  <2>3. CASE up' = Append(up, Request(d, 0))
    <3>1. /\ Len(up') = Len(up) + 1 /\ Len(up) \in Nat /\ up'[Len(up) + 1] = Request(d, 0)
          /\ \A i \in 1 .. Len(up) : up'[i] = up[i]
      BY <1>11, <1>20, <2>3, Appended
    <3>2. \A i \in 1 .. Len(up') : i \in 1 .. Len(up) \/ i = Len(up) + 1 BY <3>1
    <3>3. \A i \in 1 .. Len(up') : up'[i].type = "get" => up'[i].off = 0
      BY <1>20, <2>1, <3>1, <3>2 DEF Fresh
    <3> QED BY <1>1, <2>1, <3>3 DEF Fresh
  <2> QED BY <1>19, <2>2, <2>3
<1>22. /\ Len(sft'.order) = Len(sft.order)
       /\ \A j \in 1 .. Len(sft.order) : sft'.order[j] = IF j = x THEN 0 ELSE sft.order[j]
  BY <1>3, <1>5, <1>18
<1>23. \A i \in 1 .. Len(sft.fua.files) : Ordered(i)' <=> (Ordered(i) /\ i # at)
  <2>1. ASSUME NEW i \in 1 .. Len(sft.fua.files), Ordered(i)' PROVE Ordered(i) /\ i # at
    <3>1. PICK j \in 1 .. Len(sft.order) : sft'.order[j] = i BY <1>22, <2>1 DEF Ordered
    <3>2. j # x /\ sft.order[j] = i BY <1>22, <2>1, <3>1
    <3>3. i # at BY <1>3, <1>6, <1>7, <3>2
    <3> QED BY <3>2, <3>3 DEF Ordered
  <2>2. ASSUME NEW i \in 1 .. Len(sft.fua.files), Ordered(i), i # at PROVE Ordered(i)'
    <3>1. PICK j \in 1 .. Len(sft.order) : sft.order[j] = i BY <2>2 DEF Ordered
    <3>2. j # x BY <1>6, <2>2, <3>1
    <3>3. sft'.order[j] = i BY <1>22, <3>1, <3>2
    <3> QED BY <1>22, <3>3 DEF Ordered
  <2> QED BY <2>1, <2>2
<1>24. Ordered(at) BY <1>5, <1>6 DEF Ordered
<1>25. \A i : Done(i)' => Done(i) /\ i # at
  <2>1. SUFFICES ASSUME NEW i, Done(i)' PROVE Done(i) /\ i # at OBVIOUS
  <2>2. i \in 1 .. Len(sft.fua.files) /\ ~Ordered(i)' BY <1>18, <2>1 DEF Done
  <2>3. i # at
    <3>1. SUFFICES ASSUME i = at PROVE FALSE OBVIOUS
    <3>2. sft'.current = [pkg |-> sft'.fua.id, at |-> i] BY <1>18, <3>1 DEF cur
    <3> QED BY <1>1, <2>1, <3>2 DEF Done
  <2>4. ~Ordered(i) BY <1>23, <2>2, <2>3
  <2> QED BY <1>1, <2>2, <2>3, <2>4 DEF Done
<1>26. Live(sft.current)' /\ Current' = d
  BY <1>3, <1>8, <1>15, <1>18 DEF Live, Current, Desc
<1>27. Types'
  <2>1. url' \subseteq Descs BY <1>3, <1>8, <1>19
  <2> QED BY <1>1, <1>2, <1>18, <1>42, <2>1 DEF Types, Steps
<1>28. SessionInv' BY <1>1, <1>3 DEF SessionInv
<1>29. PackageInv'
  <2>1. \A i \in 1 .. Len(down') : down'[i].type = "fua" => IsPackage(down[i].files)'
    BY <1>1, <1>2 DEF PackageInv, IsPackage
  <2>2. IsPackage(sft.fua.files)' BY <1>1, <1>3, <1>18 DEF IsPackage
  <2>3. \A j \in 1 .. Len(sft'.order) : /\ sft'.order[j] <= Len(sft'.fua.files)
                                        /\ sft'.order[j] <= Cardinality(Files)
    <3>1. \A j \in 1 .. Len(sft.order) : /\ sft.order[j] <= Len(sft.fua.files)
                                         /\ sft.order[j] <= Cardinality(Files)
      BY <1>2, <1>3 DEF PackageInv
    <3>2. 0 <= Len(sft.fua.files) /\ 0 <= Cardinality(Files) BY <1>3, CardinalityFacts
    <3> QED BY <1>18, <1>22, <3>1, <3>2
  <2>4. \A j, k \in 1 .. Len(sft'.order) : sft'.order[j] = sft'.order[k] /\ sft'.order[j] # 0 => j = k
    BY <1>3, <1>22
  <2>5. sft'.fua # NoPackage /\ sft'.fua.id # 0 BY <1>3, <1>18
  <2>6. Len(sft'.order) = Len(sft'.fua.files) BY <1>3, <1>18, <1>22
  <2> QED BY <2>1, <2>2, <2>3, <2>4, <2>5, <2>6 DEF PackageInv
<1>30. CurrentInv'
  <2>1. sft'.current.at \in 1 .. Len(sft'.fua.files) /\ ~Ordered(sft.current.at)'
    <3>1. ~Ordered(at)' BY <1>7, <1>23
    <3> QED BY <1>7, <1>15, <1>18, <3>1 DEF Ordered
  <2>2. {sft'.current, sft'.firmware} \subseteq Pointers BY <1>2, <1>12, <1>18 DEF CurrentInv
  <2> QED BY <1>1, <1>3, <1>18, <1>26, <2>1, <2>2 DEF CurrentInv
<1>31. DoneInv' BY <1>1, <1>2, <1>3, <1>18, <1>25 DEF DoneInv, Intact
<1>32. HandleInv' BY <1>1, <1>2, <1>18, <1>21, <1>25 DEF HandleInv
<1>33. SumInv' BY <1>1, <1>2, <1>18, <1>21 DEF SumInv
<1>34. UrlInv'
  <2>1. SUFFICES ASSUME url' # {} PROVE UrlInv' BY <1>1, <1>3 DEF UrlInv
  <2>2. started BY <1>3, <1>19, <2>1
  <2>3. url' = {d} /\ NoOverlap /\ up' = up BY <1>3, <1>19, <2>2
  <2>4. NoOverlap' BY <1>1, <2>3 DEF NoOverlap, OnTheWay
  <2> QED BY <1>1, <1>3, <1>12, <1>18, <1>26, <2>3, <2>4 DEF UrlInv
<1>35. FirmwareInv'
  <2>1. Firmware = {} => sft'.firmware = Null BY <1>2, <1>18 DEF FirmwareInv
  <2>2. ASSUME NEW i \in 1 .. Len(sft.fua.files), sft.fua.files[i].file \in Firmware, ~Ordered(i)'
        PROVE  /\ sft'.firmware = [pkg |-> sft.fua.id, at |-> i]
               /\ Done(i)' => mailbox = sft.fua.files[i]
    <3>1. CASE i = at
      <4>1. sft'.firmware = cur BY <1>8, <1>18, <2>2, <3>1
      <4> QED BY <1>25, <3>1, <4>1 DEF cur
    <3>2. CASE i # at
      <4>1. ~Ordered(i) BY <1>23, <2>2, <3>2
      <4>2. /\ sft.firmware = [pkg |-> sft.fua.id, at |-> i]
            /\ Done(i) => mailbox = sft.fua.files[i]
        BY <1>2, <2>2, <4>1 DEF FirmwareInv
      <4>3. d.file \notin Firmware
        <5>1. SUFFICES ASSUME d.file \in Firmware PROVE FALSE OBVIOUS
        <5>2. sft.fua.files[i].file = sft.fua.files[at].file BY <1>8, <2>2, <5>1, FilesAssumption
        <5> QED BY <1>3, <1>7, <3>2, <5>2 DEF IsPackage, Distinct
      <4> QED BY <1>18, <1>25, <4>2, <4>3
    <3> QED BY <3>1, <3>2
  <2> QED BY <1>1, <1>18, <2>1, <2>2 DEF FirmwareInv
<1>36. OfferInv'
  <2>1. \A i : Offered(i)' <=> Offered(i) BY <1>1 DEF Offered, HasFirmware
  <2>2. HasFirmware(sft.fua.files)' <=> HasFirmware(sft.fua.files) BY <1>18 DEF HasFirmware
  <2>3. sft'.firmware # Null => HasFirmware(sft.fua.files)
    <3>1. CASE d.file \in Firmware BY <1>7, <1>8, <3>1 DEF HasFirmware
    <3>2. CASE d.file \notin Firmware BY <1>2, <1>18, <3>2 DEF OfferInv
    <3> QED BY <3>1, <3>2
  <2> QED BY <1>1, <1>2, <2>1, <2>2, <2>3 DEF OfferInv
<1>37. BehindInv' /\ FaultInv' BY <1>1, <1>2 DEF BehindInv, FaultInv
<1>38. TrialInv' BY <1>1, <1>2, <1>3 DEF TrialInv
<1>39. AloneInv'
  <2>1. SUFFICES ASSUME Alone PROVE AloneInv' BY <1>1, <1>41 DEF AloneInv
  <2>2. ASSUME NEW i \in 1 .. Len(sft.fua.files), Pending(i)' PROVE ToCome(sft.fua.files[i])'
    <3>1. Ordered(i)
      <4>1. CASE Ordered(i)' BY <1>23, <4>1
      <4>2. CASE sft'.current = [pkg |-> sft'.fua.id, at |-> i]
        <5>1. i = at BY <1>15, <1>18, <4>2
        <5> QED BY <1>24, <5>1
      <4> QED BY <2>2, <4>1, <4>2 DEF Pending
    <3>2. ToCome(sft.fua.files[i]) BY <1>2, <1>3, <2>1, <3>1 DEF AloneInv, Pending
    <3> QED BY <1>1, <1>18, <1>42, <3>2 DEF ToCome
  <2>3. sft'.handle = NoFile \/ Fresh' BY <1>3, <1>18, <1>21, <2>1
  <2>4. \A f \in Files \ Firmware : /\ known'[f] = target'[f] => Intact(f, target[f])'
                                    /\ recorded'[f] = target'[f] => Intact(f, target[f])'
    BY <1>1, <1>2, <2>1 DEF AloneInv, Intact
  <2>5. \A i \in 1 .. Len(down') : down'[i].type # "fua" BY <1>1, <1>3, <2>1
  <2> QED BY <1>18, <2>2, <2>3, <2>4, <2>5 DEF AloneInv
<1>40. KnownInv' BY <1>1, <1>2, <1>41, <1>42, StillHeard
<1> QED BY <1>27, <1>28, <1>29, <1>30, <1>31, <1>32, <1>33, <1>34, <1>35, <1>36, <1>37, <1>38, <1>39,
           <1>40, <1>42 DEF Inv

(* All files of the package are there, and the firmware is the package's.    *)
LEMMA AtEnd ==
  ASSUME Inv, step = "next", Waiting = {}
  PROVE  /\ \A i \in 1 .. Len(sft.fua.files) :
              ~Ordered(i) /\ Intact(sft.fua.files[i].file, sft.fua.files[i].rev)
         /\ sft.firmware # Null =>
              /\ Live(sft.firmware) /\ Desc(sft.firmware) \in Descs
              /\ Desc(sft.firmware).file \in Firmware /\ Desc(sft.firmware).rev \in Revisions
              /\ Desc(sft.firmware).rev <= target[Desc(sft.firmware).file]
              /\ Intact(Desc(sft.firmware).file, Desc(sft.firmware).rev)
              /\ mailbox = Desc(sft.firmware)
<1>1. Types /\ DoneInv /\ FirmwareInv /\ OfferInv BY DEF Inv
<1>2. /\ sft.fua # NoPackage /\ sft.order \in Seq(Nat) /\ sft.fua.files \in Seq(Descs)
      /\ \A i \in 1 .. Len(sft.fua.files) : ~Ordered(i) => Done(i)
      /\ IsPackage(sft.fua.files)
  BY AtNext
<1>3. \A i \in 1 .. Len(sft.fua.files) : ~Ordered(i)
  <2>1. SUFFICES ASSUME NEW i \in 1 .. Len(sft.fua.files), Ordered(i) PROVE FALSE OBVIOUS
  <2>2. PICK j \in 1 .. Len(sft.order) : sft.order[j] = i BY <2>1 DEF Ordered
  <2>3. i # 0 OBVIOUS
  <2>4. j \in Waiting BY <2>2, <2>3 DEF Waiting
  <2> QED BY <2>4
<1>4. \A i \in 1 .. Len(sft.fua.files) : Intact(sft.fua.files[i].file, sft.fua.files[i].rev)
  BY <1>1, <1>2, <1>3 DEF DoneInv
<1>5. ASSUME sft.firmware # Null
      PROVE  /\ Live(sft.firmware) /\ Desc(sft.firmware) \in Descs
             /\ Desc(sft.firmware).file \in Firmware /\ Desc(sft.firmware).rev \in Revisions
             /\ Desc(sft.firmware).rev <= target[Desc(sft.firmware).file]
             /\ Intact(Desc(sft.firmware).file, Desc(sft.firmware).rev)
             /\ mailbox = Desc(sft.firmware)
  <2>1. HasFirmware(sft.fua.files) BY <1>1, <1>5 DEF OfferInv
  <2>2. PICK i \in 1 .. Len(sft.fua.files) : sft.fua.files[i].file \in Firmware BY <2>1 DEF HasFirmware
  <2>3. sft.firmware = [pkg |-> sft.fua.id, at |-> i] /\ mailbox = sft.fua.files[i]
    BY <1>1, <1>2, <1>3, <2>2 DEF FirmwareInv
  <2>4. Live(sft.firmware) /\ Desc(sft.firmware) = sft.fua.files[i] BY <1>2, <2>3 DEF Live, Desc
  <2>5. sft.fua.files[i] \in Descs /\ sft.fua.files[i].rev <= target[sft.fua.files[i].file]
    BY <1>2 DEF IsPackage
  <2>6. sft.fua.files[i].rev \in Revisions BY <2>5 DEF Descs
  <2> QED BY <1>4, <2>2, <2>3, <2>4, <2>5, <2>6
<1> QED BY <1>3, <1>4, <1>5

LEMMA PackageFinishedStep == Platform /\ Inv /\ PackageFinished => Inv'
<1> SUFFICES ASSUME Platform, Inv, PackageFinished PROVE Inv' OBVIOUS
<1> DEFINE d == Desc(sft.firmware)
<1>1. /\ step = "next" /\ Waiting = {}
      /\ UNCHANGED <<content, recorded, mailbox, target, used>>
  BY DEF PackageFinished, At, disk
<1>2. /\ Types /\ SessionInv /\ PackageInv /\ SumInv /\ FirmwareInv /\ OfferInv /\ BehindInv /\ TrialInv
      /\ FaultInv /\ AloneInv /\ KnownInv /\ CurrentInv
  BY DEF Inv
<1>3. sft.firmware # Null =>
        /\ Live(sft.firmware) /\ d \in Descs
        /\ d.file \in Firmware /\ d.rev \in Revisions /\ d.rev <= target[d.file]
        /\ Intact(d.file, d.rev) /\ mailbox = d
  BY <1>1, AtEnd
<1>4. fault' = fault /\ (Alone' => Alone) BY <1>1, <1>3 DEF PackageFinished, Alone
<1>5. Firmware \subseteq Files /\ NoFile \notin Files BY FilesAssumption
<1>6. known \in [Files -> Revisions \cup {NoRevision}] BY <1>2 DEF Types
<1>7. CASE Reboots
  <2>1. /\ conn' = "down" /\ step' = "idle" /\ sft' = NoContext
        /\ down' = <<>> /\ up' = <<>> /\ url' = {} /\ tasks' = <<>>
        /\ committed' = committed
        /\ running' = (IF sft.firmware = Null THEN running ELSE Image(d.file))
        /\ trial' = (sft.firmware # Null)
        /\ known' = known \/ (sft.firmware # Null /\ known' = [known EXCEPT ![d.file] = d.rev])
    BY <1>3, <1>7 DEF PackageFinished, LoseMemory
  <2>2. sft.firmware # Null => running' = d.rev
    <3>1. SUFFICES ASSUME sft.firmware # Null PROVE Image(d.file) = d.rev BY <2>1
    <3>2. d.file \in Files /\ d.rev \in Revisions /\ Intact(d.file, d.rev) BY <1>3, <1>5, <3>1
    <3> QED BY <3>2, ImageFound
  <2> HIDE DEF d
  <2>3. /\ known' \in [Files -> Revisions \cup {NoRevision}]
        /\ \A f \in Files \ Firmware : known'[f] = known[f]
        /\ \A f \in Files : known'[f] <= target[f]
    <3>1. CASE known' = known BY <1>2, <1>6, <3>1 DEF BehindInv
    <3>2. CASE sft.firmware # Null /\ known' = [known EXCEPT ![d.file] = d.rev]
      <4>1. d.file \in Firmware /\ d.rev \in Revisions /\ d.rev <= target[d.file] BY <1>3, <3>2
      <4> QED BY <1>2, <1>5, <1>6, <3>2, <4>1 DEF BehindInv
    <3> QED BY <2>1, <3>1, <3>2
  <2>4. /\ SessionInv' /\ PackageInv' /\ CurrentInv' /\ DoneInv' /\ HandleInv' /\ SumInv'
        /\ UrlInv' /\ FirmwareInv' /\ OfferInv' /\ FaultInv' /\ sft' \in SftType
        /\ WireInv' /\ ReportInv'
    BY <1>2, <1>4, <2>1, Cleared
  <2>5. Types'
    <3>1. /\ down' \in Seq(Fua \cup Chunks) /\ up' \in Seq(Ups) /\ url' \subseteq Descs
          /\ tasks' \in Seq([file: Files, ok: BOOLEAN])
      BY <2>1
    <3>2. running \in Revisions /\ committed \in Revisions BY <1>2 DEF Types
    <3>3. running' \in Revisions BY <1>3, <2>1, <2>2, <3>2
    <3>4. trial' \in BOOLEAN BY <2>1
    <3>5. /\ content' \in [Files -> Contents] /\ recorded' \in [Files -> Revisions \cup {NoRevision}]
          /\ mailbox' \in Descs \cup {NoMail} /\ target' \in [Files -> Revisions] /\ used' \in Counts
      BY <1>1, <1>2 DEF Types
    <3>6. conn' \in {"down", "subscribing", "up"} /\ step' \in Steps BY <2>1 DEF Steps
    <3> QED BY <2>1, <2>3, <2>4, <3>1, <3>2, <3>3, <3>4, <3>5, <3>6 DEF Types
  <2>6. BehindInv' BY <1>1, <1>2, <2>3 DEF BehindInv
  <2>7. TrialInv'
    <3>1. trial' => mailbox # NoMail /\ mailbox.file \in Firmware /\ mailbox.rev = running'
      <4>1. SUFFICES ASSUME sft.firmware # Null
                     PROVE mailbox # NoMail /\ mailbox.file \in Firmware /\ mailbox.rev = running'
        BY <2>1
      <4>2. mailbox = d /\ d.file \in Firmware /\ running' = d.rev BY <1>3, <2>2, <4>1
      <4>3. NoMail.file = NoFile BY DEF NoMail
      <4> QED BY <1>5, <4>2, <4>3
    <3> QED BY <1>1, <1>7, <2>1, <3>1 DEF TrialInv
  <2>8. AloneInv' BY <1>1, <1>2, <1>4, <2>1, <2>3, ClearedAlone
  <2>9. KnownInv' BY <2>1 DEF KnownInv
  <2> QED BY <2>4, <2>5, <2>6, <2>7, <2>8, <2>9 DEF Inv
<1>8. CASE ~Reboots
  <2>1. Firmware = {} BY <1>8 DEF Platform
  <2>2. sft.firmware = Null BY <1>2, <2>1 DEF FirmwareInv
  <2>3. /\ step' = "idle" /\ sft' = [sft EXCEPT !.fua = NoPackage, !.current = Null]
        /\ known' = known
        /\ UNCHANGED <<running, committed, trial, conn, down, up, url, tasks>>
    BY <1>8, <2>2 DEF PackageFinished, booted, app
  <2>4. /\ conn = "up" /\ url = {} /\ tasks = <<>> /\ ~trial /\ sft.order \in Seq(Nat)
        /\ \A i \in 1 .. Len(up) : up[i].type # "info"
        /\ Alone => /\ \A i \in 1 .. Len(down) : down[i].type # "fua"
                    /\ sft.handle = NoFile \/ Fresh
    BY <1>1, AtNext
  <2>5. sft \in SftType BY <1>2 DEF Types
  <2>6. NoPackage \in [id: 0 .. 2, files: Seq(Descs)] /\ Null \in Ptr /\ NoPackage.id = 0 /\ NoPackage.files = <<>>
    BY DEF NoPackage, Null, Ptr
  <2>7. /\ sft' \in SftType /\ sft'.fua = NoPackage /\ sft'.order = sft.order
        /\ sft'.current = Null /\ sft'.firmware = Null
        /\ sft'.handle = sft.handle /\ sft'.checksum = sft.checksum
    BY <2>2, <2>3, <2>5, <2>6 DEF SftType
  <2>8. sft'.fua.id = 0 /\ Len(sft'.fua.files) = 0 BY <2>6, <2>7
  <2>9. Types' BY <1>1, <1>2, <1>4, <2>3, <2>7 DEF Types, Steps
  <2>10. SessionInv' BY <2>3, <2>4 DEF SessionInv
  <2>11. PackageInv'
    <3>1. \A i \in 1 .. Len(down') : down'[i].type = "fua" => IsPackage(down[i].files)'
      BY <1>1, <1>2, <2>3 DEF PackageInv, IsPackage
    <3> QED BY <1>2, <2>7, <2>8, <3>1 DEF PackageInv
  <2>12. CurrentInv' BY <2>3, <2>7 DEF CurrentInv, Pointers
  <2>13. DoneInv' BY <2>7 DEF DoneInv
  <2>14. HandleInv' BY <2>3, <2>8 DEF HandleInv
  <2>15. SumInv' BY <1>1, <1>2, <2>3, <2>7 DEF SumInv, Fresh
  <2>16. UrlInv' BY <2>3, <2>4 DEF UrlInv
  <2>17. FirmwareInv' BY <2>3, <2>7, <2>8 DEF FirmwareInv
  <2>18. OfferInv' BY <2>1, <2>7 DEF OfferInv, Offered, HasFirmware
  <2>19. BehindInv' /\ FaultInv' BY <1>1, <1>2, <1>4, <2>3 DEF BehindInv, FaultInv
  <2>20. TrialInv' BY <2>3, <2>4 DEF TrialInv
  <2>21. AloneInv'
    <3>1. SUFFICES ASSUME Alone PROVE AloneInv' BY <1>4 DEF AloneInv
    <3>2. sft'.handle = NoFile \/ Fresh' BY <2>3, <2>4, <2>7, <3>1 DEF Fresh
    <3>3. \A f \in Files \ Firmware : /\ known'[f] = target'[f] => Intact(f, target[f])'
                                      /\ recorded'[f] = target'[f] => Intact(f, target[f])'
      BY <1>1, <1>2, <2>3, <3>1 DEF AloneInv, Intact
    <3> QED BY <2>3, <2>4, <2>7, <3>1, <3>2, <3>3 DEF AloneInv
  <2>22. /\ WireInv' /\ ReportInv' /\ \A f, r : Heard(f, r) => Heard(f, r)'
    BY <1>1, <1>4, <2>3, <2>4, ReportsKept
  <2>23. KnownInv' BY <1>1, <1>2, <1>4, <2>3, <2>22, StillHeard
  <2> QED BY <2>9, <2>10, <2>11, <2>12, <2>13, <2>14, <2>15, <2>16, <2>17, <2>18, <2>19, <2>20, <2>21,
             <2>22, <2>23 DEF Inv
<1> QED BY <1>7, <1>8

-----------------------------------------------------------------------------
(***************************************************************************)
(* Downloads by the application.                                           *)
(***************************************************************************)
LEMMA AtUrl ==
  ASSUME Inv, url # {} \/ tasks # <<>>
  PROVE  /\ step = "idle" /\ conn = "up" /\ NoOverlap /\ ~trial
         /\ \A i \in 1 .. Len(up) : up[i].type \notin {"get", "info"}
         /\ sft.current # Null /\ Live(sft.current) /\ sft.fua # NoPackage
         /\ sft.current.at \in 1 .. Len(sft.fua.files) /\ ~Ordered(sft.current.at)
         /\ sft.current = [pkg |-> sft.fua.id, at |-> sft.current.at]
         /\ Current = sft.fua.files[sft.current.at] /\ Current.file \in Files
         /\ Current.rev \in Revisions /\ Current.rev <= target[Current.file]
         /\ \A i \in 1 .. Len(sft.fua.files) : Done(i) => sft.fua.files[i].file # Current.file
         /\ Alone => ToCome(Current)
         /\ \A f \in Files \ Firmware : Alone /\ (known[f] = target[f] \/ recorded[f] = target[f]) =>
              f # Current.file
<1>1. Types /\ SessionInv /\ PackageInv /\ CurrentInv /\ UrlInv /\ TrialInv /\ AloneInv BY DEF Inv
<1>2. NoOverlap /\ step = "idle" /\ sft.current # Null BY <1>1 DEF UrlInv
<1>3. conn = "up" BY <1>1 DEF SessionInv
<1>4. ~trial BY <1>1, <1>3 DEF TrialInv
<1>5. Live(sft.current) BY <1>1, <1>2 DEF CurrentInv
<1>6. /\ sft.current.at \in 1 .. Len(sft.fua.files) /\ ~Ordered(sft.current.at)
      /\ Current = sft.fua.files[sft.current.at] /\ Current.rev \in Revisions /\ Current.file \in Files
      /\ sft.fua # NoPackage /\ sft.current = [pkg |-> sft.fua.id, at |-> sft.current.at]
  BY <1>1, <1>2, <1>5, CurrentType
<1>7. IsPackage(sft.fua.files) BY <1>1, <1>6 DEF PackageInv
<1>8. Current.rev <= target[Current.file] BY <1>6, <1>7 DEF IsPackage
<1>9. ~Done(sft.current.at) BY <1>2, <1>6 DEF Done
<1>10. \A i \in 1 .. Len(sft.fua.files) : Done(i) => sft.fua.files[i].file # Current.file
  BY <1>6, <1>7, <1>9 DEF IsPackage, Distinct
<1>11. ASSUME Alone PROVE ToCome(Current)
  <2>1. Pending(sft.current.at) BY <1>2, <1>6 DEF Pending
  <2> QED BY <1>1, <1>6, <1>11, <2>1 DEF AloneInv
<1>12. ASSUME NEW f \in Files \ Firmware, Alone, known[f] = target[f] \/ recorded[f] = target[f],
              f = Current.file
       PROVE  FALSE
  <2>2. ToCome(Current) BY <1>11, <1>12
  <2>3. known[f] < Current.rev /\ recorded[f] < Current.rev BY <1>12, <2>2 DEF ToCome
  <2>4. /\ known \in [Files -> Revisions \cup {NoRevision}] /\ target \in [Files -> Revisions]
        /\ recorded \in [Files -> Revisions \cup {NoRevision}]
    BY <1>1 DEF Types
  <2>5. known[f] \in Nat /\ recorded[f] \in Nat /\ target[f] \in Nat /\ Current.rev \in Nat
    BY <1>6, <2>4, RevisionNumbers
  <2> QED BY <1>8, <1>12, <2>3, <2>5
<1>13. \A i \in 1 .. Len(up) : up[i].type \notin {"get", "info"}
  <2>1. \A i \in 1 .. Len(up) : up[i].type # "info" BY <1>6, NoInfo
  <2>2. \A i \in 1 .. Len(up) : up[i].type # "get" BY <1>2 DEF NoOverlap, OnTheWay
  <2> QED BY <2>1, <2>2
<1> QED BY <1>2, <1>3, <1>4, <1>5, <1>6, <1>8, <1>10, <1>11, <1>12, <1>13

LEMMA UrlDoneStep == ASSUME NEW d, NEW ok \in BOOLEAN PROVE Inv /\ UrlDone(d, ok) => Inv'
<1> SUFFICES ASSUME Inv, UrlDone(d, ok) PROVE Inv' OBVIOUS
<1> DEFINE v == IF ok THEN Whole(d.file, d.rev) ELSE Blank
           m == [file |-> d.file, ok |-> ok]
<1>1. /\ d \in url /\ url' = url \ {d} /\ tasks' = Append(tasks, m) /\ content' = [content EXCEPT ![d.file] = v]
      /\ UNCHANGED <<recorded, mailbox, running, committed, trial, conn, step, sft, target, known, down,
                     up, fault, used>>
  BY DEF UrlDone, booted, session, server, wire
<1>2. /\ Types /\ SessionInv /\ PackageInv /\ CurrentInv /\ DoneInv /\ UrlInv /\ FirmwareInv
      /\ OfferInv /\ BehindInv /\ TrialInv /\ FaultInv /\ WireInv /\ AloneInv /\ KnownInv
  BY DEF Inv
<1>3. /\ step = "idle" /\ conn = "up" /\ NoOverlap
      /\ \A i \in 1 .. Len(up) : up[i].type \notin {"get", "info"}
      /\ sft.current # Null /\ Live(sft.current) /\ sft.fua # NoPackage
      /\ Current.file \in Files /\ Current.rev \in Revisions
      /\ \A i \in 1 .. Len(sft.fua.files) : Done(i) => sft.fua.files[i].file # Current.file
      /\ Alone => ToCome(Current)
      /\ \A f \in Files \ Firmware : Alone /\ (known[f] = target[f] \/ recorded[f] = target[f]) =>
           f # Current.file
  BY <1>1, AtUrl
<1>4. url = {Current} /\ tasks = <<>> BY <1>1, <1>2 DEF UrlInv
<1>5. d = Current BY <1>1, <1>4
<1>6. url' = {} /\ tasks' = <<m>> BY <1>1, <1>4, <1>5
<1>7. content \in [Files -> Contents] BY <1>2 DEF Types
<1>8. v \in Contents BY <1>3, <1>5, WholeType
<1>9. m \in [file: Files, ok: BOOLEAN] BY <1>3, <1>5
<1> HIDE DEF v, m
<1>10. /\ content' \in [Files -> Contents] /\ content'[Current.file] = v
       /\ \A g \in Files : g # Current.file => content'[g] = content[g]
  BY <1>1, <1>3, <1>5, <1>7, <1>8
<1>11. Types'
  <2>1. tasks' \in Seq([file: Files, ok: BOOLEAN]) /\ url' \subseteq Descs BY <1>6, <1>9
  <2> QED BY <1>1, <1>2, <1>10, <2>1 DEF Types
<1>12. Fresh'
  <2>1. Len(down) = 0 BY <1>3 DEF NoOverlap
  <2> QED BY <1>1, <1>3, <2>1 DEF Fresh
<1>13. \A i : Ordered(i)' <=> Ordered(i) BY <1>1 DEF Ordered
<1>14. \A i : Done(i)' <=> Done(i) BY <1>1, <1>13 DEF Done
<1>15. Live(sft.current)' /\ Current' = Current BY <1>1, <1>3 DEF Live, Current, Desc
<1>16. SessionInv' BY <1>1, <1>2, <1>3 DEF SessionInv
<1>17. PackageInv' BY <1>1, <1>2 DEF PackageInv, IsPackage
<1>18. CurrentInv' BY <1>1, <1>2, <1>3, <1>13, <1>15 DEF CurrentInv
<1>19. DoneInv'
  <2>1. SUFFICES ASSUME NEW i \in 1 .. Len(sft.fua.files), Done(i)
                 PROVE  content'[sft.fua.files[i].file] = content[sft.fua.files[i].file]
    BY <1>1, <1>2, <1>3, <1>14 DEF DoneInv, Intact
  <2>2. sft.fua.files \in Seq(Descs) BY <1>2, SftFields DEF Types
  <2>3. sft.fua.files[i].file \in Files
    <3>1. sft.fua.files[i] \in Descs BY <2>2
    <3> QED BY <3>1 DEF Descs
  <2> QED BY <1>3, <1>10, <2>1, <2>3
<1>20. HandleInv' /\ SumInv' BY <1>12 DEF HandleInv, SumInv
<1>21. UrlInv'
  <2>1. tasks' = <<[file |-> Current'.file, ok |-> ok]>> BY <1>5, <1>6, <1>15 DEF m
  <2>2. ok => Intact(Current.file, Current.rev)' BY <1>5, <1>10, <1>15 DEF Intact, v
  <2>3. \E k \in BOOLEAN : /\ tasks' = <<[file |-> Current'.file, ok |-> k]>>
                           /\ k => Intact(Current.file, Current.rev)'
    BY <2>1, <2>2
  <2>4. NoOverlap' BY <1>1, <1>3 DEF NoOverlap, OnTheWay
  <2> QED BY <1>1, <1>3, <1>6, <2>3, <2>4 DEF UrlInv
<1>22. FirmwareInv' BY <1>1, <1>2, <1>13, <1>14 DEF FirmwareInv
<1>23. OfferInv' BY <1>1, <1>2 DEF OfferInv, Offered, HasFirmware
<1>24. BehindInv' /\ FaultInv' /\ TrialInv' BY <1>1, <1>2 DEF BehindInv, FaultInv, TrialInv
<1>25. AloneInv'
  <2>1. SUFFICES ASSUME Alone PROVE AloneInv' BY <1>1 DEF AloneInv, Alone
  <2>2. Len(down') = 0 BY <1>1, <1>3 DEF NoOverlap
  <2>3. \A i : Pending(i)' <=> Pending(i) BY <1>1, <1>13 DEF Pending
  <2>4. sft'.fua # NoPackage =>
          \A i \in 1 .. Len(sft'.fua.files) : Pending(i)' => ToCome(sft.fua.files[i])'
    BY <1>1, <1>2, <2>1, <2>3 DEF AloneInv, ToCome, Told
  <2>5. \A f \in Files \ Firmware : /\ known'[f] = target'[f] => Intact(f, target[f])'
                                    /\ recorded'[f] = target'[f] => Intact(f, target[f])'
    BY <1>1, <1>2, <1>3, <1>10, <2>1 DEF AloneInv, Intact
  <2> QED BY <1>12, <2>2, <2>4, <2>5 DEF AloneInv
<1>26. Alone' => Alone BY <1>1 DEF Alone
<1>27. ASSUME Alone, NEW i \in 1 .. Len(up), up[i].type = "status"
       PROVE  content'[up[i].file] = content[up[i].file]
  <2>1. up \in Seq(Ups) BY <1>2 DEF Types
  <2>2. up[i] \in Ups BY <2>1
  <2>3. up[i].file \in Files
    <3>1. up[i] \in Reports BY <1>27, <2>2 DEF Ups, Asks, Infos
    <3> QED BY <3>1 DEF Reports
  <2>4. up[i].file \notin Firmware BY <1>2, <1>27 DEF WireInv
  <2>5. Current.file \notin Firmware => ~Told(Current.file) BY <1>3, <1>27 DEF ToCome
  <2>6. up[i].file # Current.file BY <1>27, <2>4, <2>5 DEF Told
  <2> QED BY <1>10, <2>3, <2>6
<1>28. /\ WireInv' /\ ReportInv' /\ \A f, r : Heard(f, r) => Heard(f, r)'
  <2>1. Alone => \A i \in 1 .. Len(up) : up[i].type = "status" => content'[up[i].file] = content[up[i].file]
    BY <1>27
  <2> QED BY <1>1, <1>3, <1>26, <2>1, ReportsKept
<1>29. KnownInv' BY <1>1, <1>2, <1>26, <1>28, StillHeard
<1> QED BY <1>11, <1>16, <1>17, <1>18, <1>19, <1>20, <1>21, <1>22, <1>23, <1>24, <1>25,
           <1>28, <1>29 DEF Inv

LEMMA FileDownloadedStep == Inv /\ FileDownloaded => Inv'
<1> SUFFICES ASSUME Inv, FileDownloaded PROVE Inv' OBVIOUS
<1>1. /\ tasks # <<>> /\ tasks' = Tail(tasks)
      /\ UNCHANGED <<content, recorded, mailbox, running, committed, trial, conn, sft, target, known,
                     down, url, used>>
  BY DEF FileDownloaded, disk, booted, server
<1>2. /\ Types /\ SessionInv /\ PackageInv /\ CurrentInv /\ DoneInv /\ UrlInv /\ FirmwareInv
      /\ OfferInv /\ BehindInv /\ TrialInv /\ FaultInv /\ AloneInv /\ KnownInv
  BY DEF Inv
<1>3. /\ step = "idle" /\ conn = "up" /\ NoOverlap /\ ~trial
      /\ \A i \in 1 .. Len(up) : up[i].type \notin {"get", "info"}
      /\ sft.current # Null /\ Live(sft.current) /\ sft.fua # NoPackage
      /\ Current.file \in Files /\ Current.rev \in Revisions
  BY <1>1, AtUrl
<1>4. url = {} /\ \E ok \in BOOLEAN : /\ tasks = <<[file |-> Current.file, ok |-> ok]>>
                                      /\ ok => Intact(Current.file, Current.rev)
  BY <1>1, <1>2 DEF UrlInv
<1>5. PICK ok \in BOOLEAN : /\ tasks = <<[file |-> Current.file, ok |-> ok]>>
                            /\ ok => Intact(Current.file, Current.rev)
  BY <1>4
<1>6. tasks' = <<>> /\ Head(tasks).file = Current.file /\ (Head(tasks).ok <=> ok)
  <2> DEFINE m == [file |-> Current.file, ok |-> ok]
  <2>1. m.file = Current.file /\ (m.ok <=> ok) OBVIOUS
  <2>2. tasks = <<m>> BY <1>5
  <2> HIDE DEF m
  <2>3. Tail(<<m>>) = <<>> /\ Head(<<m>>) = m OBVIOUS
  <2>4. tasks' = <<>> /\ Head(tasks) = m BY <1>1, <2>2, <2>3
  <2> QED BY <2>1, <2>4
<1>7. /\ fault' = fault
      /\ \/ ok /\ step' = "record" /\ up' = up
         \/ step' = step /\ up' = up
         \/ step' = step /\ up' = Append(up, Request(Current, 0))
  <2>1. /\ UNCHANGED fault
        /\ \/ /\ Head(tasks).ok
              /\ step' = IF Current.file = Head(tasks).file THEN "record" ELSE step
              /\ UNCHANGED up
           \/ /\ ~Head(tasks).ok
              /\ up' = IF Current.file \in MqttAlso THEN Append(up, Request(Current, 0)) ELSE up
              /\ UNCHANGED step
    BY <1>3 DEF FileDownloaded
  <2> QED BY <1>6, <2>1
<1>8. Request(Current, 0) \in Asks /\ Request(Current, 0) \in Ups /\ Request(Current, 0).off = 0
  BY <1>3 DEF Request, Asks, Ups
<1>27. Alone' => Alone BY <1>1 DEF Alone
<1>28. /\ up' \in Seq(Ups) /\ WireInv' /\ ReportInv' /\ \A f : Told(f)' <=> Told(f)
       /\ \A f, r : Heard(f, r) => Heard(f, r)'
  <2>1. up' = up \/ \E q \in Asks : up' = Append(up, q) BY <1>7, <1>8
  <2> QED BY <1>1, <1>3, <1>27, <2>1, ReportsKept
<1>9. Fresh'
  <2>1. up \in Seq(Ups) BY <1>2 DEF Types
  <2>2. ASSUME up' = Append(up, Request(Current, 0))
        PROVE  \A i \in 1 .. Len(up') : up'[i].type = "get" => up'[i].off = 0
    <3>1. /\ Len(up') = Len(up) + 1 /\ Len(up) \in Nat /\ up'[Len(up) + 1] = Request(Current, 0)
          /\ \A i \in 1 .. Len(up) : up'[i] = up[i]
      BY <1>8, <2>1, <2>2, Appended
    <3>2. \A i \in 1 .. Len(up') : i \in 1 .. Len(up) \/ i = Len(up) + 1 BY <3>1
    <3> QED BY <1>3, <1>8, <3>1, <3>2
  <2>3. \A i \in 1 .. Len(up') : up'[i].type = "get" => up'[i].off = 0 BY <1>3, <1>7, <2>2
  <2>4. Len(down') = 0 BY <1>1, <1>3 DEF NoOverlap
  <2> QED BY <2>3, <2>4 DEF Fresh
<1>10. step' \in {"idle", "record"} /\ (step' = "record" => Intact(Current.file, Current.rev))
  BY <1>3, <1>5, <1>7
<1>11. Types'
  <2>1. tasks' \in Seq([file: Files, ok: BOOLEAN]) /\ step' \in Steps BY <1>6, <1>10 DEF Steps
  <2> QED BY <1>1, <1>2, <1>28, <2>1 DEF Types
<1>12. \A i : Ordered(i)' <=> Ordered(i) BY <1>1 DEF Ordered
<1>13. \A i : Done(i)' <=> Done(i) BY <1>1, <1>3, <1>10, <1>12 DEF Done
<1>14. Live(sft.current)' /\ Current' = Current BY <1>1, <1>3 DEF Live, Current, Desc
<1>15. SessionInv' BY <1>1, <1>2, <1>3, <1>10 DEF SessionInv
<1>16. PackageInv' BY <1>1, <1>2 DEF PackageInv, IsPackage
<1>17. CurrentInv'
  <2>1. step' = "record" => Intact(Current.file, Current.rev)' BY <1>1, <1>10, <1>14 DEF Intact
  <2>2. {sft'.current, sft'.firmware} \subseteq Pointers BY <1>1, <1>2 DEF CurrentInv
  <2>3. sft'.current.at \in 1 .. Len(sft'.fua.files) /\ ~Ordered(sft.current.at)'
    BY <1>1, <1>2, <1>3 DEF CurrentInv, Ordered
  <2> QED BY <1>1, <1>3, <1>10, <1>14, <2>1, <2>2, <2>3 DEF CurrentInv
<1>18. DoneInv' BY <1>1, <1>2, <1>3, <1>13 DEF DoneInv, Intact
<1>19. HandleInv' /\ SumInv' BY <1>9 DEF HandleInv, SumInv
<1>20. UrlInv' BY <1>1, <1>4, <1>6 DEF UrlInv
<1>21. FirmwareInv' BY <1>1, <1>2, <1>10, <1>12, <1>13 DEF FirmwareInv
<1>22. OfferInv' BY <1>1, <1>2 DEF OfferInv, Offered, HasFirmware
<1>23. BehindInv' /\ FaultInv' BY <1>1, <1>2, <1>7 DEF BehindInv, FaultInv
<1>24. TrialInv' BY <1>1, <1>2, <1>3, <1>10 DEF TrialInv
<1>25. AloneInv'
  <2>1. SUFFICES ASSUME Alone PROVE AloneInv' BY <1>27 DEF AloneInv
  <2>2. Len(down') = 0 BY <1>1, <1>3 DEF NoOverlap
  <2>3. \A i : Pending(i)' <=> Pending(i) BY <1>1, <1>3, <1>10, <1>12 DEF Pending
  <2>4. sft'.fua # NoPackage =>
          \A i \in 1 .. Len(sft'.fua.files) : Pending(i)' => ToCome(sft.fua.files[i])'
    BY <1>1, <1>2, <1>28, <2>1, <2>3 DEF AloneInv, ToCome
  <2>5. \A f \in Files \ Firmware : /\ known'[f] = target'[f] => Intact(f, target[f])'
                                    /\ recorded'[f] = target'[f] => Intact(f, target[f])'
    BY <1>1, <1>2, <2>1 DEF AloneInv, Intact
  <2> QED BY <1>9, <1>10, <2>2, <2>4, <2>5 DEF AloneInv
<1>26. KnownInv' BY <1>1, <1>2, <1>10, <1>27, <1>28, StillHeard
<1> QED BY <1>11, <1>15, <1>16, <1>17, <1>18, <1>19, <1>20, <1>21, <1>22, <1>23, <1>24, <1>25,
           <1>26, <1>28 DEF Inv

-----------------------------------------------------------------------------
(***************************************************************************)
(* The invariant and what follows from it.                                 *)
(***************************************************************************)
LEMMA InvStep == Platform /\ Inv /\ [Next]_vars => Inv'
<1> SUFFICES ASSUME Platform, Inv, [Next]_vars PROVE Inv' OBVIOUS
<1>1. CASE Connect BY <1>1, ConnectStep
<1>2. CASE SubackOk BY <1>2, SubackOkStep
<1>3. CASE RecordFirmware BY <1>3, RecordFirmwareStep
<1>4. CASE RemoveMailbox BY <1>4, RemoveMailboxStep
<1>5. CASE SendFileInfo BY <1>5, SendFileInfoStep
<1>6. CASE FileUpdateAvailable BY <1>6, FileUpdateAvailableStep
<1>7. CASE NextFile BY <1>7, NextFileStep
<1>8. CASE PackageFinished BY <1>8, PackageFinishedStep
<1>9. CASE UnexpectedChunk BY <1>9, UnexpectedChunkStep
<1>10. CASE FileContinues BY <1>10, FileContinuesStep
<1>11. CASE FileEnds BY <1>11, FileEndsStep
<1>12. CASE MailFirmware BY <1>12, MailFirmwareStep
<1>13. CASE ReportFinished BY <1>13, ReportFinishedStep
<1>14. CASE SaveRevision BY <1>14, SaveRevisionStep
<1>15. CASE FileDownloaded BY <1>15, FileDownloadedStep
<1>16. CASE Environment
  <2>1. CASE SubackFailed BY <2>1, SubackFailedStep
  <2>2. CASE Disconnect BY <2>2, DisconnectStep
  <2>3. CASE Crash BY <2>3, CrashStep
  <2>4. CASE ChunkFails BY <2>4, ChunkFailsStep
  <2>5. CASE OfferEarly BY <2>5, OfferEarlyStep
  <2>6. CASE LoseMessage BY <2>6, LoseMessageStep
  <2>7. CASE \E F \in SUBSET Files : Release(F) BY <2>7, ReleaseStep
  <2>8. CASE SaveFails BY <2>8, SaveFailsStep
  <2>9. CASE RecordFirmwareFails BY <2>9, RecordFirmwareFailsStep
  <2> QED BY <1>16, <2>1, <2>2, <2>3, <2>4, <2>5, <2>6, <2>7, <2>8, <2>9 DEF Environment
<1>17. CASE Download BY <1>17, UrlDoneStep DEF Download
<1>18. CASE Offer BY <1>18, OfferStep
<1>19. CASE Answer BY <1>19, AnswerStep
<1>20. CASE Learn BY <1>20, LearnStep
<1>21. CASE UNCHANGED vars
  <2>1. UNCHANGED <<content, recorded, mailbox, running, committed, trial, conn, step, sft, target, known,
                    down, up, url, tasks, fault, used>>
    BY <1>21 DEF vars, disk, booted, session, server, wire, app
  <2>2. /\ Types /\ SessionInv /\ PackageInv /\ CurrentInv /\ DoneInv /\ HandleInv /\ SumInv /\ UrlInv
        /\ FirmwareInv /\ OfferInv /\ BehindInv /\ TrialInv /\ FaultInv /\ AloneInv
        /\ WireInv /\ ReportInv /\ KnownInv
    BY DEF Inv
  <2>3. Types' BY <2>1, <2>2 DEF Types
  <2>4. SessionInv' /\ BehindInv' /\ TrialInv' /\ FaultInv' BY <2>1, <2>2 DEF SessionInv, BehindInv, TrialInv, FaultInv
  <2>5. PackageInv' BY <2>1, <2>2 DEF PackageInv, IsPackage
  <2>6. CurrentInv' BY <2>1, <2>2 DEF CurrentInv, Live, Ordered, Current, Desc, Intact
  <2>7. \A i : (Done(i)' <=> Done(i)) /\ (Pending(i)' <=> Pending(i)) /\ (Ordered(i)' <=> Ordered(i))
    BY <2>1 DEF Done, Ordered, Pending
  <2>8. Fresh' <=> Fresh BY <2>1 DEF Fresh
  <2>9. DoneInv' /\ HandleInv' /\ SumInv' BY <2>1, <2>2, <2>7, <2>8 DEF DoneInv, HandleInv, SumInv, Intact
  <2>10. UrlInv' BY <2>1, <2>2 DEF UrlInv, NoOverlap, OnTheWay, Current, Desc, Intact
  <2>11. FirmwareInv' BY <2>1, <2>2, <2>7 DEF FirmwareInv
  <2>12. OfferInv' BY <2>1, <2>2 DEF OfferInv, Offered, HasFirmware
  <2>13. Live(sft.current)' = Live(sft.current) /\ Current' = Current BY <2>1 DEF Live, Current, Desc
  <2>14. AloneInv'
    <3>1. Alone' <=> Alone BY <2>1 DEF Alone
    <3>2. \A d : ToCome(d)' <=> ToCome(d) BY <2>1 DEF ToCome, Told
    <3> QED BY <2>1, <2>2, <2>7, <2>8, <2>13, <3>1, <3>2 DEF AloneInv, Intact, ToCome, Told
  <2>15. WireInv' BY <2>1, <2>2 DEF WireInv
  <2>16. ReportInv' BY <2>1, <2>2 DEF ReportInv, Alone, Intact
  <2>17. KnownInv' BY <2>1, <2>2, <2>13 DEF KnownInv, Alone, Heard
  <2> QED BY <2>3, <2>4, <2>5, <2>6, <2>9, <2>10, <2>11, <2>12, <2>14, <2>15,
           <2>16, <2>17 DEF Inv
<1> QED BY <1>1, <1>2, <1>3, <1>4, <1>5, <1>6, <1>7, <1>8, <1>9, <1>10, <1>11, <1>12, <1>13, <1>14,
           <1>15, <1>16, <1>17, <1>18, <1>19, <1>20, <1>21 DEF Next, Device

LEMMA InvAlways == ASSUME Platform PROVE Spec => []Inv
<1>1. Init => Inv BY InitInv
<1>2. Inv /\ [Next]_vars => Inv' BY InvStep
<1> QED BY <1>1, <1>2, PTL DEF Spec

(* No handler follows update_current_file or update_firmware into a package  *)
(* that was freed (xi_sft_logic.c replaces and frees update_message_fua and  *)
(* clears the pointers only sometimes): whichever packages replace each      *)
(* other, whatever arrives late and wherever the power is lost, provided     *)
(* that a platform that updates its firmware restarts into it.               *)
THEOREM PointersStayLive == ASSUME Platform PROVE Spec => []ContextInv
<1>1. Inv => ContextInv
  <2> SUFFICES ASSUME Inv PROVE ContextInv OBVIOUS
  <2>1. Types /\ PackageInv /\ CurrentInv /\ FaultInv BY DEF Inv
  <2>2. sft \in SftType BY <2>1 DEF Types
  <2>3. /\ sft.fua.files \in Seq(Descs) /\ sft.order \in Seq(Nat) /\ sft.fua.id \in 0 .. 2
        /\ sft.handle \in Files \cup {NoFile}
    BY <2>2, SftFields
  <2>4. sft.fua = NoPackage \/ (sft.fua.id \in {1, 2} /\ sft.fua.files \in Seq(Descs))
    BY <2>1, <2>3 DEF PackageInv
  <2>5. \A i \in 1 .. Len(sft.order) : sft.order[i] \in 0 .. Cardinality(Files)
    BY <2>1, <2>3, CardinalityFacts DEF PackageInv
  <2>6. {sft.current, sft.firmware} \subseteq Pointers BY <2>1 DEF CurrentInv
  <2>7. TypeOK BY <2>1, <2>3, <2>4, <2>5, <2>6 DEF Types, TypeOK, Steps, Counts
  <2> QED BY <2>1, <2>7 DEF ContextInv, NoStaleFile, FaultInv
<1>2. Spec => []Inv BY InvAlways
<1> QED BY <1>1, <1>2, PTL

(* Which steps record a revision.                                            *)
LEMMA RecordedBy ==
  ASSUME Inv, [Next]_vars, ~SaveRevision, ~RecordFirmware
  PROVE  \A f \in Files : recorded'[f] \in {recorded[f], NoRevision}
<1>1. CASE recorded' = recorded BY <1>1
<1>2. CASE Crash
  <2>1. Types /\ CurrentInv /\ TrialInv BY DEF Inv
  <2>2. recorded \in [Files -> Revisions \cup {NoRevision}] BY <2>1 DEF Types
  <2>3. CASE step = "save"
    <3>1. recorded' \in {recorded} \cup {[recorded EXCEPT ![Current.file] = NoRevision]}
      BY <1>2, <2>3 DEF Crash
    <3> QED BY <2>2, <3>1
  <2>4. CASE step = "mail" /\ mailbox # NoMail
    <3>1. recorded' \in {recorded} \cup {[recorded EXCEPT ![mailbox.file] = NoRevision]}
      BY <1>2, <2>4 DEF Crash
    <3> QED BY <2>2, <3>1
  <2>5. CASE step # "save" /\ ~(step = "mail" /\ mailbox # NoMail)
    <3>1. recorded' \in {recorded} \cup {} BY <1>2, <2>5 DEF Crash
    <3> QED BY <3>1
  <2> QED BY <2>3, <2>4, <2>5
<1>3. CASE SaveFails \/ RecordFirmwareFails
  <2>1. Types BY DEF Inv
  <2>2. recorded \in [Files -> Revisions \cup {NoRevision}] BY <2>1 DEF Types
  <2>3. \E g : recorded' = recorded \/ recorded' = [recorded EXCEPT ![g] = NoRevision]
    BY <1>3 DEF SaveFails, RecordFirmwareFails, RevisionLost
  <2> QED BY <2>2, <2>3
<1>4. recorded' = recorded \/ Crash \/ SaveFails \/ RecordFirmwareFails
  <2>1. CASE Device
    <3>1. CASE Connect \/ SubackOk \/ RemoveMailbox \/ SendFileInfo
      BY <3>1 DEF Connect, SubackOk, RemoveMailbox, SendFileInfo, disk
    <3>2. CASE FileUpdateAvailable BY <3>2 DEF FileUpdateAvailable, disk
    <3>3. CASE NextFile BY <3>3 DEF NextFile, disk
    <3>4. CASE PackageFinished BY <3>4 DEF PackageFinished, disk
    <3>5. CASE UnexpectedChunk BY <3>5 DEF UnexpectedChunk, disk
    <3>6. CASE FileContinues BY <3>6 DEF FileContinues, ChunkWritten
    <3>7. CASE FileEnds BY <3>7 DEF FileEnds, ChunkWritten
    <3>8. CASE MailFirmware BY <3>8 DEF MailFirmware
    <3>9. CASE ReportFinished BY <3>9 DEF ReportFinished, disk
    <3>10. CASE FileDownloaded BY <3>10 DEF FileDownloaded, disk
    <3> QED BY <2>1, <3>1, <3>2, <3>3, <3>4, <3>5, <3>6, <3>7, <3>8, <3>9, <3>10 DEF Device
  <2>2. CASE Environment
    <3>1. CASE SubackFailed BY <3>1 DEF SubackFailed, disk
    <3>2. CASE Disconnect BY <3>2 DEF Disconnect, disk
    <3>3. CASE ChunkFails BY <3>3 DEF ChunkFails
    <3>4. CASE OfferEarly BY <3>4 DEF OfferEarly, SendPackage, disk
    <3>5. CASE LoseMessage BY <3>5 DEF LoseMessage, disk
    <3>6. CASE \E F \in SUBSET Files : Release(F) BY <3>6 DEF Release, disk
    <3> QED BY <2>2, <3>1, <3>2, <3>3, <3>4, <3>5, <3>6 DEF Environment
  <2>3. CASE Download BY <2>3 DEF Download, UrlDone
  <2>4. CASE Offer BY <2>4 DEF Offer, SendPackage, disk
  <2>5. CASE Answer BY <2>5 DEF Answer, disk
  <2>6. CASE Learn BY <2>6 DEF Learn, disk
  <2>7. CASE UNCHANGED vars BY <2>7 DEF vars, disk
  <2> QED BY <2>1, <2>2, <2>3, <2>4, <2>5, <2>6, <2>7 DEF Next
<1> QED BY <1>1, <1>2, <1>3, <1>4

(* A revision is recorded for a file only when exactly that revision is on   *)
(* the disk, and for the firmware only when that firmware runs (xi_sft_      *)
(* revision_set, xi_sft_revision_firmware_ok), whatever packages overlap,    *)
(* chunks arrive late, downloads fail and power losses come in between.      *)
THEOREM RecordsAreTrue == ASSUME Platform PROVE Spec => RecordedIsTrue
<1> DEFINE A == \A f \in Files \ Firmware :
                  recorded'[f] \notin {recorded[f], NoRevision} => content'[f] = Whole(f, recorded'[f])
           B == \A f \in Firmware :
                  recorded'[f] \notin {recorded[f], NoRevision} => recorded'[f] = running
<1>1. Inv /\ [Next]_vars => A /\ B
  <2> SUFFICES ASSUME Inv, [Next]_vars PROVE A /\ B OBVIOUS
  <2>1. Firmware \subseteq Files BY FilesAssumption
  <2>2. Types /\ TrialInv /\ FirmwareInv BY DEF Inv
  <2>3. recorded \in [Files -> Revisions \cup {NoRevision}] BY <2>2 DEF Types
  <2>4. CASE SaveRevision
    <3>1. /\ step = "save" /\ content' = content
          /\ recorded' = [recorded EXCEPT ![Current.file] = Current.rev]
      BY <2>4 DEF SaveRevision, At
    <3>2. /\ sft.current.at \in 1 .. Len(sft.fua.files) /\ ~Ordered(sft.current.at)
          /\ sft.current = [pkg |-> sft.fua.id, at |-> sft.current.at]
          /\ Current = sft.fua.files[sft.current.at]
          /\ Current.file \in Files /\ Intact(Current.file, Current.rev)
      BY <3>1, AtRecord
    <3>3. Current.file \notin Firmware BY <2>2, <3>1, <3>2 DEF FirmwareInv
    <3>4. /\ recorded'[Current.file] = Current.rev
          /\ \A f \in Files : f # Current.file => recorded'[f] = recorded[f]
      BY <2>3, <3>1, <3>2
    <3>5. A BY <3>1, <3>2, <3>4 DEF Intact
    <3>6. B BY <2>1, <3>3, <3>4
    <3> QED BY <3>5, <3>6
  <2>5. CASE RecordFirmware
    <3>1. /\ step = "mail"
          /\ \/ recorded' = recorded
             \/ mailbox # NoMail /\ recorded' = [recorded EXCEPT ![mailbox.file] = mailbox.rev]
      BY <2>5 DEF RecordFirmware, At
    <3>2. mailbox # NoMail => mailbox.file \in Firmware /\ mailbox.rev = running
      BY <2>2, <3>1 DEF TrialInv
    <3>3. \A f \in Files : recorded'[f] = recorded[f] \/ (f \in Firmware /\ recorded'[f] = running)
      BY <2>3, <3>1, <3>2
    <3> QED BY <2>1, <3>3
  <2>6. CASE ~SaveRevision /\ ~RecordFirmware
    <3>1. \A f \in Files : recorded'[f] \in {recorded[f], NoRevision} BY <2>6, RecordedBy
    <3> QED BY <2>1, <3>1
  <2> QED BY <2>4, <2>5, <2>6
<1>2. Spec => []Inv BY InvAlways
<1>3. Spec => [][A]_vars BY <1>1, <1>2, PTL DEF Spec
<1>4. Spec => [][B]_vars BY <1>1, <1>2, PTL DEF Spec
<1> QED BY <1>3, <1>4 DEF RecordedIsTrue, RecordedIsIntact, RecordedFirmwareRuns

(* When xi_bsp_fwu_on_package_download_finished is called, every file of the *)
(* package is on the disk in the revision the package asks for, also after   *)
(* packages replaced each other in the middle of a file.                     *)
THEOREM FinishedMeansComplete == ASSUME Platform PROVE Spec => FinishedIsComplete
<1> DEFINE A == PackageFinished => \A i \in 1 .. Len(sft.fua.files) :
                                     Intact(sft.fua.files[i].file, sft.fua.files[i].rev)
<1>1. Inv => A
  <2> SUFFICES ASSUME Inv, PackageFinished
               PROVE  \A i \in 1 .. Len(sft.fua.files) :
                        Intact(sft.fua.files[i].file, sft.fua.files[i].rev)
    OBVIOUS
  <2>1. step = "next" /\ Waiting = {} BY DEF PackageFinished, At
  <2> QED BY <2>1, AtEnd
<1>2. Spec => []Inv BY InvAlways
<1>3. Spec => [][A]_vars BY <1>1, <1>2, PTL DEF Spec
<1> QED BY <1>3 DEF FinishedIsComplete

(* As long as the server sends one package at a time and no file_status or   *)
(* file_info is lost, it never takes a damaged file for the revision it      *)
(* wants, whichever requests are lost, wherever the power is lost, and       *)
(* whichever revision could not be saved: what it is told is on the disk,    *)
(* and what is downloaded again was neither reported nor recorded.           *)
THEOREM DamageAlwaysNoticed == ASSUME Platform PROVE Spec => []DamageIsNoticed
<1>1. Inv => DamageIsNoticed BY DEF Inv, AloneInv, Alone, DamageIsNoticed
<1>2. Spec => []Inv BY InvAlways
<1> QED BY <1>1, <1>2, PTL

=============================================================================
