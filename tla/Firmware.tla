------------------------------ MODULE Firmware ------------------------------
(* A firmware package on its way to the job pipeline: the readers, the       *)
(* resolver, the validator, the flash plan and FirmwareExecutor, which       *)
(* another thread may cancel through the context.                            *)
EXTENDS Integers, Sequences, FiniteSets, SequencesExt

CONSTANTS
    Folders,     \* directories: manifest fields, entries and files
    Templates,   \* PackageTemplates of the generator
    HandMade,    \* packages put together through the API
    DeviceSpecs, \* device descriptors, [vendor, protocol]
    UpperOf      \* what toupper() makes of a vendor or a protocol

VARIABLES
    fsrc,        \* where the package comes from
    fpkg,        \* the FirmwarePackage
    fdev,        \* the device it is for
    fplan,       \* the FlashPlan's steps
    fjobs,       \* the jobs added to the pipeline
    fexec        \* FirmwareExecutor::executePlan(): its step and counters

fvars == <<fsrc, fpkg, fdev, fplan, fjobs, fexec>>

NoPackage == [images |-> <<>>]

NoPlan == [steps |-> <<>>, generator |-> "none"]

FInit ==
    /\ fsrc = [kind |-> "none"]
    /\ fpkg = NoPackage
    /\ fdev = [vendor |-> "UNKNOWN", protocol |-> "UNKNOWN"]
    /\ fplan = NoPlan
    /\ fjobs = <<>>
    /\ fexec = [pc |-> "idle", k |-> 0, device |-> FALSE, cancelled |-> FALSE, created |-> 0, failed |-> 0]

------------------------------------------------------------------------------
(* Packages.  The content of a file or an image is a name, or "" for none;   *)
(* a hash is the XOR sum of the content it was made from.                    *)

Names(images) == {images[i].name : i \in 1..Len(images)}

\* Mutant: an image is added under a name that is taken.
addAnyImage(images, img) == Append(images, img)

\* FirmwarePackage::addImage(): an image whose name is taken is refused.
addImage(images, img) == IF img.name \in Names(images) THEN images ELSE Append(images, img)

\* getImageByType()
HasType(images, t) == \E i \in 1..Len(images) : images[i].type = t

\* An entry of the manifest, with the defaults of the reader.
EntryImage(e, files) ==
    LET file == IF e.file = "" THEN e.name \o ".bin" ELSE e.file
    IN  [name |-> e.name, part |-> IF e.part = "" THEN e.name ELSE e.part, type |-> e.type, file |-> file,
         data |-> IF file \in DOMAIN files THEN files[file] ELSE "", hash |-> ""]

\* DirectoryFirmwareReader::read(): entries without a name, and the ones whose
\* file is missing or empty, are passed over.  The dependencies are not read.
readDirectory(dir) ==
    LET imgs   == [i \in 1..Len(dir.entries) |-> EntryImage(dir.entries[i], dir.files)]
        loaded == SelectSeq(imgs, LAMBDA m : m.name # "" /\ m.data # "")
    IN  [vendor |-> dir.vendor, platform |-> dir.platform, protocol |-> dir.protocol, deps |-> <<>>,
         images |-> FoldLeft(addImage, <<>>, loaded)]

\* RawFirmwareReader::read(), with the partition the reader was made for.
readRaw(stem, content, part) ==
    [vendor |-> "raw", platform |-> "raw", protocol |-> "", deps |-> <<>>,
     images |-> <<[name |-> stem, part |-> part, type |-> "Custom", file |-> stem, data |-> content, hash |-> ""]>>]

\* VirtualPackageGenerator::generate(): the programmer, the GPT and up to three
\* images, with the faults the template asks for.
Generated(t, name, type, part) ==
    IF name \in t.missing THEN <<>>
    ELSE <<[name |-> name, part |-> part, type |-> type, file |-> name, data |-> name,
            hash |-> IF t.badHashes THEN "0xBB" ELSE name]>>

generate(t) ==
    LET second == IF t.duplicate = "" THEN "system" ELSE t.duplicate
        std    == <<Generated(t, "boot", "Boot", "boot"), Generated(t, "system", "System", second),
                    Generated(t, "vendor", "Vendor", "vendor")>>
        all    == (IF t.programmer THEN Generated(t, "prog", "Programmer", "prog") ELSE <<>>)
                    \o (IF t.gpt THEN Generated(t, "gpt", "GPT", "gpt_primary") ELSE <<>>)
                    \o FlattenSeq(SubSeq(std, 1, t.imageCount))
    IN  [vendor |-> IF t.corrupt THEN "" ELSE IF t.badVendor THEN "UNKNOWN_VENDOR" ELSE "QUALCOMM",
         platform |-> "SM8450",
         protocol |-> IF t.badProtocol THEN "unknown_protocol" ELSE "sahara",
         deps |-> t.deps, images |-> FoldLeft(addImage, <<>>, all)]

------------------------------------------------------------------------------
(* The validator and the resolver.                                           *)

validateManifest(p) ==
    /\ p.vendor # "" /\ p.platform # ""
    /\ \A i \in 1..Len(p.images) : p.images[i].name # ""
    /\ \A i, j \in 1..Len(p.images) : (i # j /\ p.images[i].part # "") => p.images[i].part # p.images[j].part

validateDependencies(p) == \A i \in 1..Len(p.deps) : p.deps[i].required => p.deps[i].resolved

\* XOR of the content, repeated to the length of the expected hash.
verifyHash(img) == img.hash = "" \/ (img.data # "" /\ img.hash = img.data)

\* An image that has a source but no data is warned about and not verified.
validateIntegrity(p) ==
    \A i \in 1..Len(p.images) : (p.images[i].data = "" /\ p.images[i].file # "") \/ verifyHash(p.images[i])

\* Mutant: the manifest is looked at from the basic level on.
validateFromBasic(p, level) ==
    /\ level >= 2 => validateManifest(p)
    /\ level >= 1 => validateDependencies(p)
    /\ level >= 2 => validateIntegrity(p)

\* FirmwareValidator::validate() at a ValidationLevel, 0 to 3.  validateImages()
\* only warns.
validatePackage(p, level) ==
    /\ validateManifest(p)
    /\ level >= 1 => validateDependencies(p)
    /\ level >= 2 => validateIntegrity(p)

Upper(s) == IF s \in DOMAIN UpperOf THEN UpperOf[s] ELSE s

Wild == {"ANY", "GENERIC"}

vendorFits(p, dev) == p.vendor # "" => Upper(p.vendor) \in {dev.vendor} \cup Wild

validateForDevice(p, dev) == validatePackage(p, 2) /\ vendorFits(p, dev)

\* matchVendor() and matchProtocol() test for the wildcards before toupper().
matchVendor(p, dev) == p.vendor \in {""} \cup Wild \/ Upper(p.vendor) = dev.vendor

matchProtocol(p, dev) == p.protocol \in {""} \cup Wild \/ Upper(p.protocol) = dev.protocol

resolve(p, dev) ==
    [ok |-> matchVendor(p, dev) /\ matchProtocol(p, dev), programmer |-> HasType(p.images, "Programmer"),
     gpt |-> HasType(p.images, "GPT")]

------------------------------------------------------------------------------
(* Plans and jobs.                                                           *)

Step(type, part, data, optional) == [type |-> type, part |-> part, data |-> data, optional |-> optional]

Target(img) == IF img.part = "" THEN img.name ELSE img.part

Ordinaries(p) == SelectSeq(p.images, LAMBDA m : m.type \notin {"Programmer", "GPT"})

FlashSteps(p) ==
    LET o == Ordinaries(p) IN [i \in 1..Len(o) |-> Step("FlashPartition", Target(o[i]), o[i].data, FALSE)]

\* addVerifySteps()
VerifySteps(p) ==
    LET o == Ordinaries(p) IN [i \in 1..Len(o) |-> Step("VerifyPartition", Target(o[i]), o[i].data, TRUE)]

\* addProgrammerStep() and addGptStep(): at the front, in this order.
Prologue(programmer, gpt) ==
    (IF programmer THEN <<Step("FlashProgrammer", "", "", FALSE)>> ELSE <<>>)
        \o (IF gpt THEN <<Step("UpdateGPT", "", "", FALSE)>> ELSE <<>>)

\* Mutant: the partitions are verified before they are flashed.
generatePlanVerifyFirst(p) ==
    Prologue(HasType(p.images, "Programmer"), HasType(p.images, "GPT")) \o VerifySteps(p) \o FlashSteps(p)

generatePlan(p) ==
    Prologue(HasType(p.images, "Programmer"), HasType(p.images, "GPT")) \o FlashSteps(p) \o VerifySteps(p)

\* generateFromResolved(): no verification, and a reboot.
generateFromResolved(r, p) ==
    Prologue(r.programmer, r.gpt) \o FlashSteps(p) \o <<Step("Reboot", "", "", FALSE)>>

\* The job createJobForStep() makes of a step, if any, and whether the step
\* fails.
JobOf(step, device) ==
    CASE step.type = "UpdateGPT" /\ device -> <<[kind |-> "gpt", part |-> "", data |-> ""]>>
      [] step.type = "FlashPartition" /\ device /\ step.data # "" ->
            <<[kind |-> "flash", part |-> step.part, data |-> step.data]>>
      [] step.type = "VerifyPartition" /\ device /\ step.data # "" ->
            <<[kind |-> "verify", part |-> step.part, data |-> step.data]>>
      [] step.type = "ErasePartition" /\ device -> <<[kind |-> "erase", part |-> step.part, data |-> ""]>>
      [] OTHER -> <<>>

StepFails(step, device) ==
    /\ step.type \in {"UpdateGPT", "FlashPartition", "ErasePartition"}
    /\ ~device \/ (step.type = "FlashPartition" /\ step.data = "")

------------------------------------------------------------------------------
(* Actions.                                                                *)

Take(src, p) == fsrc' = src /\ fpkg' = p

ReadPackage ==
    /\ fsrc.kind = "none"
    /\ \/ \E d \in Folders : d.manifest /\ Take([kind |-> "folder", dir |-> d], readDirectory(d))
       \/ \E t \in Templates : Take([kind |-> "template", t |-> t], generate(t))
       \/ \E p \in HandMade : Take([kind |-> "hand"], p)
       \/ Take([kind |-> "raw"], readRaw("boot", "c1", "raw"))
    /\ \E dev \in DeviceSpecs : fdev' = dev
    /\ UNCHANGED <<fplan, fjobs, fexec>>

\* ImageEngine::loadImageData() fills in an image whose file is there.
loadImageData ==
    /\ fsrc.kind = "hand" /\ fplan = NoPlan
    /\ \E i \in 1..Len(fpkg.images) :
          fpkg.images[i].data = "" /\ fpkg' = [fpkg EXCEPT !.images[i].data = "c9"]
    /\ UNCHANGED <<fsrc, fdev, fplan, fjobs, fexec>>

\* executePackage() plans what it is given; FirmwareService plans what has been
\* resolved for the device.
MakePlan ==
    /\ fsrc.kind # "none" /\ fplan = NoPlan
    /\ \/ fplan' = [steps |-> generatePlan(fpkg), generator |-> "package"]
       \/ LET r == resolve(fpkg, fdev)
          IN  r.ok /\ fplan' = [steps |-> generateFromResolved(r, fpkg), generator |-> "resolved"]
       \/ fsrc.kind = "hand" /\ fplan' = [steps |-> <<Step("ErasePartition", "boot", "", FALSE)>>, generator |-> "none"]
    /\ UNCHANGED <<fsrc, fpkg, fdev, fjobs, fexec>>

beginPlan ==
    /\ fplan # NoPlan /\ fexec.pc = "idle"
    /\ \E device \in BOOLEAN :
          fexec' = [fexec EXCEPT !.pc = IF fexec.cancelled THEN "cancelled" ELSE "step", !.k = 1, !.device = device,
                                 !.created = 0, !.failed = 0]
    /\ UNCHANGED <<fsrc, fpkg, fdev, fplan, fjobs>>

\* One turn of the loop of executePlan().
planStep ==
    /\ fexec.pc = "step"
    /\ LET steps == fplan.steps
           step  == steps[fexec.k]
           fails == StepFails(step, fexec.device)
       IN  IF fexec.k > Len(steps) THEN fexec' = [fexec EXCEPT !.pc = "ok"] /\ UNCHANGED fjobs
           ELSE IF fexec.cancelled THEN fexec' = [fexec EXCEPT !.pc = "cancelled"] /\ UNCHANGED fjobs
           ELSE IF fails /\ ~step.optional
           THEN fexec' = [fexec EXCEPT !.pc = "error", !.failed = @ + 1] /\ UNCHANGED fjobs
           ELSE /\ fjobs' = fjobs \o JobOf(step, fexec.device)
                /\ fexec' = [fexec EXCEPT !.k = @ + 1, !.created = @ + 1,
                                          !.failed = @ + (IF fails THEN 1 ELSE 0)]
    /\ UNCHANGED <<fsrc, fpkg, fdev, fplan>>

cancelContext ==
    /\ fplan # NoPlan /\ ~fexec.cancelled
    /\ fexec' = [fexec EXCEPT !.cancelled = TRUE]
    /\ UNCHANGED <<fsrc, fpkg, fdev, fplan, fjobs>>

FNext == ReadPackage \/ loadImageData \/ MakePlan \/ beginPlan \/ planStep \/ cancelContext

------------------------------------------------------------------------------
(* Properties.                                                             *)

Jobs(kind) == {i \in 1..Len(fjobs) : fjobs[i].kind = kind}

\* The GPT is written before any partition, and a partition is verified only
\* after it has been flashed, against the data it was flashed with, also when
\* the plan fails or is cancelled half way.
JobsInOrder ==
    /\ \A g \in Jobs("gpt"), i \in Jobs("flash") \cup Jobs("verify") : g < i
    /\ \A v \in Jobs("verify") : \E i \in Jobs("flash") :
          i < v /\ fjobs[i].part = fjobs[v].part /\ fjobs[i].data = fjobs[v].data

\* A package from a directory or the generator that passes even the weakest
\* validation flashes no partition twice.
NoCollision ==
    (fsrc.kind \in {"folder", "template"} /\ validatePackage(fpkg, 0)) =>
        \A i, j \in Jobs("flash") : i # j => fjobs[i].part # fjobs[j].part

\* A directory whose plan was carried out has had every named entry whose file
\* is there flashed to its partition, the programmer and the GPT excepted.
ArrivesWhole ==
    (fsrc.kind = "folder" /\ fplan.generator # "none" /\ fexec.pc = "ok" /\ fexec.device) =>
        \A i \in 1..Len(fsrc.dir.entries) :
            LET m     == EntryImage(fsrc.dir.entries[i], fsrc.dir.files)
                first == \A k \in 1..(i - 1) :
                            LET n == EntryImage(fsrc.dir.entries[k], fsrc.dir.files)
                            IN  n.name = m.name => n.data = ""
            IN  (m.name # "" /\ m.data # "" /\ first /\ m.type \notin {"Programmer", "GPT"}) =>
                    \E j \in Jobs("flash") : fjobs[j].part = m.part /\ fjobs[j].data = m.data

\* What the resolver accepts for a device, the validator does not refuse for
\* its vendor; what the template breaks in vendor, partitions, hashes or
\* dependencies, it refuses.
FaultsAreSeen ==
    /\ (fsrc.kind # "none" /\ matchVendor(fpkg, fdev)) => vendorFits(fpkg, fdev)
    /\ fsrc.kind = "template" =>
          LET t == fsrc.t
              n == t.missing
          IN  (\/ t.corrupt \/ (t.badVendor /\ fdev.vendor # "UNKNOWN_VENDOR")
               \/ (t.duplicate = "boot" /\ t.imageCount >= 2 /\ n \cap {"boot", "system"} = {})
               \/ (t.badHashes /\ fpkg.images # <<>>)
               \/ \E i \in 1..Len(t.deps) : t.deps[i].required) => ~validateForDevice(fpkg, fdev)

\* A firmware package becomes the jobs its manifest stands for.
FirmwareIsExact == JobsInOrder /\ NoCollision /\ ArrivesWhole /\ FaultsAreSeen

(* What the code does not keep.                                              *)

\* An entry whose file is missing makes the package incomplete.
MissingIsSeen ==
    fsrc.kind = "folder" =>
        ((\E i \in 1..Len(fsrc.dir.entries) : EntryImage(fsrc.dir.entries[i], fsrc.dir.files).data = "")
            => ~validatePackage(fpkg, 3))

\* A package without a partition name does not collide with another either.
NoCollisionAtAll ==
    (fsrc.kind # "none" /\ validatePackage(fpkg, 3)) =>
        \A i, j \in Jobs("flash") : i # j => fjobs[i].part # fjobs[j].part

\* The validator and the resolver agree on wildcards.
WildcardsAgree == (fsrc.kind # "none" /\ fpkg.vendor # "" /\ vendorFits(fpkg, fdev)) => matchVendor(fpkg, fdev)

\* A raw file can be resolved for some device.
RawResolves == fsrc.kind = "raw" => \E dev \in DeviceSpecs : resolve(fpkg, dev).ok
=============================================================================
