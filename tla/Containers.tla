----------------------------- MODULE Containers -----------------------------
(***************************************************************************)
(* The bounded slice of a model file (har-package-slice, its extract,      *)
(* verify and reconstruct commands) and the package built from it          *)
(* (har-model-package).  The commands are processes of their own: the      *)
(* model file may be replaced, and a slice rewritten in place, between any *)
(* two steps of a reader; a writer may stop anywhere.  A digest is the     *)
(* value it is taken of.                                                   *)
(***************************************************************************)
EXTENDS Integers, SequencesExt

CONSTANTS Spans,        \* the rows' bytes in each version of the model file
          Pins,         \* package roots an extraction may pin; Unpinned for none
          Unpinned,
          MaxExtractions

ASSUME ContainerAssumption == /\ Spans \in Seq(STRING) /\ Spans # <<>>
                              /\ MaxExtractions \in Nat /\ Unpinned \in Pins

VARIABLES source,   \* version of the model file
          slice,    \* the slice file: what the last writer writes, and how much of it is there
          package,  \* the reconstructed package file
          extract, verify, rebuild, \* the three processes
          written   \* the slices completely written so far
cvars == <<source, slice, package, extract, verify, rebuild, written>>

NoFile == [manifest |-> Unpinned, payload |-> Unpinned, parts |-> 0]
Idle == [at |-> "idle"]

-----------------------------------------------------------------------------
(* Another program installs another version of the model.                   *)
ReplaceSource ==
    /\ source < Len(Spans)
    /\ source' = source + 1
    /\ UNCHANGED <<slice, package, extract, verify, rebuild, written>>

(* cmd_extract: the digest of the file is taken by the inspection, the rows *)
(* are read through another handle.                                         *)
Inspect ==
    /\ extract.at = "idle" /\ Len(written) < MaxExtractions
    /\ \E pin \in Pins : extract' = [at |-> "inspected", root |-> source, pin |-> pin]
    /\ UNCHANGED <<source, slice, package, verify, rebuild, written>>

ReadRows ==
    /\ extract.at = "inspected"
    /\ extract' = [at |-> "write", parts |-> 0,
                   manifest |-> [root |-> extract.root, pin |-> extract.pin, sum |-> Spans[source]],
                   payload |-> Spans[source]]
    /\ UNCHANGED <<source, slice, package, verify, rebuild, written>>

(* write_unbounded: the file is truncated, then header, manifest, padding   *)
(* and payload are written one after another.                               *)
WritePart ==
    /\ extract.at = "write" /\ extract.parts <= 4
    /\ slice' = [manifest |-> extract.manifest, payload |-> extract.payload, parts |-> extract.parts]
    /\ IF extract.parts = 4
       THEN /\ written' = Append(written, [manifest |-> extract.manifest, payload |-> extract.payload])
            /\ extract' = Idle
       ELSE extract' = [extract EXCEPT !.parts = @ + 1] /\ UNCHANGED written
    /\ UNCHANGED <<source, package, verify, rebuild>>

(* The process is stopped; what it has written stays.                       *)
StopWriter ==
    /\ extract.at # "idle"
    /\ extract' = Idle
    /\ UNCHANGED <<source, slice, package, verify, rebuild, written>>

-----------------------------------------------------------------------------
(* SliceReader::open, in its four reads: the length, the header, the        *)
(* manifest, the payload.  A read past the end fails, and so does a         *)
(* checksum.  All slices of one tensor range have one length.               *)
\* Variant: the payload is not hashed.
OpenStepUnhashed(job) ==
    CASE job.at = "idle" -> IF slice.parts = 4 THEN [at |-> "sized"] ELSE Idle
      [] job.at = "sized" ->
            IF slice.parts >= 1
            THEN [at |-> "header", manifest |-> slice.manifest, payload |-> slice.payload] ELSE Idle
      [] job.at = "header" ->
            IF slice.parts >= 2 /\ slice.manifest = job.manifest
            THEN [job EXCEPT !.at = "manifest"] ELSE Idle
      [] job.at = "manifest" ->
            IF slice.parts = 4 THEN [job EXCEPT !.at = "open", !.payload = slice.payload] ELSE Idle

OpenStep(job) ==
    CASE job.at = "idle" -> IF slice.parts = 4 THEN [at |-> "sized"] ELSE Idle
      [] job.at = "sized" ->
            IF slice.parts >= 1
            THEN [at |-> "header", manifest |-> slice.manifest, payload |-> slice.payload] ELSE Idle
      [] job.at = "header" ->
            IF slice.parts >= 2 /\ slice.manifest = job.manifest
            THEN [job EXCEPT !.at = "manifest"] ELSE Idle
      [] job.at = "manifest" ->
            IF slice.parts = 4 /\ slice.payload = job.payload /\ slice.payload = job.manifest.sum
            THEN [job EXCEPT !.at = "open"] ELSE Idle

Opening(job) == job.at \in {"idle", "sized", "header", "manifest"}

(* cmd_verify with --source: the payload is read again through the path,    *)
(* then the digest of the model file, then its rows.                        *)
VerifyStep ==
    /\ verify' =
         CASE Opening(verify) -> OpenStep(verify)
           [] verify.at = "open" ->
                 IF slice.parts = 4
                 THEN [at |-> "read", manifest |-> verify.manifest, payload |-> slice.payload]
                 ELSE Idle
           [] verify.at = "read" ->
                 IF source = verify.manifest.root THEN [verify EXCEPT !.at = "inspected"] ELSE Idle
           [] verify.at = "inspected" ->
                 IF Spans[source] = verify.payload THEN [verify EXCEPT !.at = "pass"] ELSE Idle
           [] OTHER -> Idle
    /\ UNCHANGED <<source, slice, package, extract, rebuild, written>>

(* cmd_reconstruct: the rows are checked against the slice, then read once  *)
(* more by write_packed; the root is compared with the pinned one when the  *)
(* package is already in place.                                             *)
RebuildStep ==
    /\ rebuild' =
         CASE Opening(rebuild) -> OpenStep(rebuild)
           [] rebuild.at = "open" ->
                 IF source = rebuild.manifest.root THEN [rebuild EXCEPT !.at = "inspected"] ELSE Idle
           [] rebuild.at = "inspected" ->
                 IF Spans[source] = rebuild.manifest.sum THEN [rebuild EXCEPT !.at = "checked"] ELSE Idle
           [] rebuild.at = "checked" ->
                 [rebuild EXCEPT !.at = "write", !.payload = Spans[source]]
           [] rebuild.at = "write" ->
                 IF package.parts = 4
                 THEN IF rebuild.manifest.pin \in {Unpinned, package.payload}
                      THEN [rebuild EXCEPT !.at = "built"] ELSE Idle
                 ELSE rebuild
           [] OTHER -> Idle
    /\ package' = IF rebuild.at = "checked"
                  THEN [manifest |-> rebuild.manifest, payload |-> Spans[source], parts |-> 0]
                  ELSE IF rebuild.at = "write" /\ package.parts < 4
                       THEN [package EXCEPT !.parts = @ + 1] ELSE package
    /\ UNCHANGED <<source, slice, extract, verify, written>>

(* PackageReader::verify reads the whole file at once and accepts what has  *)
(* every byte its header promises.                                          *)
PackageAccepted == package.parts = 4

CInit == /\ source = 1 /\ slice = NoFile /\ package = NoFile
         /\ extract = Idle /\ verify = Idle /\ rebuild = Idle /\ written = <<>>

CNext == \/ ReplaceSource
         \/ Inspect
         \/ ReadRows
         \/ WritePart
         \/ StopWriter
         \/ VerifyStep
         \/ RebuildStep

-----------------------------------------------------------------------------
(***************************************************************************)
(* What the tools conclude is true of the bytes, whatever a writer does to *)
(* the file between two reads, wherever it stops, and whenever the model   *)
(* file is replaced.  A slice that opened holds the payload its manifest   *)
(* describes, and that payload was written to its end.  A package built    *)
(* under a pinned root holds the pinned bytes, and any package built while *)
(* the model file was still the slice's holds the slice's.  A payload that *)
(* passed verification against that same model file is its rows.           *)
(***************************************************************************)
ContainersSound ==
    /\ \A job \in {verify, rebuild} :
         job.at = "open" => /\ job.payload = job.manifest.sum
                            /\ \E w \in Range(written) : w.payload = job.payload
    /\ rebuild.at = "built" =>
         /\ PackageAccepted
         /\ rebuild.manifest.pin \in {Unpinned, package.payload}
         /\ source = rebuild.manifest.root => package.payload = rebuild.manifest.sum
    /\ (verify.at = "pass" /\ source = verify.manifest.root) => verify.payload = Spans[source]
=============================================================================
