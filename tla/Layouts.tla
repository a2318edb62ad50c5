------------------------------ MODULE Layouts -------------------------------
(***************************************************************************)
(* Where the parts of a container lie: the package writer's search for an  *)
(* offset its own manifest does not move (har-model-package), the rows of  *)
(* a slice (har-package-slice), and the expert sidecar as its two readers  *)
(* see it (SidecarReader of har-model-package, AlignedSidecarStore of      *)
(* har-storage).                                                           *)
(***************************************************************************)
EXTENDS Integers, SequencesExt

CONSTANTS Unit, PackageHeader, ManifestBytes, PayloadSizes, MaxPayloads,
          SidecarOffsets, SidecarSizes, SidecarAlignments, MaxEntries

ASSUME LayoutAssumption == /\ {Unit, PackageHeader, MaxPayloads, MaxEntries} \subseteq Nat
                           /\ Unit > 0 /\ ManifestBytes \cup PayloadSizes \subseteq Nat

UpToUnit(x) == ((x + Unit - 1) \div Unit) * Unit
Lists(S, n) == UNION {[1..k -> S] : k \in 0..n}

-----------------------------------------------------------------------------
(* Payloads placed one after another, each on a unit boundary.              *)
Locations(start, sizes) ==
    FoldLeft(LAMBDA done, b : Append(done, [bytes |-> b,
                offset |-> UpToUnit(IF done = <<>> THEN start ELSE Last(done).offset + Last(done).bytes)]),
             <<>>, sizes)

(* The manifest lists the offsets in decimal.                               *)
Digits(n) == Min({d \in 1..9 : n < 10 ^ d})
Manifest(base, locations) == base + FoldSeq(LAMBDA l, n : n + Digits(l.offset), 0, locations)

Moved(base, sizes, start) == UpToUnit(PackageHeader + Manifest(base, Locations(start, sizes)))

(* PackageWriter::write: up to four trials, then one pass that must agree.  *)
(* A trial that changes nothing ends the search; so would the ones after it.*)
Layout(base, sizes) ==
    LET trial[n \in 0..4] == IF n = 0 THEN Unit ELSE Moved(base, sizes, trial[n - 1])
    IN [ok |-> Moved(base, sizes, trial[4]) = trial[4], start |-> trial[4]]

(* validate_geometry and the span cmd_extract reads for a range of rows.    *)
RowSpan(t, start, count) ==
    IF /\ t.columns > 0 /\ t.rows > 0 /\ t.columns % t.block = 0
       /\ start < t.rows /\ count > 0 /\ start + count <= t.rows
    THEN [ok |-> TRUE, offset |-> start * (t.columns \div t.block) * t.bytes,
          bytes |-> count * (t.columns \div t.block) * t.bytes]
    ELSE [ok |-> FALSE]

-----------------------------------------------------------------------------
(* A sidecar: the header's digest is the index's, zero, or another; every   *)
(* entry's own digest is right or not.                                      *)
Entry == [expert : 0..1, projection : {"gate", "up", "other"}, alignment : SidecarAlignments,
          offset : SidecarOffsets, bytes : SidecarSizes, intact : BOOLEAN]
Sidecar == [digest : {"index", "zero", "other"}, data : {Unit, 2 * Unit}, end : SidecarOffsets,
            entries : Lists(Entry, MaxEntries)]

Apart(x, y) == x.offset + x.bytes <= y.offset \/ y.offset + y.bytes <= x.offset

(* SidecarReader::verify reads the whole file and every payload.            *)
Verified(s) ==
    /\ s.digest = "index"
    /\ \A e \in Range(s.entries) :
         /\ e.alignment = Unit /\ e.offset % Unit = 0
         /\ e.offset >= s.data /\ e.offset + e.bytes <= s.end
         /\ e.intact /\ e.projection # "other"
    /\ \A i, j \in DOMAIN s.entries : i < j =>
         \/ Apart(s.entries[i], s.entries[j])
         \/ 0 \in {s.entries[i].bytes, s.entries[j].bytes}

(* AlignedSidecarStore::open reads the index only; a payload is read, and   *)
(* compared with its digest, when it is asked for.                          *)
Opened(s) == /\ s.digest \in {"index", "zero"}
             /\ \A e \in Range(s.entries) :
                  e.alignment > 0 /\ e.offset >= s.data /\ e.offset % e.alignment = 0
Served(s, e) == e.offset + e.bytes <= s.end /\ e.intact
Page(e) == <<e.expert, e.projection>>

(***************************************************************************)
(* The package writer never gives up and never writes a manifest whose     *)
(* payloads lie elsewhere: its search ends within the four trials, past    *)
(* the manifest it then writes, with every payload apart from the others   *)
(* and on a boundary.                                                      *)
(***************************************************************************)
LayoutSettles(base, sizes) ==
    LET found == Layout(base, sizes)
        at == Locations(found.start, sizes)
    IN /\ found.ok
       /\ PackageHeader + Manifest(base, at) <= found.start
       /\ found.start - (PackageHeader + Manifest(base, at)) < Unit
       /\ \A i, j \in DOMAIN at : i < j => at[i].offset % Unit = 0 /\ Apart(at[i], at[j])

(***************************************************************************)
(* A sidecar that was verified opens in the runtime store, which then      *)
(* serves every one of its entries, and no two of the payloads it serves   *)
(* share a byte.                                                           *)
(***************************************************************************)
VerifiedServes(s) ==
    Verified(s) => /\ Opened(s)
                   /\ \A e \in Range(s.entries) : Served(s, e)
                   /\ \A i, j \in DOMAIN s.entries :
                        (i # j /\ 0 \notin {s.entries[i].bytes, s.entries[j].bytes})
                            => Apart(s.entries[i], s.entries[j])

(* The rows of a slice are whole rows of its tensor and no others: two      *)
(* ranges of rows meet in the file exactly when they share a row.           *)
RowsAreRows(t) ==
    \A a, c \in 0..t.rows, b, d \in 1..t.rows :
        LET x == RowSpan(t, a, b)
            y == RowSpan(t, c, d)
        IN (x.ok /\ y.ok) => /\ x.offset + x.bytes <= (t.rows * t.columns * t.bytes) \div t.block
                             /\ (~Apart(x, y) <=> a < c + d /\ c < a + b)
=============================================================================
