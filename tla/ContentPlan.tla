---------------------------- MODULE ContentPlan -----------------------------
(***************************************************************************)
(* From the bytes of a file to the byte ranges stored for embedding and    *)
(* back: ingest reads a bounded UTF-8 prefix (worker/ingest.rs) and splits *)
(* it at structural breakpoints (worker/chunking.rs); the embed handler    *)
(* later reads a shorter prefix of the same file and slices it by the      *)
(* stored ranges (worker/embed_document.rs).                               *)
(*                                                                         *)
(* A byte is one of                                                        *)
(*   "a"  ASCII text        "n"  newline       "0"  NUL                    *)
(*   "#"  a heading marker  "-"  a list marker "f"  a code fence marker    *)
(*   "2", "3"  the first byte of a two- or three-byte scalar               *)
(*   "c"  a continuation byte                                              *)
(* A marker counts at the start of a line and stands for the few           *)
(* characters that spell it.  Offsets count bytes, from 0.                 *)
(***************************************************************************)
EXTENDS Naturals, Sequences, FiniteSetsExt

CONSTANTS
  Files,       \* the files to plan, as sequences of bytes
  Budgets,     \* CONTENT_BYTE_BUDGET
  Chunkings,   \* [size, overlap] of the models; config.rs demands overlap < size
  Probe        \* CONTENT_PROBE_BYTES

Bytes == {"a", "n", "0", "#", "-", "f", "2", "3", "c"}

ASSUME FilesAssumption == Files \subseteq Seq(Bytes)

ASSUME ChunkingAssumption ==
  /\ Budgets \subseteq Nat /\ Probe \in Nat
  /\ \A c \in Chunkings : c.size \in Nat \ {0} /\ c.overlap \in Nat /\ c.overlap < c.size

Utf8MaxScalarBytes == 4

VARIABLES
  file, budget, chunking,   \* the input
  pc,                       \* read, scan, split, planned, prepared or rejected
  len,                      \* length of the content; 0 when there is none
  line, inFence, breaks,    \* scan_breakpoints: line start, fence, [pos, score] found
  start, spans              \* the splitting loop: next start, ranges so far

vars == <<file, budget, chunking, pc, len, line, inFence, breaks, start, spans>>
input == <<file, budget, chunking>>

-----------------------------------------------------------------------------
(* UTF-8 as std::str sees it.                                               *)

Width(b) == CASE b = "2" -> 2 [] b = "3" -> 3 [] OTHER -> 1

\* The first n bytes are valid: every lead byte has its continuation bytes, and
\* every continuation byte its lead.
ValidUtf8(n) ==
  \A i \in 1..n :
    IF file[i] # "c"
    THEN /\ i + Width(file[i]) - 1 <= n
         /\ \A j \in (i + 1)..(i + Width(file[i]) - 1) : file[j] = "c"
    ELSE \E j \in 1..(i - 1) : /\ file[j] # "c" /\ i < j + Width(file[j])
                               /\ \A k \in (j + 1)..i : file[k] = "c"

\* Utf8Error::valid_up_to, and error_len() = None: the bytes end inside a scalar.
ValidUpTo(n) == Max({m \in 0..n : ValidUtf8(m)})
EndsInsideScalar(n) ==
  LET v == ValidUpTo(n) IN
  /\ v < n /\ file[v + 1] # "c" /\ n - v < Width(file[v + 1])
  /\ \A j \in (v + 2)..n : file[j] = "c"

\* str::is_char_boundary for a content of n bytes.
IsBoundary(i, n) == i = 0 \/ i = n \/ (i < n /\ file[i + 1] # "c")

FloorCharBoundary(i, n) == Max({k \in 0..n : k <= i /\ IsBoundary(k, n)})
CeilCharBoundary(i, n)  == Min({k \in 0..n : IsBoundary(k, n) /\ (k >= i \/ k = n)})

Least(a, b) == IF a < b THEN a ELSE b
SatSub(a, b) == IF a < b THEN 0 ELSE a - b

-----------------------------------------------------------------------------
(* read_content_prefix_with_budget.                                         *)

\* Mutant of ReadPrefix: an incomplete scalar always counts as not UTF-8.
ReadPrefixStrict(b) ==
  LET got == Least(Len(file), b + Utf8MaxScalarBytes - 1) IN
  IF \E i \in 1..Least(got, Probe) : file[i] = "0" THEN 0
  ELSE IF b = 0 THEN 0
  ELSE IF ValidUtf8(got) THEN FloorCharBoundary(Least(got, b), got)
  ELSE 0

\* Mutant of ReadPrefix: the budget cuts the bytes, wherever that is.
ReadPrefixUnfloored(b) ==
  LET got == Least(Len(file), b + Utf8MaxScalarBytes - 1) IN
  IF \E i \in 1..Least(got, Probe) : file[i] = "0" THEN 0
  ELSE IF b = 0 THEN 0
  ELSE IF ValidUtf8(got) THEN Least(got, b)
  ELSE IF EndsInsideScalar(got) /\ Len(file) > got THEN Least(ValidUpTo(got), b)
  ELSE 0

\* The number of bytes kept under budget b: 0 for a binary file, for a file that
\* is not UTF-8 as far as it was read, and for an empty one.
ReadPrefix(b) ==
  LET got == Least(Len(file), b + Utf8MaxScalarBytes - 1) IN
  IF \E i \in 1..Least(got, Probe) : file[i] = "0" THEN 0
  ELSE IF b = 0 THEN 0
  ELSE IF ValidUtf8(got) THEN FloorCharBoundary(Least(got, b), got)
  ELSE IF EndsInsideScalar(got) /\ Len(file) > got
       THEN FloorCharBoundary(Least(ValidUpTo(got), b), ValidUpTo(got))
  ELSE 0

-----------------------------------------------------------------------------
(* structure_chunks.                                                        *)

\* push_breakpoint.
Push(B, p, s) == IF p = 0 \/ p >= len THEN B ELSE B \cup {[pos |-> p, score |-> s]}

\* The line that begins at byte offset l, without its newline.
LineEnd(l) == Min({k \in l..len : k = len \/ file[k + 1] = "n"})
NextLine(l) == Least(LineEnd(l) + 1, len)

BreakWindow == Max({chunking.size \div 2, 1})

\* decayed_score: score / (1 + 0.7 (distance/window)^2), compared as fractions.
ScoreAtLeast(b, c, target) ==
  LET Decay(x) == 10 * BreakWindow * BreakWindow + 7 * (target - x.pos) * (target - x.pos)
  IN b.score * Decay(c) >= c.score * Decay(b)

\* The candidates of best_breakpoint and those it may return; max_by keeps the
\* last of several maxima, and breakpoints are found in order of position.
Candidates(s, target) ==
  {b \in breaks : b.pos > s /\ b.pos <= target /\ b.pos >= SatSub(target, BreakWindow)}
BestBreakpoint(s, target) ==
  Max({b.pos : b \in {x \in Candidates(s, target) :
                        \A y \in Candidates(s, target) : ScoreAtLeast(x, y, target)}})

\* Mutant of FixedEnd: the end is not moved to a scalar boundary.
FixedEndUnfloored(s) == Least(s + chunking.size, len)

\* fixed_end, and the end chosen by fixed_utf8_chunks.
FixedEnd(s) ==
  LET e == FloorCharBoundary(Least(s + chunking.size, len), len) IN
  IF e > s THEN e ELSE CeilCharBoundary(s + 1, len)

\* The end chosen by structure_chunks.
StructureEnd(s) ==
  LET target == Least(s + chunking.size, len) IN
  IF target >= len THEN len
  ELSE IF Candidates(s, target) # {} THEN BestBreakpoint(s, target)
  ELSE FixedEnd(s)

ChunkEnd(s) == IF breaks = {} THEN FixedEnd(s) ELSE StructureEnd(s)

\* Mutant of NextStart: the overlap is rounded up, past the end.
NextStartSkips(s, e) == CeilCharBoundary(e - chunking.overlap + 1, len)

\* Where the next chunk begins: back by the overlap, but always forward.
NextStart(s, e) ==
  LET n == FloorCharBoundary(SatSub(e, chunking.overlap), len) IN
  IF n > s THEN n ELSE CeilCharBoundary(s + 1, len)

-----------------------------------------------------------------------------
Init ==
  /\ file \in Files /\ budget \in Budgets /\ chunking \in Chunkings
  /\ pc = "read" /\ len = 0
  /\ line = 0 /\ inFence = FALSE /\ breaks = {}
  /\ start = 0 /\ spans = <<>>

\* Read the prefix; plan_pending_embeddings_for_content and the early returns.
ReadContent ==
  /\ pc = "read"
  /\ len' = ReadPrefix(budget)
  /\ CASE len' = 0 -> pc' = "planned" /\ UNCHANGED spans
       [] len' > 0 /\ chunking.size >= len' ->
            pc' = "planned" /\ spans' = <<[from |-> 0, to |-> len']>>
       [] OTHER -> pc' = "scan" /\ UNCHANGED spans
  /\ UNCHANGED <<input, line, inFence, breaks, start>>

\* Mutant of ScanFence: `continue` without advancing to the next line.
ScanFenceStuck ==
  /\ pc = "scan" /\ line < len /\ file[line + 1] = "f"
  /\ breaks' = Push(breaks, line, 80)
  /\ inFence' = ~inFence
  /\ UNCHANGED <<input, pc, len, line, start, spans>>

\* scan_breakpoints, a line that opens or closes a code fence.
ScanFence ==
  /\ pc = "scan" /\ line < len /\ file[line + 1] = "f"
  /\ breaks' = Push(breaks, line, 80)
  /\ inFence' = ~inFence
  /\ line' = NextLine(line)
  /\ UNCHANGED <<input, pc, len, start, spans>>

\* scan_breakpoints, any other line; inside a fence it is only skipped.
ScanLine ==
  /\ pc = "scan" /\ line < len /\ file[line + 1] # "f"
  /\ LET next == NextLine(line)
         marked == CASE file[line + 1] = "#" -> Push(breaks, line, 100)
                     [] file[line + 1] = "-" -> Push(breaks, line, 5)
                     [] LineEnd(line) = line -> Push(breaks, next, 20)
                     [] OTHER -> breaks
     IN /\ breaks' = IF inFence THEN breaks ELSE Push(marked, next, 1)
        /\ line' = next
  /\ UNCHANGED <<input, pc, len, inFence, start, spans>>

ScanDone ==
  /\ pc = "scan" /\ line >= len
  /\ pc' = "split"
  /\ UNCHANGED <<input, len, line, inFence, breaks, start, spans>>

\* One iteration of the splitting loop.
Split ==
  /\ pc = "split"
  /\ LET e == ChunkEnd(start) IN
     /\ spans' = Append(spans, [from |-> start, to |-> e])
     /\ IF e >= len THEN pc' = "planned" /\ UNCHANGED start
                    ELSE start' = NextStart(start, e) /\ UNCHANGED pc
  /\ UNCHANGED <<input, len, line, inFence, breaks>>

\* prepare_embedded_chunks on the unchanged file: read as far as the last range
\* ends, then check every stored range against what was read.
Prepare ==
  /\ pc = "planned"
  /\ LET n == IF spans = <<>> THEN 0
              ELSE ReadPrefix(Max({spans[i].to : i \in DOMAIN spans}))
         Fits(r) == /\ r.from <= r.to /\ r.to <= n
                    /\ IsBoundary(r.from, n) /\ IsBoundary(r.to, n)
     IN pc' = IF \A i \in DOMAIN spans : n > 0 /\ Fits(spans[i])
              THEN "prepared" ELSE "rejected"
  /\ UNCHANGED <<input, len, line, inFence, breaks, start, spans>>

\* The handler is through with the file.
Finished == pc \in {"prepared", "rejected"} /\ UNCHANGED vars

Next ==
  \/ ReadContent \/ ScanFence \/ ScanLine \/ ScanDone \/ Split \/ Prepare
  \/ Finished

Spec == Init /\ [][Next]_vars

-----------------------------------------------------------------------------
(* Properties.                                                              *)

\* The content is what a reader of the whole file would cut off: nothing if the
\* bytes read hold a NUL early on or cannot begin a valid file, else the longest
\* run of whole scalars within the budget.  In particular no file is rejected
\* because the read limit falls inside a scalar, and none is accepted that ends
\* inside one.
PrefixIsExact ==
  pc # "read" =>
    LET got == Least(Len(file), budget + Utf8MaxScalarBytes - 1)
        binary == \E i \in 1..Least(got, Probe) : file[i] = "0"
        whole == \A i \in 1..got :
                   file[i] # "c" =>
                     \A j \in (i + 1)..(i + Width(file[i]) - 1) :
                       IF j <= got THEN file[j] = "c" ELSE got < Len(file)
        owned == \A i \in 1..got :
                   file[i] = "c" => \E j \in 1..i : file[j] # "c" /\ i < j + Width(file[j])
    IN len = IF binary \/ ~whole \/ ~owned THEN 0
             ELSE Max({m \in 0..Least(got, budget) : ValidUtf8(m)})

\* Every range is non-empty, lies on scalar boundaries, and exceeds chunk_size
\* only if it is a single scalar that is wider; starts strictly increase, so no
\* two ranges collide on the unique index of document_embeddings.
RangesWellFormed ==
  /\ \A i \in DOMAIN spans :
       LET r == spans[i] IN
       /\ r.from < r.to /\ r.to <= len
       /\ IsBoundary(r.from, len) /\ IsBoundary(r.to, len)
       /\ r.to - r.from <= chunking.size \/ r.to = CeilCharBoundary(r.from + 1, len)
  /\ \A i, j \in DOMAIN spans : i < j => spans[i].from < spans[j].from

\* Nothing of the content is lost between two ranges, before the first or after
\* the last.
RangesCoverContent ==
  pc \in {"planned", "prepared", "rejected"} /\ len > 0 =>
    \A k \in 0..(len - 1) : \E i \in DOMAIN spans : spans[i].from <= k /\ k < spans[i].to

\* embed_document.rs reads with another budget than ingest did: as long as the
\* file is unchanged, every planned range is accepted.
PlanSurvivesReread == pc # "rejected"

\* Every iteration of the two loops moves on: line_start through the lines, the
\* next start through the content.  Both are bounded by the content's length, so
\* the loops end for every content and every accepted configuration.
LoopsAdvance ==
  [][/\ pc = "scan" /\ pc' = "scan" => line' > line
     /\ pc = "split" /\ pc' = "split" => start' > start]_vars

=============================================================================
