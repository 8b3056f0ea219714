------------------------------- MODULE Corpus -------------------------------
(***************************************************************************)
(* How Gate A reads one JSONL shard of a text corpus: the object comes in  *)
(* chunks, lines are cut out of a buffer, and in one pass the documents    *)
(* are counted and the candidates for a text that repeats too often are    *)
(* kept (Misra and Gries); a second pass counts the candidates exactly.    *)
(* publish() counts rows through the same stream.                          *)
(*                                                                         *)
(* A byte is a line break, a space between JSON tokens, a byte that makes  *)
(* its line no JSON object, a byte that makes its document lack a usable   *)
(* text, or a piece of text.                                               *)
(***************************************************************************)
EXTENDS Naturals, SequencesExt, Sorted

CONSTANTS
    NL, Space, Bad, NoText,   \* the bytes that are no piece of text
    Pieces,                   \* the pieces of text
    MaxRecord,                \* MAX_JSONL_RECORD_BYTES
    Chunk,                    \* _CHUNK
    Shards                    \* the inputs, see ShardRecs

Bytes == {NL, Space, Bad, NoText} \cup Pieces

\* max_identical_fraction is a rational <<numerator, denominator>> in (0, 1].
Fractions == {r \in Nat \X Nat : 0 < r[1] /\ r[1] <= r[2]}
ShardRecs == [body : Seq(Bytes), declared : Nat, fraction : Nat \X Nat]

ASSUME CorpusAssumption ==
    /\ MaxRecord \in Nat
    /\ Chunk \in Nat \ {0}
    /\ Shards \subseteq ShardRecs
    /\ \A r \in Shards : r.fraction \in Nat \X Nat /\ 0 < r.fraction[1]
                                                   /\ r.fraction[1] <= r.fraction[2]

VARIABLES
    shard,       \* the object, the count its manifest declares, the profile's setting
    corpusPc,          \* "read", "split", "compare", "verify", "done"
    pos,         \* bytes read so far
    buf,         \* bytes read and not consumed
    lines,       \* the lines yielded and parsed so far
    rows,        \* documents counted
    candidates,  \* a counter for each candidate text
    codes        \* violations recorded

corpusVars == <<shard, corpusPc, pos, buf, lines, rows, candidates, codes>>

-----------------------------------------------------------------------------
IsDocument(line) == \E i \in DOMAIN line : line[i] # Space
HasText(line)    == IsDocument(line) /\ \A i \in DOMAIN line : line[i] # NoText
TextOf(line)     == SelectSeq(line, LAMBDA x : x # Space)

Checked == shard.fraction[1] < shard.fraction[2]

\* Mutant: rounds down.
SlotsFloor == LET f == shard.fraction IN Max({1, f[2] \div f[1] - 1})

\* candidate_slots = max(1, ceil(1 / max_identical_fraction) - 1)
Slots == LET f == shard.fraction IN Max({1, (f[2] + f[1] - 1) \div f[1] - 1})

AddHeavyHitter(c, t) ==
    IF t \in DOMAIN c THEN [c EXCEPT ![t] = @ + 1]
    ELSE IF Cardinality(DOMAIN c) < Slots
    THEN [u \in DOMAIN c \cup {t} |-> IF u = t THEN 1 ELSE c[u]]
    ELSE [u \in {w \in DOMAIN c : c[w] > 1} |-> c[u] - 1]

\* How many of the lines carry this text.
CountIn(ls, t) == Cardinality({i \in DOMAIN ls : HasText(ls[i]) /\ TextOf(ls[i]) = t})

-----------------------------------------------------------------------------
CorpusFresh ==
    /\ corpusPc = "read"
    /\ pos = 0
    /\ buf = <<>>
    /\ lines = <<>>
    /\ rows = 0
    /\ candidates = <<>>
    /\ codes = {}

CorpusInit == shard \in Shards /\ CorpusFresh

\* The reading raised: nothing more is checked about this shard.
Unreadable == corpusPc' = "done" /\ codes' = codes \cup {"row-read-failed"}

\* What a line that was cut out adds to the checks, when it is a JSON object or blank.
Account(line) ==
    /\ lines' = Append(lines, line)
    /\ rows' = IF IsDocument(line) THEN rows + 1 ELSE rows
    /\ codes' = IF IsDocument(line) /\ ~HasText(line) THEN codes \cup {"text-field"} ELSE codes
    /\ candidates' = IF HasText(line) /\ Checked THEN AddHeavyHitter(candidates, TextOf(line))
                     ELSE candidates

IsBad(line) == \E i \in DOMAIN line : line[i] = Bad

\* stream.read(_CHUNK): a gzip stream may return less than it was asked for.
ReadChunk ==
    /\ corpusPc = "read"
    /\ \E n \in 1 .. Min({Chunk, Len(shard.body) - pos}) :
          /\ buf' = buf \o SubSeq(shard.body, pos + 1, pos + n)
          /\ pos' = pos + n
    /\ corpusPc' = "split"
    /\ UNCHANGED <<shard, lines, rows, candidates, codes>>

Breaks(s)  == {i \in DOMAIN s : s[i] = NL}

\* The next complete line of the buffer.
NextRecord ==
    /\ corpusPc = "split"
    /\ Breaks(buf) # {}
    /\ LET i    == Min(Breaks(buf))
           line == SubSeq(buf, 1, i - 1)
       IN  IF Len(line) > MaxRecord \/ IsBad(line)
           THEN Unreadable /\ UNCHANGED <<buf, lines, rows, candidates>>
           ELSE /\ Account(line)
                /\ buf' = SubSeq(buf, i + 1, Len(buf))
                /\ corpusPc' = corpusPc
    /\ UNCHANGED <<shard, pos>>

\* Mutant: the limit is looked at only when a line is complete.
KeepTailAnyway ==
    /\ corpusPc = "split"
    /\ Breaks(buf) = {}
    /\ corpusPc' = "read"
    /\ UNCHANGED <<shard, pos, buf, lines, rows, candidates, codes>>

\* No line break is left: the tail waits for more, unless it is too long already.
KeepTail ==
    /\ corpusPc = "split"
    /\ Breaks(buf) = {}
    /\ IF Len(buf) > MaxRecord THEN Unreadable ELSE corpusPc' = "read" /\ UNCHANGED codes
    /\ UNCHANGED <<shard, pos, buf, lines, rows, candidates>>

\* Mutant: what follows the last line break is dropped.
EndOfStreamDropping ==
    /\ corpusPc = "read"
    /\ pos = Len(shard.body)
    /\ corpusPc' = "compare"
    /\ buf' = <<>>
    /\ UNCHANGED <<shard, pos, lines, rows, candidates, codes>>

\* A last line may lack its line break.
EndOfStream ==
    /\ corpusPc = "read"
    /\ pos = Len(shard.body)
    /\ IF IsBad(buf)
       THEN Unreadable /\ UNCHANGED <<buf, lines, rows, candidates>>
       ELSE /\ IF buf = <<>> THEN UNCHANGED <<lines, rows, candidates, codes>> ELSE Account(buf)
            /\ buf' = <<>>
            /\ corpusPc' = "compare"
    /\ UNCHANGED <<shard, pos>>

Compare ==
    /\ corpusPc = "compare"
    /\ codes' = codes \cup (IF shard.declared # rows THEN {"row-count-mismatch"} ELSE {})
                      \cup (IF rows = 0 THEN {"empty-shard"} ELSE {})
    /\ corpusPc' = IF Checked /\ rows >= 2 /\ DOMAIN candidates # {} THEN "verify" ELSE "done"
    /\ UNCHANGED <<shard, pos, buf, lines, rows, candidates>>

\* _verify_heavy_hitters, the second pass, counts the candidates exactly.
Verify ==
    /\ corpusPc = "verify"
    /\ LET top == Max({CountIn(lines, t) : t \in DOMAIN candidates})
       IN  codes' = IF top * shard.fraction[2] > shard.fraction[1] * rows
                    THEN codes \cup {"text-all-identical"} ELSE codes
    /\ corpusPc' = "done"
    /\ UNCHANGED <<shard, pos, buf, lines, rows, candidates>>

CorpusNext == ReadChunk \/ NextRecord \/ KeepTail \/ EndOfStream \/ Compare \/ Verify

CorpusSpec == CorpusInit /\ [][CorpusNext]_corpusVars

-----------------------------------------------------------------------------
\* Whatever the shard holds, the check's memory is bounded: by one record and one chunk for the
\* buffer and by Slots for the candidates.
CorpusTypeOK ==
    /\ shard \in Shards
    /\ corpusPc \in {"read", "split", "compare", "verify", "done"}
    /\ pos \in 0 .. Len(shard.body)
    /\ Len(buf) <= MaxRecord + Chunk
    /\ Cardinality(DOMAIN candidates) <= Slots
    /\ \A t \in DOMAIN candidates : candidates[t] \in Nat \ {0}

\* Where the lines of an object end: at its breaks, and at its end where the last break is missing.
Ends(s) == Breaks(s) \cup (IF s = <<>> \/ Last(s) = NL THEN {} ELSE {Len(s) + 1})
End(s, k) == Nth(Ends(s), k)

\* The lines of an object, read at once.
LinesOf(s) == [k \in 1 .. Cardinality(Ends(s)) |->
                  SubSeq(s, IF k = 1 THEN 1 ELSE End(s, k - 1) + 1, End(s, k) - 1)]

\* Wherever the chunks end, a shard is cut into the same lines and is found unreadable for the
\* same reason: its first line that is too long or no JSON object.
ChunkingIsInvisible ==
    LET all == LinesOf(shard.body)
    IN  /\ IsPrefix(lines, all)
        /\ corpusPc \in {"compare", "verify"} => lines = all
        /\ corpusPc = "done" =>
              IF "row-read-failed" \in codes
              THEN \E k \in DOMAIN all : /\ k = Len(lines) + 1
                                         /\ Len(all[k]) > MaxRecord \/ IsBad(all[k])
              ELSE lines = all /\ \A k \in DOMAIN all : Len(all[k]) <= MaxRecord /\ ~IsBad(all[k])

\* A readable shard is reported exactly when some text makes up more than the allowed fraction of
\* its documents, although only Slots texts are remembered.
RepeatsReported ==
    corpusPc = "done" /\ "row-read-failed" \notin codes =>
        LET all == LinesOf(shard.body)
            n   == Cardinality({i \in DOMAIN all : IsDocument(all[i])})
        IN  "text-all-identical" \in codes <=>
                /\ Checked
                /\ n >= 2
                /\ \E i \in DOMAIN all : /\ HasText(all[i])
                                         /\ CountIn(all, TextOf(all[i])) * shard.fraction[2]
                                              > shard.fraction[1] * n
=============================================================================
