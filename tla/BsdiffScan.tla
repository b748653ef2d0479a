------------------------------ MODULE BsdiffScan ------------------------------
(***************************************************************************)
(* What bsdiff computes (bsdiff/diff.go, psa.go, math.go): a search in the *)
(* partitioned suffix array of the old file, the matches of one block of   *)
(* the new file, and the control messages for them.  Indices are those of  *)
(* the code, from 0; reading outside a file is an error TLC reports.       *)
(***************************************************************************)
EXTENDS Integers, Sequences, FiniteSets, SequencesExt

CONSTANTS
  Slack,    \* how much better than the current offset a match must be (8 in the code)
  Values    \* bytes are numbers below this (256 in the code)

ASSUME SlackAssumption == Slack \in Nat

ASSUME ValuesAssumption == Values \in Nat \ {0}

Bytes == 0 .. Values - 1

At(s, i) == s[i + 1]

From(s, i) == SubSeq(s, i + 1, Len(s))

Slice(s, i, j) == SubSeq(s, i + 1, j)

Lesser(a, b) == IF a < b THEN a ELSE b

\* Where the score is best, the first of equals.
Best(score) ==
  CHOOSE i \in DOMAIN score : \A j \in DOMAIN score : score[j] < score[i] \/ (score[j] = score[i] /\ i <= j)
-----------------------------------------------------------------------------
(* The suffix array *)

MatchLen(a, b) ==
  CHOOSE m \in 0 .. Lesser(Len(a), Len(b)) :
    /\ \A i \in 1 .. m : a[i] = b[i]
    /\ m < Lesser(Len(a), Len(b)) => a[m + 1] # b[m + 1]

Less(a, b) ==
  LET m == MatchLen(a, b)
  IN m < Len(b) /\ (m = Len(a) \/ a[m + 1] < b[m + 1])

\* A suffix goes after those that are less than it.
PutIn(suffixes, text, i) ==
  InsertAt(suffixes, Cardinality({k \in DOMAIN suffixes : Less(From(text, suffixes[k]), From(text, i))}) + 1, i)

SuffixArray(text) ==
  LET first[n \in 0 .. Len(text)] == IF n = 0 THEN << >> ELSE PutIn(first[n - 1], text, n - 1)
  IN first[Len(text)]

\* A part of the old file with its suffixes in order.
Part(old, st, en) ==
  [at |-> st, text |-> Slice(old, st, en), suffixes |-> SuffixArray(Slice(old, st, en))]

\* The old file in p parts, the last the longest.
NewPSA(old, p) ==
  LET n == Len(old) \div p
  IN [i \in 1 .. p |-> Part(old, (i - 1) * n, IF i = p THEN Len(old) ELSE i * n)]

Suffix(part, i) == From(part.text, At(part.suffixes, i))

\* A step of the binary search between st and en, if they are not next to each other.
Halved(part, target, r) ==
  LET x == r.st + (r.en - r.st) \div 2
  IN IF r.en - r.st < 2 THEN r
     ELSE IF Less(Suffix(part, x), target) THEN [r EXCEPT !.st = x]
     ELSE [r EXCEPT !.en = x]

Found(part, target, i) == [pos |-> At(part.suffixes, i), n |-> MatchLen(Suffix(part, i), target)]

\* Fewer halvings than the text has bytes bring st and en together.
Search(part, target) ==
  LET range[k \in 0 .. Len(part.text)] ==
        IF k = 0 THEN [st |-> 0, en |-> Len(part.text)] ELSE Halved(part, target, range[k - 1])
      st == range[Len(part.text)].st
      en == range[Len(part.text)].en
  IN IF en >= Len(part.text) \/ Found(part, target, st).n > Found(part, target, en).n
       THEN Found(part, target, st)
     ELSE Found(part, target, en)

\* The longest of the parts' matches, the first of equals.
SearchAll(psa, target) ==
  LET found == [i \in 1 .. Len(psa) |-> Search(psa[i], target)]
      best == Best([i \in 0 .. Len(psa) |-> IF i = 0 THEN 0 ELSE found[i].n])
  IN IF best = 0 THEN [pos |-> 0, n |-> 0]
     ELSE [pos |-> psa[best].at + found[best].pos, n |-> found[best].n]
-----------------------------------------------------------------------------
(* analyzeBlock *)

\* From scan on, the first place with a match (found has that of every place) that is
\* exactly as good as the current offset, or better by more than Slack.  How good the
\* offset is: at how many of the places not yet passed that a match has reached it
\* makes old and new agree, less the unreached ones passed.
NextMatch(old, new, found, offset, scan) ==
  LET Agrees(i) == i + offset < Len(old) /\ At(old, i + offset) = At(new, i)
      Reached(i) == {k \in scan .. Len(new) - 1 : Agrees(k) /\ \E j \in scan .. i : k < j + found[j].n}
      Passed(i) == {k \in scan .. i - 1 : Agrees(k)}
      score == [i \in scan .. Len(new) - 1 |-> Cardinality(Reached(i)) - Cardinality(Passed(i))]
      Good(i) == (found[i].n = score[i] /\ found[i].n # 0) \/ found[i].n > score[i] + Slack
      stops == {i \in scan .. Len(new) - 1 : Good(i)}
      stop == CHOOSE i \in stops : \A j \in stops : i <= j
  IN IF stops = {}
       THEN [scan |-> Len(new), pos |-> found[Len(new) - 1].pos, n |-> found[Len(new) - 1].n, better |-> TRUE]
     ELSE [scan |-> stop, pos |-> found[stop].pos, n |-> found[stop].n, better |-> found[stop].n # score[stop]]

\* Mutant: what both matches claim is left to both.
OverlapKept(old, new, last, m, lenf, lenb) == [f |-> lenf, b |-> lenb]

\* Where the last match, extended by lenf, overlaps the next one, extended back by
\* lenb, the split with the most agreement is taken.
Overlap(old, new, last, m, lenf, lenb) ==
  LET n == (last.scan + lenf) - (m.scan - lenb)
      fore == {i \in 0 .. n - 1 : At(new, last.scan + lenf - n + i) = At(old, last.pos + lenf - n + i)}
      back == {i \in 0 .. n - 1 : At(new, m.scan - lenb + i) = At(old, m.pos - lenb + i)}
      split == Best([i \in 0 .. n |-> Cardinality(fore \cap 0 .. i - 1) - Cardinality(back \cap 0 .. i - 1)])
  IN IF n > 0 THEN [f |-> lenf + split - n, b |-> lenb - split] ELSE [f |-> lenf, b |-> lenb]

\* How far the last match goes on, and how far back the next one reaches.
Extended(old, new, last, m) ==
  LET f == Lesser(m.scan - last.scan, Len(old) - last.pos)
      b == IF m.scan < Len(new) THEN Lesser(m.scan - last.scan, m.pos) ELSE 0
      fore == {i \in 0 .. f - 1 : At(old, last.pos + i) = At(new, last.scan + i)}
      back == {i \in 0 .. b - 1 : At(old, m.pos - i - 1) = At(new, m.scan - i - 1)}
      Gain(same, n) == [i \in 0 .. n |-> 2 * Cardinality(same \cap 0 .. i - 1) - i]
  IN Overlap(old, new, last, m, Best(Gain(fore, f)), Best(Gain(back, b)))

\* A turn of the loop: the place to scan from is where the last search's match ends;
\* g.last is where the last match began, and its offset.
ScanOn(old, new, found, at, g) ==
  LET scan == g.scan + g.n
      m == IF scan = Len(new) THEN [scan |-> scan, pos |-> g.pos, n |-> g.n, better |-> TRUE]
           ELSE NextMatch(old, new, found, g.last.offset, scan)
      len == Extended(old, new, g.last, m)
      next == [g EXCEPT !.scan = m.scan, !.pos = m.pos, !.n = m.n]
  IN IF g.scan = Len(new) THEN g
     ELSE IF ~m.better THEN next
     ELSE [next EXCEPT !.last = [scan |-> m.scan - len.b, pos |-> m.pos - len.b, offset |-> m.pos - m.scan],
                       !.matches = Append(@, [addOldStart |-> g.last.pos, addNewStart |-> g.last.scan + at,
                                              addLength |-> len.f, copyEnd |-> m.scan - len.b + at])]

\* The matches of a block at the given place of the new file; every turn passes a byte.
AnalyzeBlock(old, psa, new, at) ==
  LET found == [i \in 0 .. Len(new) - 1 |-> SearchAll(psa, From(new, i))]
      turn[k \in 0 .. Len(new) + 1] ==
        IF k = 0 THEN [scan |-> 0, pos |-> 0, n |-> 0, last |-> [scan |-> 0, pos |-> 0, offset |-> 0],
                       matches |-> << >>]
        ELSE ScanOn(old, new, found, at, turn[k - 1])
  IN turn[Len(new) + 1].matches
-----------------------------------------------------------------------------
(* Control messages *)

\* writeMessages: a match is written once the next one tells where to seek.
Controls(old, new, ms) ==
  [k \in DOMAIN ms |->
    [add |-> [i \in 1 .. ms[k].addLength |->
                (At(new, ms[k].addNewStart + i - 1) - At(old, ms[k].addOldStart + i - 1)) % Values],
     copy |-> Slice(new, ms[k].addNewStart + ms[k].addLength, ms[k].copyEnd),
     seek |-> IF k = Len(ms) THEN 0
              ELSE ms[k + 1].addOldStart - (ms[k].addOldStart + ms[k].addLength)]]

\* The reference: what bsdiff/patch.go makes of a message, and of all of them.
Apply(old, s, c) ==
  [out |-> s.out \o [i \in DOMAIN c.add |-> (At(old, s.at + i - 1) + c.add[i]) % Values] \o c.copy,
   at |-> s.at + Len(c.add) + c.seek]

Applied(old, controls) ==
  LET after[k \in 0 .. Len(controls)] ==
        IF k = 0 THEN [out |-> << >>, at |-> 0] ELSE Apply(old, after[k - 1], controls[k])
  IN after[Len(controls)].out
=============================================================================
