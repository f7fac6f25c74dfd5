---------------------------- MODULE ReceiptScan ----------------------------
(***************************************************************************)
(* Scanning a receipt (api/v1/ocr/service.py).  The photo is cut into      *)
(* strips that overlap, each strip is read by a model behind a pool of API *)
(* keys, each with a quota of its own, and the lines that two strips show, *)
(* or that one answer lists twice, are listed once.  Scans run in threads  *)
(* and share the keys and the turn of the pool.                            *)
(***************************************************************************)
EXTENDS Naturals, Sequences, SequencesExt, FiniteSets

CONSTANTS
  NumKeys,    \* _GROQ_API_KEYS; the keys are 0 .. NumKeys - 1
  Quota,      \* requests a key serves before its window is over
  MaxRetries, \* passes over the pool after the first
  Heights,    \* of photos, in pixels
  Lookback,   \* _dedupe_boundary
  Scanners,   \* threads
  LinesOf(_, _), \* the lines a strip of a photo shows, top to bottom
  Alike(_, _) \* _is_likely_duplicate, of the descriptions of two lines

VARIABLES
  quota, \* what each key has left
  turn,  \* _key_cycle
  scan   \* what each thread is doing

TARGET_STRIP_HEIGHT == 900
STRIP_OVERLAP == 160
CHUNK_THRESHOLD == 1170
MAX_STRIPS == 10

Smaller(a, b) == IF a < b THEN a ELSE b
Larger(a, b) == IF a < b THEN b ELSE a
CeilDiv(a, b) == (a + b - 1) \div b
\* Python's round: a half goes to the even side.
RoundDiv(a, b) == LET q == a \div b  r == 2 * (a % b)
                  IN  IF r > b \/ (r = b /\ q % 2 = 1) THEN q + 1 ELSE q

\* The bands a photo of height h is cut into, each with the edges of its
\* neighbours.
SplitIntoStrips(h) ==
  IF h <= CHUNK_THRESHOLD THEN << [top |-> 0, bottom |-> h] >>
  ELSE LET n == Smaller(MAX_STRIPS, Larger(2, RoundDiv(h, TARGET_STRIP_HEIGHT)))
           step == CeilDiv(h, n)
           half == STRIP_OVERLAP \div 2
       IN  [i \in 1..Smaller(n, CeilDiv(h, step)) |->
              [top |-> IF i = 1 THEN 0 ELSE (i - 1) * step - half,
               bottom |-> Smaller(h, Smaller(h, i * step) + half)]]

DedupeSelf(items) ==
  FoldLeft(LAMBDA kept, x : IF \E k \in ToSet(kept) : Alike(x, k) THEN kept ELSE Append(kept, x),
           <<>>, items)
DedupeNothing(before, items) == items    \* mutant
DedupeBoundary(before, items) ==
  LET tail == ToSet(SubSeq(before, Larger(1, Len(before) + 1 - Lookback), Len(before)))
  IN  FoldLeft(LAMBDA kept, x : IF \E t \in tail : Alike(x, t) THEN kept ELSE Append(kept, x),
               <<>>, items)

\* Four lines in a row that begin alike: the model is stuck, and the run and
\* all that follows is cut.
CutRun(items) ==
  LET stuck == {i \in 1..Len(items) : i + 3 <= Len(items)
                                      /\ \A j \in 1..3 : items[i + j] = items[i]}
  IN  IF stuck = {} THEN items ELSE SubSeq(items, 1, (CHOOSE i \in stuck : \A j \in stuck : i <= j) - 1)

\* What the model answers for lines: them; them over again; stuck on the last.
Answers(lines) ==
  {lines, lines \o lines} \union
  {lines \o <<x, x, x>> : x \in {lines[i] : i \in {Len(lines)} \ {0}}}

Keys == 0..(NumKeys - 1)
Resting == [at |-> "idle", height |-> 0, whole |-> FALSE, strip |-> 0, start |-> 0, offset |-> 0,
            attempt |-> 0, items |-> <<>>, read |-> {}, stuck |-> FALSE,
            limited |-> TRUE, answer |-> "none"]
Key(s) == (s.start + s.offset) % NumKeys
NumStrips(s) == IF s.whole THEN 1 ELSE Len(SplitIntoStrips(s.height))

InitScan ==
  /\ quota = [k \in Keys |-> Quota]
  /\ turn = 0
  /\ scan = [t \in Scanners |-> Resting]

\* A request for the next strip starts at the next key of the pool.
Call(s, n) == [s EXCEPT !.at = "ask", !.strip = n, !.start = turn, !.offset = 0, !.attempt = 0]
Turned == (turn + 1) % NumKeys

\* whole: Pillow cannot open the photo, which is sent as it is.
Begin(t, h, whole) ==
  /\ scan[t].at = "idle"
  /\ scan' = [scan EXCEPT ![t] = Call([Resting EXCEPT !.height = h, !.whole = whole], 1)]
  /\ turn' = Turned /\ UNCHANGED quota

\* After a strip that was read or given up: the next one, or the answer.  A scan
\* with no line is unreadable.
After(t, s) ==
  IF s.strip < NumStrips(s)
  THEN scan' = [scan EXCEPT ![t] = Call(s, s.strip + 1)] /\ turn' = Turned
  ELSE /\ scan' = [scan EXCEPT ![t] = [s EXCEPT !.at = "done",
                      !.answer = IF s.items = <<>> THEN "unreadable" ELSE "items"]]
       /\ UNCHANGED turn

Read(t, answer) ==
  LET s == scan[t]
      lines == IF s.whole THEN CutRun(answer) ELSE DedupeSelf(CutRun(answer))
      fresh == IF s.strip > 1 THEN DedupeBoundary(s.items, lines) ELSE lines
  IN  /\ s.at = "ask" /\ quota[Key(s)] > 0
      /\ answer \in Answers(LinesOf(s.height, s.strip))
      /\ quota' = [quota EXCEPT ![Key(s)] = @ - 1]
      /\ After(t, [s EXCEPT !.items = @ \o fresh, !.read = @ \union {s.strip}, !.limited = FALSE,
                            !.stuck = @ \/ CutRun(answer) # answer])

\* 429: the next key; after the last one wait, or give up this strip.  Where
\* the photo was sent whole the client is told to come back.
Refuse(t) ==
  LET s == [scan[t] EXCEPT !.offset = @ + 1]
  IN  /\ s.at = "ask" /\ quota[Key(scan[t])] = 0
      /\ IF s.offset < NumKeys
         THEN scan' = [scan EXCEPT ![t] = s] /\ UNCHANGED turn
         ELSE IF s.attempt < MaxRetries
         THEN scan' = [scan EXCEPT ![t] = [s EXCEPT !.at = "wait"]] /\ UNCHANGED turn
         ELSE IF s.whole
         THEN /\ scan' = [scan EXCEPT ![t] = [s EXCEPT !.at = "done", !.answer = "limited"]]
              /\ UNCHANGED turn
         ELSE After(t, s)
      /\ UNCHANGED quota
Wake(t) ==
  /\ scan[t].at = "wait"
  /\ scan' = [scan EXCEPT ![t].at = "ask", ![t].offset = 0, ![t].attempt = @ + 1]
  /\ UNCHANGED <<quota, turn>>

\* Another HTTP error: this strip is given up; without an answer: all of them.
Err(t) ==
  LET s == [scan[t] EXCEPT !.limited = FALSE]
  IN  s.at = "ask" /\ After(t, s) /\ UNCHANGED quota
TimeOut(t) ==
  /\ scan[t].at = "ask"
  /\ scan' = [scan EXCEPT ![t].at = "done", ![t].answer = "unreadable", ![t].items = <<>>,
                          ![t].limited = FALSE]
  /\ UNCHANGED <<quota, turn>>

Refill(k) ==
  /\ quota[k] < Quota
  /\ quota' = [quota EXCEPT ![k] = Quota]
  /\ UNCHANGED <<turn, scan>>
Leave(t) ==
  /\ scan[t].at = "done"
  /\ scan' = [scan EXCEPT ![t] = Resting]
  /\ UNCHANGED <<quota, turn>>

ScanNext ==
  \/ \E t \in Scanners :
       \/ \E h \in Heights, whole \in BOOLEAN : Begin(t, h, whole)
       \/ \E a \in Answers(LinesOf(scan[t].height, scan[t].strip)) : Read(t, a)
       \/ Refuse(t) \/ Wake(t) \/ Err(t) \/ TimeOut(t) \/ Leave(t)
  \/ \E k \in Keys : Refill(k)
-----------------------------------------------------------------------------
Done(t) == scan[t].at = "done"

\* Every line of the photo, up to 160 pixels high, is whole in some strip: the
\* strips go from its top to its bottom and two neighbours share that much, or
\* the upper one has all of the rest.
WholeLines(h) ==
  LET strips == SplitIntoStrips(h)  n == Len(strips)
  IN  /\ strips[1].top = 0 /\ strips[n].bottom = h
      /\ \A i \in 1..(n - 1) : \/ strips[i].bottom - strips[i + 1].top >= STRIP_OVERLAP
                               \/ strips[i].bottom = h

\* No line is cut by all the strips that show it, and a line is listed once,
\* although two strips show it or an answer repeats it; every line of a strip
\* that was read is listed, unless the model got stuck (_dedupe_self,
\* _dedupe_boundary; a photo that is sent whole has neither).
EachLineOnce ==
  \A t \in Scanners : Done(t) /\ scan[t].answer = "items" /\ ~ scan[t].whole =>
    LET items == scan[t].items
        shown == UNION {ToSet(LinesOf(scan[t].height, i)) : i \in scan[t].read}
    IN  /\ WholeLines(scan[t].height)
        /\ Cardinality(ToSet(items)) = Len(items)
        /\ ToSet(items) \subseteq shown
        /\ scan[t].stuck \/ ToSet(items) = shown

\* A scan that was refused by every key is told to wait, and not that the
\* receipt cannot be read (process_image).
RateLimitTold ==
  \A t \in Scanners : Done(t) /\ scan[t].limited => scan[t].answer # "unreadable"
=============================================================================
