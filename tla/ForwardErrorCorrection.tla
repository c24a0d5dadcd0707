------------------------ MODULE ForwardErrorCorrection ------------------------
(***************************************************************************)
(* Parity frames of one stream: the sender's lanes (fecFoldLocked), and    *)
(* the reader's accumulators, pending parities and reconstruction          *)
(* (applyFec, tryReconstructLocked), by columns and, under WithFEC2D, by   *)
(* rows.                                                                   *)
(*                                                                         *)
(* XOR is symmetric difference: what a buffer holds is the set of the      *)
(* frames XORed into it, and a length is the set of its bits.  A frame     *)
(* rebuilt from the wrong members shows as a set other than its own.       *)
(*                                                                         *)
(* Frames and parities are lost, reordered and repeated; DATA frames are   *)
(* resent for ever.  The stream is neither cancelled nor reset.            *)
(***************************************************************************)
EXTENDS Integers, Sequences, FiniteSets, FiniteSetsExt

CONSTANTS
  Plans,        \* records: g, twoD, skip, frames, short, maxBuf, pendingCap
  None

ASSUME PlansAssumption ==
  \A p \in Plans :
    /\ p.g >= 2 /\ p.twoD \in BOOLEAN
    /\ p.skip \in {0, p.g * p.g, 2 * p.g * p.g} /\ p.skip <= p.frames
    /\ p.short \subseteq 0..p.frames
    /\ p.maxBuf > 0 /\ p.pendingCap > 0

VARIABLES
  plan,       \* the configuration, and how much is sent
  writeSeq, writeFIN,
  snd,        \* fecLanes, fecRowLane and the parity frames sent
  rx,         \* the read side, guarded by readMu
  arrived,    \* DATA frames the reader took from the path
  seen        \* parity frames the reader took from the path

vars == <<plan, writeSeq, writeFIN, snd, rx, arrived, seen>>

Seqs == 0..(plan.frames - 1)
Dims == IF plan.twoD THEN {"col", "row"} ELSE {"col"}

\* The XOR of f[i] for i in I.
Xor(I, f) ==
  {e \in UNION {f[i] : i \in I} : Cardinality({i \in I : e \in f[i]}) % 2 = 1}

\* What Write puts into a frame.
Sent(seq) == [of |-> {seq}, bits |-> IF seq \in plan.short THEN {1} ELSE {2}]

len(p) == (IF 1 \in p.bits THEN 1 ELSE 0) + (IF 2 \in p.bits THEN 2 ELSE 0)

-------------------------------------------------------------------------------
(* The sender.                                                             *)

noLane == [of |-> {}, bits |-> {}, max |-> 0, count |-> 0, base |-> 0]

fold(ln, seq) ==
  [of |-> Xor({1, 2}, <<ln.of, Sent(seq).of>>),
   bits |-> Xor({1, 2}, <<ln.bits, Sent(seq).bits>>),
   max |-> Max({ln.max, len(Sent(seq))}),
   count |-> ln.count + 1,
   base |-> IF ln.count = 0 THEN seq ELSE ln.base]

Parity(d, ln) == [dim |-> d, base |-> ln.base, count |-> ln.count, of |-> ln.of,
                  bits |-> ln.bits, max |-> ln.max]

\* The lane after emitLaneLocked.
emitted(ln) == noLane

\* foldLaneLocked for lane l of dimension d.
foldLane(s, d, l, seq) ==
  LET ln == fold(s.lanes[d][l], seq)
      full == ln.count >= plan.g
  IN  [lanes |-> [s.lanes EXCEPT ![d][l] = IF full THEN emitted(ln) ELSE ln],
       parities |-> IF full THEN s.parities \cup {Parity(d, ln)} ELSE s.parities]

\* fecFoldLocked.
fecFold(s, seq) ==
  LET c == foldLane(s, "col", seq % plan.g, seq)
  IN  IF plan.twoD THEN foldLane(c, "row", 0, seq) ELSE c

\* Mutant: groups that are not full are dropped.
flushNone == {}

\* The parities of the groups in progress.
flushLanes ==
  {Parity(d, snd.lanes[d][l]) : <<d, l>> \in
     {x \in Dims \X (0..(plan.g - 1)) : snd.lanes[x[1]][x[2]].count > 0}}

\* One chunk.
Write ==
  /\ ~writeFIN
  /\ writeSeq < plan.frames
  /\ writeSeq' = writeSeq + 1
  /\ snd' = fecFold(snd, writeSeq)
  /\ UNCHANGED <<plan, writeFIN, rx, arrived, seen>>

\* One chunk whose sendDataFrame fails: the chunk has its sequence number and
\* is in the retransmit queue, so it reaches the peer, but Write returns before
\* it folds the chunk into the lanes.
WriteFails ==
  /\ ~writeFIN
  /\ writeSeq < plan.frames
  /\ writeSeq' = writeSeq + 1
  /\ UNCHANGED <<plan, writeFIN, snd, rx, arrived, seen>>

CloseWrite ==
  /\ ~writeFIN
  /\ writeFIN' = TRUE
  /\ snd' = [lanes |-> [d \in Dims |-> [l \in 0..(plan.g - 1) |-> noLane]],
             parities |-> snd.parities \cup flushLanes]
  /\ UNCHANGED <<plan, writeSeq, rx, arrived, seen>>

-------------------------------------------------------------------------------
(* The reader.                                                             *)

readSeq(r) == Len(r.out)

stride(d) == IF d = "col" THEN plan.g ELSE 1

\* fecGroupOf and fecRowOf.
groupOf(d, seq) ==
  LET g == plan.g
  IN  IF d = "col" THEN [base |-> (seq \div (g * g)) * g * g + (seq % g),
                         idx |-> (seq \div g) % g]
                   ELSE [base |-> (seq \div g) * g, idx |-> seq % g]

\* The last member a group can have.
lastOf(d, base) == base + (plan.g - 1) * stride(d)

\* Op for the column and, under WithFEC2D, for the row as well.
Both(Op(_, _), r) == IF plan.twoD THEN Op(Op(r, "col"), "row") ELSE Op(r, "col")

\* fecSweepLocked, for the accumulators of one dimension.
fecSweep(r, d) ==
  IF Cardinality({b \in Seqs : r.acc[d][b] # None}) > 2 * plan.g
    THEN [r EXCEPT !.acc[d] =
            [b \in Seqs |-> IF lastOf(d, b) < readSeq(r) THEN None ELSE @[b]]]
    ELSE r

\* fecFoldAccLocked.
foldAcc(acc, idx, p) ==
  IF acc = None
    THEN [folded |-> {idx}, of |-> p.of, bits |-> p.bits, max |-> len(p)]
    ELSE IF idx \in acc.folded THEN acc
    ELSE [folded |-> acc.folded \cup {idx},
          of |-> Xor({1, 2}, <<acc.of, p.of>>),
          bits |-> Xor({1, 2}, <<acc.bits, p.bits>>),
          max |-> Max({acc.max, len(p)})]

\* fecFoldRecvLocked.
fecFoldRecv(r, seq, p) ==
  LET Fold(x, d) ==
        [x EXCEPT !.acc[d][groupOf(d, seq).base] =
           foldAcc(@, groupOf(d, seq).idx, p)]
  IN  Both(fecSweep, Both(Fold, r))

\* A frame moves into the ring.
take(r, p) ==
  [fecFoldRecv(r, readSeq(r), p) EXCEPT !.out = Append(@, p), !.ring = @ + len(p)]

\* Mutant: a frame from the reorder map is not folded.
takeUnfolded(r, p) == [r EXCEPT !.out = Append(@, p), !.ring = @ + len(p)]

takeBuffered(r, p) == take(r, p)

fits(r, p) == r.ring + len(p) <= plan.maxBuf

buffered(r) == {s \in Seqs : r.reorder[s] # None}

reorderBytes(r) == MapThenSumSet(LAMBDA s : len(r.reorder[s]), buffered(r))

RECURSIVE drainReorder(_)

drainReorder(r) ==
  LET s == readSeq(r)
  IN  IF s \in buffered(r) /\ fits(r, r.reorder[s])
        THEN drainReorder(
               [takeBuffered(r, r.reorder[s]) EXCEPT !.reorder[s] = None])
        ELSE r

member(q, i) == q.base + i * stride(q.dim)

noAcc == [folded |-> {}, of |-> {}, bits |-> {}, max |-> 0]

accOf(r, q) == IF r.acc[q.dim][q.base] = None THEN noAcc ELSE r.acc[q.dim][q.base]

\* The members the reader has to find in the reorder map.
unfolded(r, q) == (0..(q.count - 1)) \ accOf(r, q).folded

missing(r, q) == {i \in unfolded(r, q) : member(q, i) \notin buffered(r)}

\* Mutant: the members delivered already are left out.
rebuildBuffered(r, q) ==
  LET J == (unfolded(r, q) \ missing(r, q)) \cup {-1}
      part == [i \in J |-> IF i = -1 THEN q ELSE r.reorder[member(q, i)]]
  IN  [of |-> Xor(J, [i \in J |-> part[i].of]),
       bits |-> Xor(J, [i \in J |-> part[i].bits])]

\* The parity, the accumulator and the buffered members, XORed.
rebuild(r, q) ==
  LET I == unfolded(r, q) \ missing(r, q)
      J == I \cup {-1, -2}
      part == [i \in J |-> IF i = -1 THEN q ELSE IF i = -2 THEN accOf(r, q)
                           ELSE r.reorder[member(q, i)]]
  IN  [of |-> Xor(J, [i \in J |-> part[i].of]),
       bits |-> Xor(J, [i \in J |-> part[i].bits])]

\* What tryReconstructLocked makes of a parity.
outcome(r, q) ==
  LET gone == missing(r, q)
      sizes == {len(r.reorder[member(q, i)]) : i \in unfolded(r, q) \ gone}
      n == len(rebuild(r, q))
  IN  IF readSeq(r) > member(q, q.count - 1) THEN "useless"
      ELSE IF accOf(r, q).max > q.max THEN "useless"
      ELSE IF gone = {} \/ \E i \in gone : member(q, i) < readSeq(r) THEN "useless"
      ELSE IF Cardinality(gone) > 1 THEN "pending"
      ELSE IF (\E s \in sizes : s > q.max) \/ n = 0 \/ n > q.max THEN "useless"
      ELSE "rebuild"

Has(r, seq) == seq < readSeq(r) \/ seq \in buffered(r)

RECURSIVE deliver(_, _, _)
RECURSIVE reconstruct(_, _)
RECURSIVE fecRetryBase(_, _, _)

\* The rest of tryReconstructLocked: the frame is injected.  The parity is
\* spent even when the frame finds no room.
reconstruct(r, q) ==
  LET i == CHOOSE j \in missing(r, q) : TRUE
      n == deliver(r, member(q, i), rebuild(r, q))
  IN  IF Has(n, member(q, i)) THEN n
      ELSE [n EXCEPT !.lost = @ \cup {<<q.dim, q.base>>}]

fecRetryBase(r, d, base) ==
  LET q == r.pend[d][base]
      claimed == [r EXCEPT !.pend[d][base] = None]
      o == outcome(claimed, q)
  IN  IF q = None \/ o = "pending" THEN r
      ELSE IF o = "rebuild" THEN reconstruct(claimed, q)
      ELSE claimed

\* Mutant: only the column of the frame is looked at again.
retryColumn(r, seq) == fecRetryBase(r, "col", groupOf("col", seq).base)

fecRetrySeq(r, seq) ==
  LET Retry(x, d) == fecRetryBase(x, d, groupOf(d, seq).base)
  IN  Both(Retry, r)

\* deliverLocked.
deliver(r, seq, p) ==
  IF Has(r, seq) THEN r
  ELSE IF seq > readSeq(r)
    THEN IF reorderBytes(r) + len(p) > plan.maxBuf THEN r
         ELSE fecRetrySeq([r EXCEPT !.reorder[seq] = p], seq)
  ELSE IF ~fits(r, p) THEN r
  ELSE fecRetrySeq(drainReorder(take(r, p)), seq)

pending(r, d) == {b \in Seqs : r.pend[d][b] # None}

\* Mutant: parities are kept without limit.
keepAll(r, q) == [r EXCEPT !.pend[q.dim][q.base] = q]

\* A parity is kept for later; when there are too many the oldest goes.
keep(r, q) ==
  LET oldest == Min(pending(r, q.dim))
      full == q.base \notin pending(r, q.dim)
              /\ Cardinality(pending(r, q.dim)) >= plan.pendingCap
  IN  IF full
        THEN [r EXCEPT !.pend[q.dim] = [@ EXCEPT ![oldest] = None, ![q.base] = q],
                       !.lost = @ \cup {<<q.dim, oldest>>}]
        ELSE [r EXCEPT !.pend[q.dim][q.base] = q]

\* A base that no group of ours has.
malformed(q) ==
  IF q.dim = "row" THEN q.base % plan.g # 0
                   ELSE q.base % (plan.g * plan.g) >= plan.g

applyFec(r, q) ==
  LET o == outcome(r, q)
  IN  IF malformed(q) THEN r
      ELSE IF o = "rebuild" THEN reconstruct(r, q)
      ELSE IF o = "pending" THEN keep(r, q)
      ELSE r

\* handleData.
ReceiveData(seq) ==
  /\ seq < writeSeq
  /\ rx' = deliver(rx, seq, Sent(seq))
  /\ arrived' = IF Has(rx', seq) THEN arrived \cup {seq} ELSE arrived
  /\ UNCHANGED <<plan, writeSeq, writeFIN, snd, seen>>

\* handleFec.
ReceiveFec(q) ==
  /\ rx' = applyFec(rx, q)
  /\ seen' = seen \cup {q}
  /\ UNCHANGED <<plan, writeSeq, writeFIN, snd, arrived>>

\* The application reads all there is.
Read ==
  /\ rx.ring > 0
  /\ rx' = drainReorder([rx EXCEPT !.ring = 0])
  /\ UNCHANGED <<plan, writeSeq, writeFIN, snd, arrived, seen>>

-------------------------------------------------------------------------------
\* The members of a group among the first plan.skip frames, and their XOR.
Early(d, b) == {s \in 0..(plan.skip - 1) : groupOf(d, s).base = b}

Summary(S) ==
  [of |-> S, bits |-> Xor(S, [s \in S |-> Sent(s).bits]),
   max |-> Max({len(Sent(s)) : s \in S})]

\* The first plan.skip frames, all of whose groups are full, have arrived in
\* order and have been read, and so have their parities, which may come again.
\* No accumulator has been swept yet.
Init ==
  /\ plan \in Plans
  /\ writeSeq = plan.skip
  /\ writeFIN = FALSE
  /\ snd = [lanes |-> [d \in Dims |-> [l \in 0..(plan.g - 1) |-> noLane]],
            parities |-> {LET x == Summary(Early(g[1], g[2]))
                          IN  [dim |-> g[1], base |-> g[2], count |-> plan.g,
                               of |-> x.of, bits |-> x.bits, max |-> x.max] :
                            g \in {y \in Dims \X Seqs : Early(y[1], y[2]) # {}}}]
  /\ rx = [out |-> [i \in 1..plan.skip |-> Sent(i - 1)], ring |-> 0,
           reorder |-> [s \in Seqs |-> None],
           acc |-> [d \in Dims |-> [b \in Seqs |->
             IF Early(d, b) = {} THEN None
             ELSE LET x == Summary(Early(d, b))
                  IN  [folded |-> 0..(plan.g - 1), of |-> x.of, bits |-> x.bits,
                       max |-> x.max]]],
           pend |-> [d \in Dims |-> [s \in Seqs |-> None]], lost |-> {}]
  /\ arrived = 0..(plan.skip - 1)
  /\ seen = snd.parities

Next ==
  \/ Write \/ CloseWrite \/ Read
  \/ \E seq \in Seqs : ReceiveData(seq)
  \/ \E q \in snd.parities : ReceiveFec(q)

Spec == Init /\ [][Next]_vars

\* Sends may fail, and the application writes on.
SpecErrors == Init /\ [][Next \/ WriteFails]_vars

-------------------------------------------------------------------------------
(* Properties.                                                             *)

Payloads == [of : SUBSET Seqs, bits : SUBSET {1, 2}]

\* The reader's buffers are within their limits: reorderBytes, the ring and
\* fecPendingCap.
TypeOK ==
  /\ writeSeq \in 0..plan.frames
  /\ rx.out \in Seq(Payloads) /\ readSeq(rx) <= writeSeq
  /\ buffered(rx) \subseteq readSeq(rx)..(writeSeq - 1)
  /\ reorderBytes(rx) <= plan.maxBuf /\ rx.ring <= plan.maxBuf
  /\ \A d \in Dims : Cardinality(pending(rx, d)) <= plan.pendingCap

\* "Recovery is impossible but, crucially, never wrong" (tryReconstructLocked):
\* whatever is delivered or buffered is the frame that was sent, rebuilt or not.
DeliveredIntact ==
  /\ \A i \in 1..Len(rx.out) : rx.out[i] = Sent(i - 1)
  /\ \A s \in buffered(rx) : rx.reorder[s] = Sent(s)

\* Which members of a parity the reader has, in whatever form.
Lacks(q) == {i \in 0..(q.count - 1) : ~Has(rx, member(q, i))}

\* As soon as all members of a group but one are there with their parity, in
\* any order and by any route, the last one is there too, unless the parity was
\* evicted or the rebuilt frame found no room (fecRetryBaseLocked, peeling).
SingleLossRecovered ==
  \A q \in seen : <<q.dim, q.base>> \notin rx.lost => Cardinality(Lacks(q)) # 1

\* A parity takes up room only while it waits for two or more members, so that
\* a spent one never evicts one that is needed (fecPendingCap).
PendingWaits ==
  \A d \in Dims : \A b \in pending(rx, d) : Cardinality(Lacks(rx.pend[d][b])) > 1

\* "A burst loss of up to G consecutive frames puts at most ONE loss in each
\* group" (fecFoldLocked): once the writer has closed and all the rest is here,
\* such a burst is recovered without any frame of it.
BurstRecovered ==
  /\ writeFIN /\ snd.parities \subseteq seen /\ rx.lost = {}
  /\ \E a \in Seqs : (0..(writeSeq - 1)) \ arrived \subseteq a..(a + plan.g - 1)
  => \A s \in 0..(writeSeq - 1) : Has(rx, s)
===============================================================================
