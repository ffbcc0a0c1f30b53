--------------------------- MODULE DiscoveryProofs ---------------------------
(* Proofs about the module Discovery, for every length of its periods, every  *)
(* discovery room and every number of cards, faults and missed polls: the     *)
(* cursor passes no query without a reason, a liveness record comes a whole   *)
(* period after all that were recorded, and the service room outlives the     *)
(* upstream's retention as long as polls fail for no longer than the margins. *)
EXTENDS Discovery, FiniteSetTheorems, SequenceTheorems, TLAPS

-----------------------------------------------------------------------------
(* Slots.                                                                     *)

\* A time lies in its slot.
LEMMA InSlot ==
  ASSUME NEW t \in Nat, NEW d \in Nat \ {0}
  PROVE  t \div d \in Nat /\ d * (t \div d) <= t /\ t < d * (t \div d) + d
  OBVIOUS

\* Multiplication by a period keeps the order.
LEMMA Periods ==
  ASSUME NEW p \in Nat, NEW q \in Nat, NEW d \in Nat \ {0}, p < q
  PROVE  d * p + d <= d * q
  OBVIOUS

\* A later time lies in no earlier slot, and one a period later in a later one.
LEMMA SlotOrder ==
  ASSUME NEW s \in Nat, NEW t \in Nat, NEW d \in Nat \ {0}, s <= t
  PROVE  /\ s \div d \in Nat /\ t \div d \in Nat
         /\ s \div d <= t \div d
         /\ t - s >= d => s \div d < t \div d
  <1> DEFINE p == s \div d  q == t \div d
  <1>1. p \in Nat /\ q \in Nat /\ d * p <= s /\ t < d * q + d
    BY InSlot
  <1> HIDE DEF p, q
  <1>2. q < p => d * q + d <= d * p
    BY <1>1, Periods
  <1>3. d * p \in Int /\ d * q \in Int /\ (q = p => d * q = d * p)
    BY <1>1
  <1>4. p <= q /\ (t - s >= d => p < q)
    BY <1>1, <1>2, <1>3
  <1> QED
    BY <1>1, <1>4 DEF p, q

\* Two times with a whole slot between them are a period apart.
LEMMA SlotBetween ==
  ASSUME NEW s \in Nat, NEW t \in Nat, NEW d \in Nat \ {0}, NEW m \in Nat,
         s \div d < m, m < t \div d
  PROVE  t - s >= d
  <1> DEFINE p == s \div d  q == t \div d
  <1>1. /\ p \in Nat /\ q \in Nat /\ p < m /\ m < q
        /\ s < d * p + d /\ d * q <= t
    BY InSlot
  <1> HIDE DEF p, q
  <1>2. d * p + d <= d * m /\ d * m + d <= d * q
    BY <1>1, Periods
  <1>3. d * p \in Int /\ d * q \in Int /\ d * m \in Int
    BY <1>1
  <1> QED
    BY <1>1, <1>2, <1>3

-----------------------------------------------------------------------------
(* The discovery cursor.                                                      *)

\* Why the cursor may pass position i of the discovery room, which holds query
\* q, given the offers shown and reserved, the time and the room's length.
Passed(i, q, why, shown, reserved, t, length) ==
  \/ why = "offered" /\ OfferKey(q) \in shown
  \/ why = "unsigned" /\ ~Queries[q].signed
  \/ why = "expired" /\ Queries[q].expires <= t
  \/ why \in {"quota", "conflict"} /\ \E o \in reserved : o.did = Queries[q].did
  \/ why = "unread" /\ i + ReadLimit <= length

\* The cursor's row is of a generation there was; it is at the start before the
\* first read and before a second one, and a batch starts after it.
RowsOK ==
  /\ now \in Nat /\ board \in Seq(1..Len(Queries)) /\ boardGen \in Nat
  /\ cursor \in Nat /\ cursorGen \in Int /\ cursorGen <= boardGen
  /\ DOMAIN handled = 1..cursor
  /\ batch \in Seq(1..Len(Queries))
  /\ cursorGen = NoGen \/ pc = "reread" => cursor = 0
  /\ pc \in {"reread", "discovery"} => cursorGen # NoGen
  /\ pc = "discovery" => from \in Nat /\ cursor < from

\* In its generation the cursor passed every position for a reason.
PassedOK ==
  cursorGen = boardGen =>
    /\ cursor <= Len(board)
    /\ \A i \in 1..cursor :
         Passed(i, board[i], handled[i], answered, offers, now, Len(board))

\* A batch of that generation is a stretch of the room, and what lies between
\* the cursor and the batch is older than a read returns.
BatchOK ==
  pc = "discovery" /\ cursorGen = boardGen =>
    /\ from + Len(batch) <= Len(board) + 1
    /\ \A k \in 1..Len(batch) : batch[k] = board[from + k - 1]
    /\ \A i \in Nat : cursor < i /\ i < from => i + ReadLimit <= Len(board)

CursorInv == RowsOK /\ PassedOK /\ BatchOK

\* What justified passing a position keeps justifying it: offers and
\* reservations stay, time goes on and the room only grows.
LEMMA PassedStays ==
  ASSUME NEW i \in Nat, NEW q \in 1..Len(Queries), NEW why,
         NEW s, NEW ss, s \subseteq ss, NEW o, NEW oo, o \subseteq oo,
         NEW t \in Nat, NEW tt \in Nat, t <= tt,
         NEW n \in Nat, NEW nn \in Nat, n <= nn, Passed(i, q, why, s, o, t, n)
  PROVE  Passed(i, q, why, ss, oo, tt, nn)
  <1>1. Queries[q].expires \in Nat /\ ReadLimit \in Nat
    BY QueriesAssumption, TimingAssumption
  <1> QED
    BY <1>1 DEF Passed

\* The steps that leave the discovery room and the cursor where they are, and
\* go on with the batch or drop it.
LEMMA CursorStays ==
  ASSUME CursorInv, now' \in Nat, now <= now', answered \subseteq answered',
         offers \subseteq offers', UNCHANGED <<boardVars, cursorVars>>,
         \/ UNCHANGED <<pc, batchVars>>
         \/ pc' \notin {"reread", "discovery"} /\ batch' \in Seq(1..Len(Queries))
  PROVE  CursorInv'
  <1>1. UNCHANGED <<board, boardGen, cursor, cursorGen, handled>>
    BY DEF boardVars, cursorVars
  <1>2. RowsOK'
    BY <1>1 DEF CursorInv, RowsOK, batchVars
  <1>3. ASSUME cursorGen = boardGen, NEW i \in 1..cursor
        PROVE  Passed(i, board[i], handled[i], answered', offers', now', Len(board))
    <2>1. /\ i \in Nat /\ i \in 1..Len(board) /\ Len(board) \in Nat
          /\ Passed(i, board[i], handled[i], answered, offers, now, Len(board))
      BY <1>3, LenProperties DEF CursorInv, RowsOK, PassedOK
    <2>2. board[i] \in 1..Len(Queries) /\ now \in Nat
      BY <2>1, LenProperties DEF CursorInv, RowsOK
    <2> QED
      BY <2>1, <2>2, PassedStays
  <1>4. PassedOK'
    BY <1>1, <1>3 DEF CursorInv, PassedOK
  <1>5. BatchOK'
    BY <1>1 DEF CursorInv, BatchOK, batchVars
  <1> QED
    BY <1>2, <1>4, <1>5 DEF CursorInv

\* A peer posts: the positions there stay what they are.
LEMMA CursorPosts == CursorInv /\ PeerPosts => CursorInv'
  <1> SUFFICES ASSUME CursorInv, PeerPosts PROVE CursorInv'
    OBVIOUS
  <1>1. UNCHANGED <<boardGen, now, cursor, cursorGen, handled, batch, from, pc, answered,
                    offers>>
    BY DEF PeerPosts, cursorVars, batchVars, offerVars
  <1>2. PICK q \in 1..Len(Queries) : board' = Append(board, q)
    BY DEF PeerPosts
  <1>3. board \in Seq(1..Len(Queries)) /\ Len(board) \in Nat
    BY LenProperties DEF CursorInv, RowsOK
  <1>4. /\ board' \in Seq(1..Len(Queries)) /\ Len(board') = Len(board) + 1
        /\ \A i \in 1..Len(board) : board'[i] = board[i]
    BY <1>2, <1>3, AppendProperties
  <1>5. RowsOK'
    BY <1>1, <1>4 DEF CursorInv, RowsOK
  <1>6. ASSUME cursorGen = boardGen, NEW i \in 1..cursor
        PROVE  Passed(i, board'[i], handled[i], answered, offers, now, Len(board'))
    <2>1. /\ i \in Nat /\ i \in 1..Len(board)
          /\ Passed(i, board[i], handled[i], answered, offers, now, Len(board))
      BY <1>3, <1>6 DEF CursorInv, RowsOK, PassedOK
    <2>2. board[i] \in 1..Len(Queries) /\ now \in Nat
      BY <2>1, LenProperties DEF CursorInv, RowsOK
    <2>3. Passed(i, board[i], handled[i], answered, offers, now, Len(board'))
      BY <2>1, <2>2, <1>3, <1>4, PassedStays
    <2> QED
      BY <2>1, <2>3, <1>4
  <1>7. PassedOK'
    <2>1. cursorGen = boardGen => cursor <= Len(board')
      BY <1>3, <1>4 DEF CursorInv, RowsOK, PassedOK
    <2> QED
      BY <1>1, <1>6, <2>1 DEF PassedOK
  <1>8. BatchOK'
    <2> SUFFICES ASSUME pc = "discovery", cursorGen = boardGen
                 PROVE  /\ from + Len(batch) <= Len(board') + 1
                        /\ \A k \in 1..Len(batch) : batch[k] = board'[from + k - 1]
                        /\ \A i \in Nat : cursor < i /\ i < from => i + ReadLimit <= Len(board')
      BY <1>1 DEF BatchOK
    <2>1. from \in Nat /\ cursor \in Nat /\ cursor < from /\ ReadLimit \in Nat
          /\ Len(batch) \in Nat
      BY TimingAssumption, LenProperties DEF CursorInv, RowsOK
    <2>2. /\ from + Len(batch) <= Len(board) + 1
          /\ \A k \in 1..Len(batch) : batch[k] = board[from + k - 1]
          /\ \A i \in Nat : cursor < i /\ i < from => i + ReadLimit <= Len(board)
      BY DEF CursorInv, BatchOK
    <2>3. ASSUME NEW k \in 1..Len(batch) PROVE batch[k] = board'[from + k - 1]
      <3>1. from + k - 1 \in 1..Len(board)
        BY <1>3, <2>1, <2>2
      <3> QED
        BY <3>1, <2>2, <1>4
    <2>4. ASSUME NEW i \in Nat, cursor < i, i < from PROVE i + ReadLimit <= Len(board')
      BY <2>1, <2>2, <2>4, <1>3, <1>4
    <2>5. from + Len(batch) <= Len(board') + 1
      BY <2>1, <2>2, <1>3, <1>4
    <2> QED
      BY <2>3, <2>4, <2>5
  <1> QED
    BY <1>5, <1>7, <1>8 DEF CursorInv

\* The room starts again: the cursor is of an earlier generation.
LEMMA CursorReap == CursorInv /\ ReapBoard => CursorInv'
  <1> SUFFICES ASSUME CursorInv, ReapBoard PROVE CursorInv'
    OBVIOUS
  <1>1. /\ UNCHANGED <<now, cursor, cursorGen, handled, batch, from, pc>>
        /\ board' = <<>> /\ boardGen' = boardGen + 1
    BY DEF ReapBoard, cursorVars, batchVars
  <1>2. <<>> \in Seq(1..Len(Queries))
    BY EmptySeq
  <1>3. RowsOK' /\ cursorGen' # boardGen'
    BY <1>1, <1>2 DEF CursorInv, RowsOK
  <1> QED
    BY <1>3 DEF CursorInv, PassedOK, BatchOK

\* A read returns a stretch at the room's end.
LEMMA ReadFacts ==
  ASSUME CursorInv, NEW since \in Nat, Read(since)
  PROVE  /\ from' \in Nat /\ since < from' /\ batch' \in Seq(1..Len(Queries))
         /\ since <= Len(board) =>
              /\ from' + Len(batch') <= Len(board) + 1
              /\ \A k \in 1..Len(batch') : batch'[k] = board[from' + k - 1]
              /\ \A i \in Nat : since < i /\ i < from' => i + ReadLimit <= Len(board)
  <1>1. board \in Seq(1..Len(Queries)) /\ Len(board) \in Nat /\ ReadLimit \in Nat \ {0}
    BY TimingAssumption, LenProperties DEF CursorInv, RowsOK
  <1>2. PICK m : m = Larger(since, Len(board) - ReadLimit)
    OBVIOUS
  <1>3. /\ m \in Nat /\ since <= m
        /\ m = since \/ m = Len(board) - ReadLimit
    BY <1>1, <1>2 DEF Larger
  <1>4. batch' = SubSeq(board, m + 1, Len(board)) /\ from' = m + 1
    BY <1>2 DEF Read
  <1>5. \A i \in (m + 1)..Len(board) : board[i] \in 1..Len(Queries)
    BY <1>1, <1>3, LenProperties
  <1>6. m + 1 \in Int /\ Len(board) \in Int
    BY <1>1, <1>3
  <1>7. /\ batch' \in Seq(1..Len(Queries))
        /\ Len(batch') = IF m + 1 <= Len(board) THEN Len(board) - (m + 1) + 1 ELSE 0
        /\ \A i \in 1..(Len(board) - (m + 1) + 1) : batch'[i] = board[m + 1 + i - 1]
    BY <1>4, <1>5, <1>6, SubSeqProperties
  <1>8. ASSUME since <= Len(board)
        PROVE  m <= Len(board) /\ Len(batch') = Len(board) - m
    <2>1. m <= Len(board)
      BY <1>1, <1>3, <1>8
    <2> QED
      BY <2>1, <1>1, <1>3, <1>7
  <1>9. ASSUME since <= Len(board), NEW k \in 1..Len(batch')
        PROVE  batch'[k] = board[from' + k - 1]
    <2>1. k \in 1..(Len(board) - (m + 1) + 1) /\ from' + k - 1 = m + 1 + k - 1
      BY <1>1, <1>3, <1>4, <1>8, <1>9
    <2> QED
      BY <2>1, <1>7
  <1>10. ASSUME since <= Len(board), NEW i \in Nat, since < i, i < from'
         PROVE  i + ReadLimit <= Len(board)
    BY <1>1, <1>3, <1>4, <1>10
  <1>11. ASSUME since <= Len(board) PROVE from' + Len(batch') <= Len(board) + 1
    <2>1. Len(batch') = Len(board) - m /\ from' = m + 1
      BY <1>4, <1>8, <1>11
    <2> QED
      BY <1>1, <1>3, <2>1
  <1>12. from' \in Nat /\ since < from'
    BY <1>3, <1>4
  <1>13. ASSUME since <= Len(board)
         PROVE  /\ \A k \in 1..Len(batch') : batch'[k] = board[from' + k - 1]
                /\ \A i \in Nat : since < i /\ i < from' => i + ReadLimit <= Len(board)
    BY <1>9, <1>10, <1>13
  <1> QED
    BY <1>7, <1>11, <1>12, <1>13

\* A read from the cursor, in the room the cursor is of or before any read.
LEMMA CursorReads ==
  ASSUME CursorInv, Read(cursor), cursorGen' = boardGen,
         cursorGen = boardGen \/ cursor = 0,
         UNCHANGED <<now, board, boardGen, cursor, handled, answered, offers>>
  PROVE  CursorInv'
  <1>1. /\ cursor \in Nat /\ board \in Seq(1..Len(Queries)) /\ Len(board) \in Nat
        /\ boardGen \in Nat /\ pc' = "discovery"
    BY LenProperties DEF CursorInv, RowsOK, Read
  <1>2. cursor <= Len(board)
    BY <1>1 DEF CursorInv, PassedOK
  <1>3. /\ from' \in Nat /\ cursor < from' /\ batch' \in Seq(1..Len(Queries))
        /\ from' + Len(batch') <= Len(board) + 1
        /\ \A k \in 1..Len(batch') : batch'[k] = board[from' + k - 1]
        /\ \A i \in Nat : cursor < i /\ i < from' => i + ReadLimit <= Len(board)
    BY <1>1, <1>2, ReadFacts
  <1>4. RowsOK'
    BY <1>1, <1>3 DEF CursorInv, RowsOK, NoGen
  <1>5. PassedOK'
    <2>1. CASE cursorGen = boardGen
      BY <2>1 DEF CursorInv, PassedOK
    <2>2. CASE cursor = 0
      BY <2>2, <1>1 DEF PassedOK
    <2> QED
      BY <2>1, <2>2
  <1>6. BatchOK'
    BY <1>3 DEF BatchOK
  <1> QED
    BY <1>4, <1>5, <1>6 DEF CursorInv

\* _read_generation_safe.
LEMMA CursorReadStep == CursorInv /\ (ReadQueries \/ ReadAgain) => CursorInv'
  <1> SUFFICES ASSUME CursorInv, ReadQueries \/ ReadAgain PROVE CursorInv'
    OBVIOUS
  <1>1. UNCHANGED <<now, board, boardGen, answered, offers>>
    BY DEF ReadQueries, ReadAgain, boardVars, offerVars
  <1>2. boardGen \in Nat /\ board \in Seq(1..Len(Queries)) /\ now \in Nat
    BY DEF CursorInv, RowsOK
  <1>3. CASE ReadQueries /\ cursorGen \in {NoGen, boardGen}
    <2>1. Read(cursor) /\ UNCHANGED <<cursor, handled>> /\ cursorGen' = boardGen
      BY <1>3 DEF ReadQueries
    <2>2. cursorGen = boardGen \/ cursor = 0
      BY <1>3 DEF CursorInv, RowsOK
    <2> QED
      BY <1>1, <2>1, <2>2, CursorReads
  <1>4. CASE ReadQueries /\ cursorGen \notin {NoGen, boardGen}
    <2>1. /\ cursor' = 0 /\ handled' = <<>> /\ pc' = "reread" /\ UNCHANGED <<batch, from>>
          /\ cursorGen' = boardGen
      BY <1>4 DEF ReadQueries, batchVars
    <2>2. RowsOK'
      BY <1>1, <1>2, <2>1 DEF CursorInv, RowsOK, NoGen
    <2>3. Len(board) \in Nat
      BY <1>2, LenProperties
    <2>4. PassedOK' /\ BatchOK'
      BY <1>1, <2>1, <2>3 DEF PassedOK, BatchOK
    <2> QED
      BY <2>2, <2>4 DEF CursorInv
  <1>5. CASE ReadAgain
    <2>1. Read(0) /\ UNCHANGED <<cursor, cursorGen, handled>> /\ pc = "reread"
      BY <1>5 DEF ReadAgain, cursorVars
    <2>2. cursor = 0
      BY <2>1 DEF CursorInv, RowsOK
    <2>3. CASE cursorGen = boardGen
      BY <1>1, <2>1, <2>2, <2>3, CursorReads
    <2>4. CASE cursorGen # boardGen
      <3>1. from' \in Nat /\ cursor < from' /\ batch' \in Seq(1..Len(Queries))
        BY <2>1, <2>2, ReadFacts
      <3>2. pc' = "discovery"
        BY <2>1 DEF Read
      <3>3. RowsOK'
        BY <1>1, <2>1, <3>1, <3>2 DEF CursorInv, RowsOK
      <3>4. PassedOK' /\ BatchOK'
        BY <1>1, <2>1, <2>4 DEF PassedOK, BatchOK
      <3> QED
        BY <3>3, <3>4 DEF CursorInv
    <2> QED
      BY <2>3, <2>4
  <1> QED
    BY <1>3, <1>4, <1>5

\* The cursor moves over the record at hand, which may be passed, and over
\* those before it that the read did not return.
LEMMA CursorMoves ==
  ASSUME CursorInv, pc = "discovery", batch # <<>>, NEW why, Advance(why),
         UNCHANGED <<now, board, boardGen, pc>>, answered \subseteq answered',
         offers \subseteq offers',
         Passed(from, batch[1], why, answered', offers', now, Len(board))
  PROVE  CursorInv'
  <1>1. /\ cursor \in Nat /\ from \in Nat /\ cursor < from /\ now \in Nat
        /\ board \in Seq(1..Len(Queries)) /\ batch \in Seq(1..Len(Queries))
        /\ DOMAIN handled = 1..cursor /\ cursorGen \in Int
    BY DEF CursorInv, RowsOK
  <1>2. Len(board) \in Nat /\ Len(batch) \in Nat \ {0}
    BY <1>1, LenProperties, EmptySeq
  <1>3. /\ cursor' = from /\ from' = from + 1 /\ batch' = Tail(batch)
        /\ cursorGen' = cursorGen
        /\ DOMAIN handled' = 1..from
        /\ \A i \in 1..from : handled'[i] = IF i \in 1..cursor THEN handled[i]
                                            ELSE IF i = from THEN why ELSE "unread"
    BY <1>1 DEF Advance
  <1>4. /\ batch' \in Seq(1..Len(Queries)) /\ Len(batch') = Len(batch) - 1
        /\ \A k \in 1..Len(batch') : batch'[k] = batch[k + 1]
    BY <1>1, <1>3, HeadTailProperties
  <1>5. RowsOK'
    BY <1>1, <1>3, <1>4 DEF CursorInv, RowsOK
  <1>6. CASE cursorGen # boardGen
    BY <1>3, <1>5, <1>6 DEF CursorInv, PassedOK, BatchOK
  <1>7. CASE cursorGen = boardGen
    <2>1. /\ from + Len(batch) <= Len(board) + 1
          /\ \A k \in 1..Len(batch) : batch[k] = board[from + k - 1]
          /\ \A i \in Nat : cursor < i /\ i < from => i + ReadLimit <= Len(board)
      BY <1>7 DEF CursorInv, BatchOK
    <2>2. from <= Len(board) /\ batch[1] = board[from]
      <3>1. 1 \in 1..Len(batch) /\ from + 1 - 1 = from
        BY <1>1, <1>2
      <3> QED
        BY <1>1, <1>2, <2>1, <3>1
    <2>3. ASSUME NEW i \in 1..from
          PROVE  Passed(i, board[i], handled'[i], answered', offers', now, Len(board))
      <3>1. CASE i \in 1..cursor
        <4>1. /\ i \in Nat /\ i \in 1..Len(board) /\ handled'[i] = handled[i]
              /\ Passed(i, board[i], handled[i], answered, offers, now, Len(board))
          BY <1>1, <1>2, <1>3, <1>7, <2>2, <3>1 DEF CursorInv, PassedOK
        <4>2. board[i] \in 1..Len(Queries)
          BY <1>1, <4>1, LenProperties
        <4>3. Passed(i, board[i], handled[i], answered', offers', now, Len(board))
          BY <4>1, <4>2, <1>1, <1>2, PassedStays
        <4> QED
          BY <4>1, <4>3
      <3>2. CASE i = from
        <4>1. handled'[i] = why
          BY <1>1, <1>3, <3>2
        <4> QED
          BY <2>2, <3>2, <4>1
      <3>3. CASE i \notin 1..cursor /\ i # from
        <4>1. handled'[i] = "unread" /\ i + ReadLimit <= Len(board)
          BY <1>1, <1>3, <2>1, <3>3
        <4> QED
          BY <4>1 DEF Passed
      <3> QED
        BY <3>1, <3>2, <3>3
    <2>4. PassedOK'
      BY <1>3, <2>2, <2>3 DEF PassedOK
    <2>5. BatchOK'
      <3>1. from' + Len(batch') <= Len(board) + 1
        BY <1>1, <1>2, <1>3, <1>4, <2>1
      <3>2. ASSUME NEW k \in 1..Len(batch') PROVE batch'[k] = board[from' + k - 1]
        <4>1. k + 1 \in 1..Len(batch) /\ from + (k + 1) - 1 = from' + k - 1
          BY <1>1, <1>2, <1>3, <1>4
        <4> QED
          BY <1>4, <2>1, <4>1
      <3>3. \A i \in Nat : ~(cursor' < i /\ i < from')
        BY <1>1, <1>3
      <3> QED
        BY <3>1, <3>2, <3>3 DEF BatchOK
    <2> QED
      BY <1>5, <2>4, <2>5 DEF CursorInv
  <1> QED
    BY <1>6, <1>7

\* A spent quota or identifier means there is an offer to the requester.
LEMMA SpentMeansOffered ==
  ASSUME NEW q, Reservation(q) \in {"quota", "conflict"}
  PROVE  \E o \in offers : o.did = Queries[q].did
  <1> DEFINE mine == {o \in offers : o.did = Queries[q].did /\ o.day = DayOf(now)}
  <1>1. \/ \E o \in offers : o.did = Queries[q].did /\ o.id = Queries[q].id
        \/ Cardinality(mine) >= OffersPerDay
    BY DEF Reservation
  <1>2. Cardinality(mine) >= OffersPerDay => mine # {}
    <2>1. OffersPerDay \in Nat \ {0}
      BY TimingAssumption
    <2>2. Cardinality({}) = 0
      BY FS_EmptySet
    <2> HIDE DEF mine
    <2> QED
      BY <2>1, <2>2
  <1> QED
    BY <1>1, <1>2

\* Every step keeps the cursor's meaning.
LEMMA StepCursor == CursorInv /\ [Next]_vars => CursorInv'
  <1> SUFFICES ASSUME CursorInv, [Next]_vars PROVE CursorInv'
    OBVIOUS
  <1>1. CASE SkipQuery
    <2>1. /\ UNCHANGED <<now, board, boardGen, pc, answered, offers>>
          /\ pc = "discovery" /\ batch # <<>>
      BY <1>1 DEF SkipQuery, boardVars, offerVars
    <2>2. PICK why : /\ Advance(why)
                     /\ Passed(from, batch[1], why, answered, offers, now, Len(board))
      <3>1. CASE ~Queries[batch[1]].signed /\ Advance("unsigned")
        BY <3>1 DEF Passed
      <3>2. CASE Queries[batch[1]].expires <= now /\ Advance("expired")
        BY <3>2 DEF Passed
      <3>3. CASE /\ Reservation(batch[1]) \in {"quota", "conflict"}
                 /\ Advance(Reservation(batch[1]))
        BY <3>3, SpentMeansOffered DEF Passed
      <3> QED
        BY <1>1, <3>1, <3>2, <3>3 DEF SkipQuery, AtHand
    <2> QED
      BY <2>1, <2>2, CursorMoves
  <1>2. CASE SendOffer
    <2>1. /\ UNCHANGED <<now, board, boardGen, pc>> /\ batch # <<>> /\ pc = "discovery"
          /\ offers \subseteq offers' /\ Advance("offered")
          /\ answered' = answered \cup {OfferKey(batch[1])}
      BY <1>2 DEF SendOffer, Answerable, Reserve, boardVars, AtHand
    <2>2. Passed(from, batch[1], "offered", answered', offers', now, Len(board))
      BY <2>1 DEF Passed
    <2> QED
      BY <2>1, <2>2, CursorMoves
  <1>3. CASE PeerPosts
    BY <1>3, CursorPosts
  <1>4. CASE ReapBoard
    BY <1>4, CursorReap
  <1>5. CASE ReadQueries \/ ReadAgain
    BY <1>5, CursorReadStep
  <1>6. CASE \/ Tick \/ Reap \/ PrepareCard \/ Announce \/ RecordActivation
             \/ MaintainPresence \/ RecordPresence
    <2>1. UNCHANGED <<boardVars, cursorVars, batchVars, answered, offers>>
      BY <1>6 DEF Tick, Reap, PrepareCard, Announce, RecordActivation, MaintainPresence,
                  RecordPresence, discoveryVars, offerVars
    <2>2. now \in Nat /\ now' \in {now, now + 1}
      BY <1>6 DEF Tick, Reap, PrepareCard, Announce, RecordActivation, MaintainPresence,
                  RecordPresence, CursorInv, RowsOK
    <2>3. UNCHANGED pc \/ pc' \notin {"reread", "discovery"}
      BY <1>6 DEF Tick, Reap, PrepareCard, Announce, RecordActivation, MaintainPresence,
                  RecordPresence
    <2>4. batch' \in Seq(1..Len(Queries))
      BY <2>1 DEF batchVars, CursorInv, RowsOK
    <2> QED
      BY <2>1, <2>2, <2>3, <2>4, CursorStays
  <1>7. CASE SendOfferFails \/ OfferConflict \/ EndPoll \/ Crash
    <2>1. UNCHANGED <<now, boardVars, cursorVars>> /\ pc' = "idle" /\ batch' = <<>>
      BY <1>7 DEF SendOfferFails, OfferConflict, EndPoll, Crash, Leave
    <2>2. answered \subseteq answered' /\ offers \subseteq offers'
      BY <1>7 DEF SendOfferFails, OfferFails, Reserve, OfferConflict, EndPoll, Crash, offerVars
    <2>3. now \in Nat /\ <<>> \in Seq(1..Len(Queries))
      BY EmptySeq DEF CursorInv, RowsOK
    <2> QED
      BY <2>1, <2>2, <2>3, CursorStays
  <1>8. CASE UNCHANGED vars
    BY <1>8, CursorStays DEF vars, discoveryVars, offerVars, CursorInv, RowsOK
  <1> QED
    BY <1>1, <1>2, <1>3, <1>4, <1>5, <1>6, <1>7, <1>8 DEF Next

\* At the start the cursor has passed nothing.
LEMMA InitCursor == Init => CursorInv
  <1> SUFFICES ASSUME Init PROVE CursorInv
    OBVIOUS
  <1>1. /\ now = Start /\ board = <<>> /\ boardGen = 0 /\ cursor = 0 /\ cursorGen = NoGen
        /\ handled = <<>> /\ batch = <<>> /\ pc = "idle"
    BY DEF Init
  <1>2. <<>> \in Seq(1..Len(Queries))
    BY EmptySeq
  <1>3. RowsOK /\ cursorGen # boardGen
    BY <1>1, <1>2, TimingAssumption DEF RowsOK, NoGen
  <1> QED
    BY <1>3 DEF CursorInv, PassedOK, BatchOK

\* In the generation it is of, the cursor of the discovery room passes a signed,
\* current query only after its offer was shown, or because the requester's
\* quota or identifier is spent, or as one that was older than the newest
\* ReadLimit records of the room (handle_discovery, poll_once,
\* _read_generation_safe).
THEOREM CursorMeansHandledAlways == Spec => []CursorMeansHandled
  <1>1. CursorInv => CursorMeansHandled
    BY DEF CursorInv, PassedOK, CursorMeansHandled, Passed
  <1> QED
    BY <1>1, InitCursor, StepCursor, PTL DEF Spec

-----------------------------------------------------------------------------
(* Messages and their keys.                                                   *)

Clock ==
  /\ now \in Nat /\ Start <= now /\ now <= Start + MaxTime
  /\ gen \in Nat /\ card \in Nat /\ lag \in Nat
  /\ presence.at \in Nat /\ presence.at <= now
  /\ presence = [at |-> presence.at, gen |-> presence.gen]

PeriodOf(kind) == IF kind = "liveness" THEN Liveness ELSE Anchor

\* A message is as old as it says; an anchor or a liveness record, and nothing
\* else, has the presence key of its generation, its slot and some card up to
\* the present one.
MessageOK(m) ==
  /\ m.at \in Nat /\ Start <= m.at /\ m.at <= now /\ m.gen \in Nat /\ m.gen <= gen
  /\ m.key.kind = "presence" <=> m.kind \in {"anchor", "liveness"}
  /\ m.key.kind = "presence" =>
       /\ m.key.gen = m.gen /\ m.key.slot = m.at \div PeriodOf(m.kind)
       /\ m.key.card \in Nat /\ m.key.card <= card
       /\ m.key = [kind |-> "presence", gen |-> m.key.gen, slot |-> m.key.slot,
                   card |-> m.key.card]

\* A key shows one message.
OneEach == \A a, b \in history : a.key = b.key => a = b

\* A message whose presence row was written is no younger than the row there is
\* now; the row is written, or about to be, for messages that are there.
Noted ==
  /\ \A m \in history : m.key \in recorded => m.at <= presence.at
  /\ \A key \in recorded : Landed(key)
  /\ pc \in {"record", "row"} => Landed(pending.key)

\* The room holds messages that were shown, and if any then a youngest one.
RoomOK ==
  /\ IsFiniteSet(room) /\ room \subseteq history
  /\ room # {} => \E m \in room : \A k \in room : k.at <= m.at

BeaconInv == Clock /\ (\A m \in history : MessageOK(m)) /\ OneEach /\ Noted /\ RoomOK

NewestOf(S) == CHOOSE t \in {m.at : m \in S} : \A m \in S : m.at <= t

\* The newest record's time is the largest.
LEMMA NewestIs ==
  ASSUME NEW S, NEW top \in S, \A k \in S : k.at \in Nat /\ k.at <= top.at
  PROVE  NewestOf(S) = top.at
  <1> DEFINE P(t) == t \in {m.at : m \in S} /\ \A m \in S : m.at <= t
  <1>1. P(top.at)
    OBVIOUS
  <1>2. P(NewestOf(S))
    BY <1>1 DEF NewestOf
  <1>3. PICK k \in S : NewestOf(S) = k.at
    BY <1>2
  <1>4. top.at <= k.at
    BY <1>2, <1>3
  <1> QED
    BY <1>3, <1>4

\* The newest record is a record of the room and the others are no younger.
LEMMA NewestFacts ==
  ASSUME BeaconInv, room # {}
  PROVE  /\ Newest \in Nat /\ Newest <= now
         /\ \A k \in room : k.at \in Nat /\ k.at <= Newest
  <1>1. PICK top \in room : \A k \in room : k.at <= top.at
    BY DEF BeaconInv, RoomOK
  <1>2. \A k \in room : k.at \in Nat /\ k.at <= now
    BY DEF BeaconInv, MessageOK, RoomOK
  <1>3. NewestOf(room) = top.at
    BY <1>1, <1>2, NewestIs
  <1> QED
    BY <1>1, <1>2, <1>3 DEF NewestOf, Newest

\* A record put into the room now is its newest.
LEMMA RoomWithNew ==
  ASSUME BeaconInv, NEW z, z.at = now, room' = room \cup {z}, history' = history \cup {z}
  PROVE  RoomOK' /\ Newest' = now
  <1>1. \A k \in room \cup {z} : k.at \in Nat /\ k.at <= z.at
    <2>1. now \in Nat /\ room \subseteq history
      BY DEF BeaconInv, Clock, RoomOK
    <2>2. \A k \in history : k.at \in Nat /\ k.at <= now
      BY DEF BeaconInv, MessageOK
    <2> QED
      BY <2>1, <2>2
  <1>2. IsFiniteSet(room \cup {z})
    BY FS_AddElement DEF BeaconInv, RoomOK
  <1>3. NewestOf(room \cup {z}) = z.at
    BY <1>1, NewestIs
  <1>4. Newest' = NewestOf(room \cup {z})
    BY DEF Newest, NewestOf
  <1>5. RoomOK'
    BY <1>1, <1>2 DEF BeaconInv, RoomOK
  <1> QED
    BY <1>3, <1>4, <1>5

\* What _maintain_service_presence sends, and when.
LEMMA DueFacts ==
  ASSUME Due # Nothing
  PROVE  \/ Due.kind = "recovery" /\ room = {} /\ DueKey(Due).kind = "recovery"
         \/ /\ Due.kind = "anchor" /\ room # {}
            /\ presence = NoPresence \/ RowGen # gen \/ Cardinality(room) = 1
            /\ DueKey(Due) = [kind |-> "presence", gen |-> gen, slot |-> now \div Anchor,
                              card |-> card]
         \/ /\ Due.kind = "liveness" /\ room # {} /\ presence # NoPresence
            /\ RowGen = gen /\ Cardinality(room) # 1 /\ ~(now - presence.at < Liveness)
            /\ DueKey(Due) = [kind |-> "presence", gen |-> gen, slot |-> now \div Liveness,
                              card |-> card]
  <1>1. CASE room = {}
    <2>1. Due = [kind |-> "recovery", slot |-> 0]
      BY <1>1 DEF Due
    <2> QED
      BY <1>1, <2>1 DEF DueKey, RecoveryKey
  <1>2. CASE room # {} /\ (presence = NoPresence \/ RowGen # gen)
    <2>1. Due = [kind |-> "anchor", slot |-> now \div Anchor]
      BY <1>2 DEF Due, Slot
    <2> QED
      BY <1>2, <2>1 DEF DueKey, PresenceKey
  <1>3. CASE /\ room # {} /\ presence # NoPresence /\ RowGen = gen
             /\ Cardinality(room) = 1
    <2>1. Due = [kind |-> "anchor", slot |-> now \div Anchor]
      BY <1>3 DEF Due, Slot, Threshold
    <2> QED
      BY <1>3, <2>1 DEF DueKey, PresenceKey
  <1>4. CASE /\ room # {} /\ presence # NoPresence /\ RowGen = gen
             /\ Cardinality(room) # 1
    <2>1. /\ Due = [kind |-> "liveness", slot |-> now \div Liveness]
          /\ ~(now - presence.at < Liveness)
      BY <1>4 DEF Due, Slot, Threshold
    <2> QED
      BY <1>4, <2>1 DEF DueKey, PresenceKey
  <1> QED
    BY <1>1, <1>2, <1>3, <1>4

\* The messages MaintainPresence and Announce show, if they show one.
DueMessage == [key |-> DueKey(Due), kind |-> Due.kind, at |-> now, gen |-> gen]
CardMessage ==
  [key |-> AnnouncementKey(card), kind |-> "announcement", at |-> now, gen |-> gen]

\* A step shows nothing, or what is due, or the card's announcement.
LEMMA WhatShows ==
  ASSUME [Next]_vars
  PROVE  \/ history' = history
         \/ /\ MaintainPresence /\ Due # Nothing /\ ~Landed(DueKey(Due))
            /\ history' = history \cup {DueMessage} /\ room' = room \cup {DueMessage}
         \/ /\ Announce /\ ~Landed(AnnouncementKey(card))
            /\ history' = history \cup {CardMessage} /\ room' = room \cup {CardMessage}
  <1>1. CASE MaintainPresence
    BY <1>1 DEF MaintainPresence, Delivered, Failed, DueMessage, shownVars
  <1>2. CASE Announce
    BY <1>2 DEF Announce, Delivered, Failed, CardMessage, shownVars
  <1>3. CASE \/ Tick \/ Reap \/ PeerPosts \/ ReapBoard \/ PrepareCard \/ RecordActivation
             \/ RecordPresence \/ ReadQueries \/ ReadAgain
    BY <1>3 DEF Tick, Reap, PeerPosts, ReapBoard, PrepareCard, RecordActivation,
                RecordPresence, ReadQueries, ReadAgain, presenceVars, shownVars
  <1>4. CASE \/ SkipQuery \/ SendOffer \/ SendOfferFails \/ OfferConflict \/ EndPoll
             \/ Crash \/ UNCHANGED vars
    BY <1>4 DEF SkipQuery, SendOffer, SendOfferFails, OfferConflict, EndPoll, Crash, vars,
                presenceVars, shownVars
  <1> QED
    BY <1>1, <1>2, <1>3, <1>4 DEF Next

\* The steps at the discovery room touch nothing of the service room, the
\* presence row and the card.
QueryStep == \/ PeerPosts \/ ReapBoard \/ ReadQueries \/ ReadAgain \/ SkipQuery \/ SendOffer
             \/ SendOfferFails \/ OfferConflict \/ EndPoll

LEMMA QuerySteps ==
  ASSUME QueryStep
  PROVE  /\ UNCHANGED <<now, gen, room, history, presence, pending, recorded, card, lag>>
         /\ pc' \in {"idle", "reread", "discovery"} \/ pc' = pc
         /\ pc' \in {"reread", "discovery"} => pc' = pc \/ pc \in {"read", "reread"}
         /\ polled' = polled \/ (polled' = TRUE /\ pc = "discovery")
  <1>1. UNCHANGED <<now, presenceVars, lag>>
    BY DEF QueryStep, PeerPosts, ReapBoard, ReadQueries, ReadAgain, SkipQuery, SendOffer,
           SendOfferFails, OfferConflict, EndPoll
  <1>2. UNCHANGED <<now, gen, room, history, presence, pending, recorded, card, lag>>
    BY <1>1 DEF presenceVars, shownVars, rowVars
  <1>3. /\ pc' \in {"idle", "reread", "discovery"} \/ pc' = pc
        /\ pc' \in {"reread", "discovery"} => pc' = pc \/ pc \in {"read", "reread"}
    BY DEF QueryStep, PeerPosts, ReapBoard, ReadQueries, ReadAgain, SkipQuery, SendOffer,
           SendOfferFails, OfferConflict, EndPoll, Leave, Read
  <1>4. polled' = polled \/ (polled' = TRUE /\ pc = "discovery")
    BY DEF QueryStep, PeerPosts, ReapBoard, ReadQueries, ReadAgain, SkipQuery, SendOffer,
           SendOfferFails, OfferConflict, EndPoll
  <1> QED
    BY <1>2, <1>3, <1>4

\* The clock, the counters and the presence row only go forward.
LEMMA StepClock ==
  ASSUME BeaconInv, [Next]_vars
  PROVE  /\ Clock'
         /\ now <= now' /\ gen <= gen' /\ card <= card' /\ presence.at <= presence'.at
         /\ lag <= lag'
  <1>0. Clock
    BY DEF BeaconInv
  <1>1. CASE Tick
    BY <1>0, <1>1, TimingAssumption DEF Tick, Clock, presenceVars, shownVars, rowVars
  <1>2. CASE Reap
    BY <1>0, <1>2 DEF Reap, Clock, rowVars
  <1>3. CASE PrepareCard
    BY <1>0, <1>3 DEF PrepareCard, Clock, shownVars, rowVars
  <1>4. CASE RecordPresence
    BY <1>0, <1>4 DEF RecordPresence, WriteRow, Clock, shownVars
  <1>5. CASE RecordActivation
    <2>1. /\ UNCHANGED <<now, gen, card>> /\ presence'.at = now
          /\ presence' = [at |-> presence'.at, gen |-> presence'.gen]
      BY <1>5 DEF RecordActivation, WriteRow, shownVars
    <2>2. lag' \in Nat /\ lag <= lag'
      <3>1. CASE lag' = lag
        BY <1>0, <3>1 DEF Clock
      <3>2. CASE room # {} /\ lag' = now - Newest /\ lag < now - Newest
        <4>1. now - Newest \in Nat /\ lag \in Nat
          BY <1>5, <3>2, NewestFacts DEF RecordActivation, BeaconInv, Clock
        <4> QED
          BY <3>2, <4>1
      <3> QED
        BY <1>5, <3>1, <3>2 DEF RecordActivation, Larger
    <2> QED
      BY <1>0, <2>1, <2>2 DEF Clock
  <1>6. CASE MaintainPresence \/ Announce
    <2>1. /\ UNCHANGED <<now, card, lag>> /\ presence'.at = presence.at
          /\ presence' = [at |-> presence'.at, gen |-> presence'.gen]
      <3>1. [presence EXCEPT !.gen = RowGen] = [at |-> presence.at, gen |-> RowGen]
        BY <1>0 DEF Clock
      <3> QED
        BY <1>0, <1>6, <3>1 DEF MaintainPresence, Announce, Clock
    <2>2. gen' = gen
      BY <1>6 DEF MaintainPresence, Announce, Delivered, Failed, shownVars
    <2> QED
      BY <1>0, <2>1, <2>2 DEF Clock
  <1>7. CASE QueryStep
    BY <1>0, <1>7, QuerySteps DEF Clock
  <1>8. CASE Crash \/ UNCHANGED vars
    BY <1>0, <1>8 DEF Crash, vars, presenceVars, shownVars, rowVars, Clock
  <1> QED
    BY <1>1, <1>2, <1>3, <1>4, <1>5, <1>6, <1>7, <1>8 DEF Next, QueryStep

\* A message stays what it was: it keeps its time and key while the clock, the
\* generation and the card go on.
LEMMA MessagesStay ==
  ASSUME BeaconInv, [Next]_vars, NEW m \in history
  PROVE  MessageOK(m)'
  <1>1. /\ Clock /\ Clock' /\ now <= now' /\ gen <= gen' /\ card <= card'
        /\ MessageOK(m)
    BY StepClock DEF BeaconInv
  <1> QED
    BY <1>1, TimingAssumption DEF MessageOK, Clock, PeriodOf

\* The message shown is in order and has a key of its own.
LEMMA ShownOK ==
  ASSUME BeaconInv, [Next]_vars, NEW m \in history', m \notin history
  PROVE  MessageOK(m)' /\ ~Landed(m.key) /\ history' = history \cup {m}
         /\ room' = room \cup {m} /\ m.at = now /\ UNCHANGED <<now, gen, recorded>>
         /\ \/ m = DueMessage /\ MaintainPresence /\ Due # Nothing
            \/ m = CardMessage /\ Announce
  <1>1. Clock /\ Start \in Nat
    BY TimingAssumption DEF BeaconInv
  <1>2. CASE /\ MaintainPresence /\ Due # Nothing /\ ~Landed(DueKey(Due))
             /\ history' = history \cup {DueMessage} /\ room' = room \cup {DueMessage}
    <2>1. m = DueMessage
      BY <1>2
    <2>2. /\ m.at = now /\ m.gen = gen /\ m.kind = Due.kind /\ m.key = DueKey(Due)
      BY <2>1 DEF DueMessage
    <2>3. UNCHANGED <<now, card, recorded>>
      BY <1>2 DEF MaintainPresence
    <2>4. UNCHANGED gen
      BY <1>2 DEF MaintainPresence, Delivered, Failed, shownVars
    <2>5. CASE Due.kind = "recovery" /\ DueKey(Due).kind = "recovery"
      <3>1. m.key.kind = "recovery" /\ m.kind = "recovery"
        BY <2>2, <2>5
      <3>2. MessageOK(m)'
        BY <1>1, <2>2, <2>3, <2>4, <3>1 DEF MessageOK, Clock
      <3>4. ~Landed(m.key)
        BY <1>2, <2>2
      <3> QED
        BY <1>2, <2>1, <2>2, <2>3, <2>4, <3>2, <3>4
    <2>6. CASE /\ Due.kind \in {"anchor", "liveness"}
               /\ DueKey(Due) = [kind |-> "presence", gen |-> gen,
                                 slot |-> now \div PeriodOf(Due.kind), card |-> card]
      <3>1. /\ m.kind \in {"anchor", "liveness"} /\ m.key.kind = "presence"
            /\ m.key.gen = gen /\ m.key.card = card
            /\ m.key.slot = now \div PeriodOf(m.kind)
        BY <2>2, <2>6
      <3>2. m.key = [kind |-> "presence", gen |-> m.key.gen, slot |-> m.key.slot,
                     card |-> m.key.card]
        BY <2>2, <2>6, <3>1
      <3>3. MessageOK(m)'
        BY <1>1, <2>2, <2>3, <2>4, <3>1, <3>2 DEF MessageOK, Clock, PeriodOf
      <3>4. ~Landed(m.key)
        BY <1>2, <2>2
      <3> QED
        BY <1>2, <2>1, <2>2, <2>3, <2>4, <3>3, <3>4
    <2> QED
      BY <1>2, <2>5, <2>6, DueFacts DEF PeriodOf
  <1>3. CASE /\ Announce /\ ~Landed(AnnouncementKey(card))
             /\ history' = history \cup {CardMessage} /\ room' = room \cup {CardMessage}
    <2>1. m = CardMessage
      BY <1>3
    <2>2. /\ m.at = now /\ m.gen = gen /\ m.kind = "announcement"
          /\ m.key = AnnouncementKey(card) /\ m.key.kind = "announcement"
      BY <2>1 DEF CardMessage, AnnouncementKey
    <2>3. UNCHANGED <<now, card, recorded>>
      BY <1>3 DEF Announce
    <2>4. UNCHANGED gen
      BY <1>3 DEF Announce, Delivered, Failed, shownVars
    <2> QED
      BY <1>1, <1>3, <2>1, <2>2, <2>3, <2>4 DEF MessageOK, Clock
  <1> QED
    BY <1>2, <1>3, WhatShows

\* A step that shows nothing leaves the room as it is or empties it.
LEMMA RoomSteps ==
  ASSUME [Next]_vars, history' = history
  PROVE  UNCHANGED room \/ (Reap /\ room' = {})
  <1>1. CASE MaintainPresence \/ Announce
    <2>1. \/ UNCHANGED room
          \/ ~Landed(DueKey(Due)) /\ DueMessage \in history'
          \/ ~Landed(AnnouncementKey(card)) /\ CardMessage \in history'
      BY <1>1 DEF MaintainPresence, Announce, Delivered, Failed, DueMessage, CardMessage,
                  shownVars
    <2>2. DueMessage.key = DueKey(Due) /\ CardMessage.key = AnnouncementKey(card)
      BY DEF DueMessage, CardMessage
    <2> QED
      BY <2>1, <2>2 DEF Landed
  <1>2. CASE Reap
    BY <1>2 DEF Reap
  <1>3. CASE QueryStep
    BY <1>3, QuerySteps
  <1>4. CASE Tick \/ PrepareCard \/ RecordActivation \/ RecordPresence \/ Crash \/ UNCHANGED vars
    BY <1>4 DEF Tick, PrepareCard, RecordActivation, RecordPresence, Crash, vars,
                presenceVars, shownVars
  <1> QED
    BY <1>1, <1>2, <1>3, <1>4 DEF Next, QueryStep

\* Every message that is there stays, and one that is put in the table stays.
LEMMA LandedStays ==
  ASSUME [Next]_vars
  PROVE  history \subseteq history' /\ \A key : Landed(key) => Landed(key)'
  BY WhatShows DEF Landed

\* A delivery that returned leaves a message of its key.
LEMMA DeliveredLands ==
  ASSUME NEW key, NEW kind, Delivered(key, kind)
  PROVE  Landed(key)'
  <1>1. CASE Landed(key)
    BY <1>1 DEF Delivered, Landed, shownVars
  <1>2. CASE ~Landed(key)
    <2>1. PICK m : m = [key |-> key, kind |-> kind, at |-> now, gen |-> gen]
      OBVIOUS
    <2>2. m \in history' /\ m.key = key
      BY <1>2, <2>1 DEF Delivered
    <2> QED
      BY <2>2 DEF Landed
  <1> QED
    BY <1>1, <1>2

\* The bookkeeping of written rows.
LEMMA StepNoted ==
  ASSUME BeaconInv, [Next]_vars
  PROVE  Noted'
  <1>1. Clock /\ Clock' /\ presence.at <= presence'.at /\ Noted
        /\ \A m \in history : m.at \in Nat /\ m.at <= now
    BY StepClock DEF BeaconInv, MessageOK
  <1>2. CASE RecordPresence \/ RecordActivation
    <2>1. /\ history' = history /\ presence'.at = now
          /\ recorded' \subseteq recorded \cup {pending.key} /\ Landed(pending.key)
          /\ pc' \notin {"record", "row"}
      BY <1>1, <1>2 DEF RecordPresence, RecordActivation, WriteRow, Noted, shownVars
    <2> QED
      BY <1>1, <2>1, LandedStays DEF Noted
  <1>3. CASE MaintainPresence \/ Announce
    <2>1. recorded' = recorded /\ (pc' = "idle" \/ pc' = "read" \/ Landed(pending.key)')
      <3>1. CASE MaintainPresence
        <4>1. CASE pc' = "record"
          <5>1. PICK key, kind : key = DueKey(Due) /\ kind = Due.kind
            OBVIOUS
          <5>2. Delivered(key, kind) /\ pending'.key = key
            BY <3>1, <4>1, <5>1, <1>1 DEF MaintainPresence, Noted
          <5>3. Landed(key)'
            BY <5>2, DeliveredLands
          <5> QED
            BY <3>1, <5>2, <5>3 DEF MaintainPresence, Landed
        <4>2. CASE pc' # "record"
          BY <3>1, <4>2 DEF MaintainPresence
        <4> QED
          BY <4>1, <4>2
      <3>2. CASE Announce
        <4>1. CASE pc' = "row"
          <5>1. PICK key : key = AnnouncementKey(card)
            OBVIOUS
          <5>2. Delivered(key, "announcement") /\ pending'.key = key
            BY <3>2, <4>1, <5>1 DEF Announce
          <5>3. Landed(key)'
            BY <5>2, DeliveredLands
          <5> QED
            BY <3>2, <5>2, <5>3 DEF Announce, Landed
        <4>2. CASE pc' # "row"
          BY <3>2, <4>2 DEF Announce
        <4> QED
          BY <4>1, <4>2
      <3> QED
        BY <1>3, <3>1, <3>2
    <2>2. ASSUME NEW m \in history', m.key \in recorded PROVE m.at <= presence'.at
      <3>1. Landed(m.key)
        BY <1>1, <2>2 DEF Noted
      <3>2. m \in history
        BY <2>2, <3>1, ShownOK
      <3> QED
        BY <1>1, <2>2, <3>2 DEF Noted, Clock
    <2>3. \A key \in recorded' : Landed(key)'
      BY <1>1, <2>1, LandedStays DEF Noted
    <2>4. pc' \in {"record", "row"} => Landed(pending.key)'
      BY <2>1
    <2> QED
      BY <2>1, <2>2, <2>3, <2>4 DEF Noted
  <1>4. CASE \/ Tick \/ Reap \/ PrepareCard \/ QueryStep \/ Crash \/ UNCHANGED vars
    <2>1. UNCHANGED <<history, recorded, presence>>
      BY <1>4, QuerySteps DEF Tick, Reap, PrepareCard, Crash, vars, presenceVars, shownVars,
                              rowVars
    <2>2. pc' \in {"record", "row"} => pc' = pc /\ pending' = pending
      <3>1. CASE QueryStep
        BY <3>1, QuerySteps
      <3>2. CASE ~QueryStep
        BY <1>4, <3>2 DEF Tick, Reap, PrepareCard, Crash, Leave, vars, presenceVars, rowVars
      <3> QED
        BY <3>1, <3>2
    <2> QED
      BY <1>1, <2>1, <2>2 DEF Noted, Landed
  <1> QED
    BY <1>2, <1>3, <1>4 DEF Next, QueryStep

\* Every step keeps the messages' keys and the rows in order.
LEMMA StepBeacons == BeaconInv /\ [Next]_vars => BeaconInv'
  <1> SUFFICES ASSUME BeaconInv, [Next]_vars PROVE BeaconInv'
    OBVIOUS
  <1>1. Clock' /\ Noted'
    BY StepClock, StepNoted
  <1>2. \A m \in history' : MessageOK(m)'
    BY MessagesStay, ShownOK
  <1>3. OneEach'
    <2> SUFFICES ASSUME NEW a \in history', NEW b \in history', a.key = b.key
                 PROVE  a = b
      BY DEF OneEach
    <2>1. CASE a \in history /\ b \in history
      BY <2>1 DEF BeaconInv, OneEach
    <2>2. CASE a \notin history
      BY <2>2, ShownOK DEF Landed
    <2>3. CASE b \notin history
      BY <2>3, ShownOK DEF Landed
    <2> QED
      BY <2>1, <2>2, <2>3
  <1>4. RoomOK'
    <2>1. CASE history' = history
      BY <2>1, RoomSteps, FS_EmptySet DEF BeaconInv, RoomOK
    <2>2. CASE history' # history
      <3>1. PICK m \in history' : m \notin history
        BY <2>2, LandedStays
      <3> QED
        BY <3>1, ShownOK, RoomWithNew
    <2> QED
      BY <2>1, <2>2
  <1> QED
    BY <1>1, <1>2, <1>3, <1>4 DEF BeaconInv

\* At the start there is the announcement, and its row.
LEMMA InitBeacons == Init => BeaconInv
  <1> SUFFICES ASSUME Init PROVE BeaconInv
    OBVIOUS
  <1>1. PICK m : m = [key |-> AnnouncementKey(1), kind |-> "announcement", at |-> Start,
                      gen |-> 0]
    OBVIOUS
  <1>2. /\ room = {m} /\ history = {m} /\ now = Start /\ gen = 0 /\ card = 1 /\ lag = 0
        /\ recorded = {} /\ pc = "idle"
        /\ \E g \in {NoGen, 0} : presence = [at |-> Start, gen |-> g]
    BY <1>1 DEF Init
  <1>3. m.at = Start /\ m.gen = 0 /\ m.kind = "announcement" /\ m.key.kind = "announcement"
    BY <1>1 DEF AnnouncementKey
  <1>4. Start \in Nat /\ MaxTime \in Nat
    BY TimingAssumption
  <1>5. Clock
    BY <1>2, <1>4 DEF Clock
  <1>6. IsFiniteSet({m}) /\ m.at <= m.at
    <2>1. IsFiniteSet({m})
      BY FS_Singleton
    <2> QED
      BY <2>1, <1>3, <1>4
  <1>7. RoomOK
    BY <1>2, <1>6 DEF RoomOK
  <1>8. MessageOK(m)
    BY <1>2, <1>3, <1>4 DEF MessageOK
  <1> QED
    BY <1>2, <1>5, <1>7, <1>8 DEF BeaconInv, OneEach, Noted

\* A presence or announcement key belongs to one message, dated as it was sent,
\* and a message whose presence row was written is no younger than the row
\* there is now (announce_presence, _maintain_service_presence,
\* record_service_presence).
THEOREM BeaconInvAlways == Spec => []BeaconInv
  BY InitBeacons, StepBeacons, PTL DEF Spec

\* Of the liveness records of one card and generation only those of the slot
\* before are less than a period older than one that is due now.
LEMMA SlotBefore ==
  ASSUME BeaconInv, Due.kind = "liveness", Due # Nothing, ~Landed(DueKey(Due)),
         NEW a \in history, a.kind = "liveness", a.gen = gen, a.key.card = card,
         now - a.at < Liveness
  PROVE  a.key = [kind |-> "presence", gen |-> gen, slot |-> (now \div Liveness) - 1,
                  card |-> card]
  <1>1. /\ now \in Nat /\ a.at \in Nat /\ a.at <= now /\ Liveness \in Nat \ {0}
        /\ a.key.slot = a.at \div Liveness
        /\ a.key = [kind |-> "presence", gen |-> gen, slot |-> a.key.slot, card |-> card]
    BY TimingAssumption DEF BeaconInv, Clock, MessageOK, PeriodOf
  <1>2. DueKey(Due) = [kind |-> "presence", gen |-> gen, slot |-> now \div Liveness,
                       card |-> card]
    BY DueFacts
  <1>3. a.key.slot # now \div Liveness
    BY <1>1, <1>2 DEF Landed
  <1>4. /\ a.at \div Liveness \in Nat /\ now \div Liveness \in Nat
        /\ a.at \div Liveness <= now \div Liveness
    BY <1>1, SlotOrder
  <1>5. ~(a.at \div Liveness < (now \div Liveness) - 1)
    <2> SUFFICES ASSUME a.at \div Liveness < (now \div Liveness) - 1 PROVE FALSE
      OBVIOUS
    <2>1. PICK b : b = (now \div Liveness) - 1
      OBVIOUS
    <2>2. b \in Nat /\ a.at \div Liveness < b /\ b < now \div Liveness
      BY <1>4, <2>1
    <2> QED
      BY <1>1, <2>2, SlotBetween
  <1>6. a.key.slot = (now \div Liveness) - 1
    BY <1>1, <1>3, <1>4, <1>5
  <1> QED
    BY <1>1, <1>6

\* A liveness record comes a whole period after those whose presence row was
\* written, and less than one after at most one other of its card, over
\* restarts, uncertain writes and activations that stop half way
\* (announce_presence keys the record by generation, slot and card).
THEOREM TwoPerPeriodAlways == Spec => TwoPerPeriod
  <1> DEFINE OneStep ==
        \A m \in history' \ history : m.kind = "liveness" =>
          /\ \A a \in CloseTo(m) : a.key \notin recorded
          /\ \A a, b \in CloseTo(m) :
               a.key.card = m.key.card /\ b.key.card = m.key.card => a = b
  <1>1. ASSUME BeaconInv, [Next]_vars PROVE OneStep
    <2> SUFFICES ASSUME NEW m \in history', m \notin history, m.kind = "liveness"
                 PROVE  /\ \A a \in CloseTo(m) : a.key \notin recorded
                        /\ \A a, b \in CloseTo(m) :
                             a.key.card = m.key.card /\ b.key.card = m.key.card => a = b
      OBVIOUS
    <2>1. /\ m = DueMessage /\ Due # Nothing /\ ~Landed(m.key)
      BY <1>1, ShownOK DEF CardMessage
    <2>2. /\ m.at = now /\ m.gen = gen /\ m.key = DueKey(Due) /\ Due.kind = "liveness"
      BY <2>1 DEF DueMessage
    <2>3. m.key.card = card /\ ~(now - presence.at < Liveness)
      BY <2>1, <2>2, DueFacts
    <2>4. ASSUME NEW a \in CloseTo(m), a.key \in recorded PROVE FALSE
      <3>1. a \in history /\ now - a.at < Liveness
        BY <2>2 DEF CloseTo, Beacons
      <3>2. a.at \in Nat /\ a.at <= presence.at /\ presence.at \in Nat /\ now \in Nat
        BY <1>1, <2>4, <3>1 DEF BeaconInv, MessageOK, Noted, Clock
      <3> QED
        BY <2>3, <3>1, <3>2, TimingAssumption
    <2>5. ASSUME NEW a \in CloseTo(m), NEW b \in CloseTo(m),
                 a.key.card = m.key.card, b.key.card = m.key.card
          PROVE  a = b
      <3>1. /\ a \in history /\ a.kind = "liveness" /\ a.gen = gen /\ a.key.card = card
            /\ now - a.at < Liveness
        BY <2>2, <2>3, <2>5 DEF CloseTo, Beacons
      <3>2. /\ b \in history /\ b.kind = "liveness" /\ b.gen = gen /\ b.key.card = card
            /\ now - b.at < Liveness
        BY <2>2, <2>3, <2>5 DEF CloseTo, Beacons
      <3>3. a.key = b.key
        BY <1>1, <2>1, <2>2, <3>1, <3>2, SlotBefore
      <3> QED
        BY <1>1, <3>1, <3>2, <3>3 DEF BeaconInv, OneEach
    <2> QED
      BY <2>4, <2>5
  <1>2. BeaconInv /\ [Next]_vars => [OneStep]_vars
    BY <1>1
  <1> QED
    BY <1>2, BeaconInvAlways, PTL DEF Spec, TwoPerPeriod

-----------------------------------------------------------------------------
(* Retention: while the first service room lives, its newest record is no     *)
(* older than the threshold and the lag together.                             *)

\* The presence row, and the one about to be written, are of the room's
\* generation or of none.
RowOK ==
  /\ presence.gen \in {gen, NoGen}
  /\ pc \in {"record", "row"} => pending.gen \in {gen, NoGen}

\* An anchor or a liveness record is in the room, beside the announcement.
BesideFirst ==
  \A m \in history : m.key.kind = "presence" => m \in room /\ room # {m}

PastPresence == {"read", "reread", "discovery"}

\* A liveness record of the present card is recorded in the presence row, or
\* no poll has completed since it was shown: the ticks since then were missed.
Recorded ==
  \A m \in Beacons("liveness") :
    \/ m.key.card # card
    \/ m.at <= presence.at
    \/ /\ now - m.at <= lag /\ m.at - presence.at >= Liveness
       /\ ~polled /\ pc \notin PastPresence

\* A poll that gets past the presence record finds or leaves it young.
YoungRow == polled \/ pc \in PastPresence => now - presence.at < Threshold

\* The presence row is ahead of the newest record by the lag at most.
RowNearNewest ==
  /\ presence.at - Newest <= lag
  /\ pc = "record" => now - Newest <= lag

YoungRoom == now - Newest <= Threshold + lag

FirstRoom ==
  /\ room # {} /\ polled \in BOOLEAN
  /\ RowOK /\ BesideFirst /\ Recorded /\ YoungRow /\ RowNearNewest /\ YoungRoom

RetentionInv == BeaconInv /\ (gen = 0 => FirstRoom) /\ StaysDiscoverable

\* A room with two records is not on one record.
LEMMA NotOne ==
  ASSUME BeaconInv, NEW m \in room, room # {m}
  PROVE  Cardinality(room) # 1
  BY FS_Singleton DEF BeaconInv, RoomOK

\* A room that has records, and gets one more, needs no more attention.
LEMMA MoreRoom ==
  ASSUME BeaconInv, room # {}, NEW z, room' = room \cup {z}, z \notin room
  PROVE  Threshold <= Threshold' /\ Threshold' = Liveness
  <1>1. IsFiniteSet(room \cup {z})
    BY FS_AddElement DEF BeaconInv, RoomOK
  <1>2. Cardinality(room \cup {z}) # 1
    BY <1>1, FS_Singleton
  <1> QED
    BY <1>2, TimingAssumption DEF Threshold

\* Steps that leave the rooms' records and the presence row's time alone, and
\* do not get a poll past its presence record.
LEMMA SteadySteps ==
  ASSUME BeaconInv, FirstRoom, UNCHANGED <<now, gen, room, history, lag>>,
         presence'.at = presence.at, presence'.gen \in {gen, NoGen},
         card' \in {card, card + 1}, polled' \in BOOLEAN,
         polled' => polled \/ pc = "discovery",
         pc' \in PastPresence => pc \in PastPresence, pc' = "record" => pc = "record",
         pc' \in {"record", "row"} => pending'.gen \in {gen, NoGen}
  PROVE  FirstRoom'
  <1>1. Newest' = Newest /\ Threshold' = Threshold
    BY DEF Newest, Threshold
  <1>2. RowOK' /\ BesideFirst'
    BY DEF FirstRoom, RowOK, BesideFirst
  <1>3. Recorded'
    <2> SUFFICES ASSUME NEW m \in Beacons("liveness"), m.key.card = card',
                        ~(m.at <= presence.at)
                 PROVE  /\ now - m.at <= lag /\ m.at - presence.at >= Liveness
                        /\ ~polled' /\ pc' \notin PastPresence
      BY DEF Recorded, Beacons
    <2>1. m.key.card \in Nat /\ m.key.card <= card /\ card \in Nat
      BY DEF Beacons, BeaconInv, MessageOK, Clock
    <2>2. m.key.card = card
      BY <2>1
    <2>3. /\ now - m.at <= lag /\ m.at - presence.at >= Liveness
          /\ ~polled /\ pc \notin PastPresence
      BY <2>2 DEF FirstRoom, Recorded
    <2>4. ~polled' /\ pc' \notin PastPresence
      BY <2>3 DEF PastPresence
    <2> QED
      BY <2>3, <2>4
  <1>4. YoungRow'
    <2>1. polled' \/ pc' \in PastPresence => polled \/ pc \in PastPresence
      BY DEF PastPresence
    <2> QED
      BY <1>1, <2>1 DEF FirstRoom, YoungRow
  <1>5. RowNearNewest' /\ YoungRoom'
    BY <1>1 DEF FirstRoom, RowNearNewest, YoungRoom
  <1> QED
    BY <1>2, <1>3, <1>4, <1>5 DEF FirstRoom

\* Time passes.
LEMMA TickRoom ==
  ASSUME BeaconInv, FirstRoom, Tick
  PROVE  FirstRoom'
  <1>1. /\ UNCHANGED <<gen, room, history, presence, card, pc, pending>> /\ pc = "idle"
        /\ now' = now + 1 /\ lag' = IF polled THEN lag ELSE lag + 1
        /\ polled' = FALSE
    BY DEF Tick, presenceVars, shownVars, rowVars
  <1>2. Newest' = Newest /\ Threshold' = Threshold /\ Newest \in Nat /\ Newest <= now
    BY <1>1, NewestFacts DEF Newest, Threshold, FirstRoom
  <1>3. now \in Nat /\ lag \in Nat /\ presence.at \in Nat /\ Threshold \in Nat \ {0}
    BY TimingAssumption DEF BeaconInv, Clock, Threshold
  <1>4. RowOK' /\ BesideFirst'
    BY <1>1 DEF FirstRoom, RowOK, BesideFirst
  <1>5. Recorded'
    <2>1. Beacons("liveness")' = Beacons("liveness")
      BY <1>1 DEF Beacons
    <2>2. \A m \in Beacons("liveness") : m.at \in Nat
      BY DEF BeaconInv, MessageOK, Beacons
    <2> QED
      BY <1>1, <1>3, <2>1, <2>2 DEF FirstRoom, Recorded, PastPresence
  <1>6. YoungRow' /\ RowNearNewest'
    BY <1>1, <1>2, <1>3 DEF FirstRoom, YoungRow, RowNearNewest, PastPresence
  <1>7. YoungRoom'
    <2>1. CASE polled
      <3>1. now - presence.at < Threshold /\ presence.at - Newest <= lag
        BY <2>1 DEF FirstRoom, YoungRow, RowNearNewest
      <3> QED
        BY <3>1, <2>1, <1>1, <1>2, <1>3 DEF YoungRoom
    <2>2. CASE ~polled
      BY <2>2, <1>1, <1>2, <1>3 DEF FirstRoom, YoungRoom
    <2> QED
      BY <2>1, <2>2
  <1> QED
    BY <1>1, <1>4, <1>5, <1>6, <1>7 DEF FirstRoom

\* The presence row is written, by a poll or by an activation, which may date it
\* ahead of the newest record.
LEMMA RecordRoom ==
  ASSUME BeaconInv, FirstRoom, RecordPresence \/ RecordActivation
  PROVE  FirstRoom'
  <1>1. /\ UNCHANGED <<now, gen, room, history, card, polled>>
        /\ presence'.at = now /\ presence'.gen \in {gen, NoGen}
        /\ pc' \in {"read", "idle"}
    BY DEF RecordPresence, RecordActivation, WriteRow, shownVars, FirstRoom, RowOK
  <1>2. Newest' = Newest /\ Threshold' = Threshold /\ Newest \in Nat
    BY <1>1, NewestFacts DEF Newest, Threshold, FirstRoom
  <1>3. now \in Nat /\ lag \in Nat /\ Threshold \in Nat \ {0}
    BY TimingAssumption DEF BeaconInv, Clock, Threshold
  <1>4. lag' \in Nat /\ lag <= lag' /\ now - Newest <= lag'
    <2>1. CASE RecordPresence
      BY <2>1, <1>2, <1>3 DEF RecordPresence, FirstRoom, RowNearNewest
    <2>2. CASE RecordActivation
      <3>1. lag' = Larger(lag, now - Newest)
        BY <2>2 DEF RecordActivation, FirstRoom
      <3>2. now - Newest \in Nat
        BY <1>3, NewestFacts DEF FirstRoom
      <3> QED
        BY <3>1, <3>2, <1>2, <1>3 DEF Larger
    <2> QED
      BY <2>1, <2>2
  <1>5. RowOK' /\ BesideFirst'
    BY <1>1 DEF FirstRoom, RowOK, BesideFirst
  <1>6. Recorded'
    BY <1>1 DEF Recorded, Beacons, BeaconInv, MessageOK
  <1>7. YoungRow' /\ RowNearNewest'
    BY <1>1, <1>2, <1>3, <1>4 DEF YoungRow, RowNearNewest
  <1>8. YoungRoom'
    <2>1. now' - Newest' <= lag' /\ Threshold' \in Nat /\ now' - Newest' \in Int
      BY <1>1, <1>2, <1>3, <1>4
    <2> QED
      BY <2>1, <1>4 DEF YoungRoom
  <1> QED
    BY <1>1, <1>5, <1>6, <1>7, <1>8 DEF FirstRoom

\* In the first room nothing is due after a completed poll, a due record is no
\* recovery, and a liveness record is due only a period after the presence row.
LEMMA DueInFirst ==
  ASSUME BeaconInv, FirstRoom, Due # Nothing
  PROVE  /\ ~polled
         /\ \/ /\ Due.kind = "anchor" /\ Cardinality(room) = 1
               /\ DueKey(Due) = [kind |-> "presence", gen |-> gen, slot |-> now \div Anchor,
                                 card |-> card]
            \/ /\ Due.kind = "liveness" /\ now - presence.at >= Liveness
               /\ DueKey(Due) = [kind |-> "presence", gen |-> gen, slot |-> now \div Liveness,
                                 card |-> card]
  <1>1. /\ room # {} /\ RowGen = gen /\ now \in Nat /\ presence.at \in Nat /\ Liveness \in Nat
        /\ presence # NoPresence
    BY TimingAssumption DEF FirstRoom, RowOK, RowGen, NoPresence, BeaconInv, Clock
  <1>2. ~(now - presence.at < Threshold)
    BY <1>1 DEF Due
  <1> QED
    BY <1>1, <1>2, DueFacts DEF FirstRoom, YoungRow

\* A due record that is there already was shown in a tick since which every
\* tick was missed.
LEMMA LandedSinceMissed ==
  ASSUME BeaconInv, FirstRoom, Due # Nothing, Landed(DueKey(Due))
  PROVE  now - Newest <= lag
  <1>1. PICK m \in history : m.key = DueKey(Due)
    BY DEF Landed
  <1>2. m.key.kind = "presence" /\ m.key.card = card
    BY <1>1, DueInFirst
  <1>3. m \in room /\ room # {m}
    BY <1>2 DEF FirstRoom, BesideFirst
  <1>4. Cardinality(room) # 1
    BY <1>3, NotOne
  <1>5. /\ now - presence.at >= Liveness /\ m.key.slot = now \div Liveness
    BY <1>1, <1>4, DueInFirst
  <1>6. /\ m.at \in Nat /\ Start <= m.at /\ m.at <= now
        /\ m.kind \in {"anchor", "liveness"} /\ m.key.slot = m.at \div PeriodOf(m.kind)
    BY <1>2 DEF BeaconInv, MessageOK
  <1>7. /\ now \in Nat /\ now <= Start + MaxTime /\ Start \in Nat /\ Start + MaxTime \in Nat
        /\ Liveness \in Nat \ {0} /\ Anchor \in Nat \ {0} /\ presence.at \in Nat /\ lag \in Nat
    BY TimingAssumption DEF BeaconInv, Clock
  <1>8. m.kind = "liveness"
    <2> SUFFICES ASSUME m.kind = "anchor" PROVE FALSE
      BY <1>6
    <2>1. m.at \div Anchor = now \div Liveness
      BY <1>5, <1>6 DEF PeriodOf
    <2>2. Start \div Anchor \in Nat /\ m.at \div Anchor \in Nat
          /\ Start \div Anchor <= m.at \div Anchor
      BY <1>6, <1>7, SlotOrder
    <2>3. /\ now \div Liveness \in Nat /\ (Start + MaxTime) \div Liveness \in Nat
          /\ now \div Liveness <= (Start + MaxTime) \div Liveness
      BY <1>7, SlotOrder
    <2> QED
      BY <2>1, <2>2, <2>3, TimingAssumption
  <1>9. m.at \div Liveness = now \div Liveness
    BY <1>5, <1>6, <1>8 DEF PeriodOf
  <1>10. ~(now - m.at >= Liveness)
    BY <1>6, <1>7, <1>9, SlotOrder
  <1>11. ~(m.at <= presence.at)
    BY <1>5, <1>6, <1>7, <1>10
  <1>12. now - m.at <= lag
    BY <1>2, <1>8, <1>11 DEF FirstRoom, Recorded, Beacons
  <1>13. Newest \in Nat /\ m.at <= Newest
    BY <1>3, NewestFacts
  <1> QED
    BY <1>6, <1>7, <1>12, <1>13

\* A record is shown for the first time: one that is due, or the announcement of
\* a card.
LEMMA ShowRoom ==
  ASSUME BeaconInv, FirstRoom, [Next]_vars, NEW z \in history', z \notin history, pc = "idle",
         UNCHANGED <<now, gen, card, polled, lag>>, presence'.at = presence.at,
         presence'.gen \in {gen, NoGen}, pc' \in {"idle", "record", "row"},
         pc' # "idle" => pending'.gen \in {gen, NoGen},
         z.kind = "liveness" =>
           ~polled /\ z.at - presence.at >= Liveness
  PROVE  FirstRoom'
  <1>1. z.at = now /\ history' = history \cup {z} /\ room' = room \cup {z} /\ z \notin room
    BY ShownOK DEF BeaconInv, RoomOK
  <1>2. Newest' = now
    BY <1>1, RoomWithNew
  <1>3. /\ now \in Nat /\ lag \in Nat /\ presence.at \in Nat /\ presence.at <= now
        /\ Threshold \in Nat \ {0} /\ Threshold' \in Nat \ {0} /\ Threshold <= Threshold'
    BY <1>1, MoreRoom, TimingAssumption DEF BeaconInv, Clock, Threshold, FirstRoom
  <1>4. RowOK'
    BY DEF RowOK
  <1>5. BesideFirst'
    <2>1. PICK a \in room : a # z
      BY <1>1 DEF FirstRoom
    <2> QED
      BY <1>1, <2>1 DEF FirstRoom, BesideFirst
  <1>6. Recorded'
    <2> SUFFICES ASSUME NEW m \in Beacons("liveness")', ~(m.key.card # card),
                        ~(m.at <= presence.at)
                 PROVE  /\ now - m.at <= lag /\ m.at - presence.at >= Liveness
                        /\ ~polled /\ pc' \notin PastPresence
      BY DEF Recorded
    <2>1. pc' \notin PastPresence
      BY DEF PastPresence
    <2>2. CASE m \in Beacons("liveness")
      BY <2>1, <2>2 DEF FirstRoom, Recorded
    <2>3. CASE m = z
      <3>1. m.kind = "liveness"
        BY DEF Beacons
      <3> QED
        BY <2>1, <2>3, <3>1, <1>1, <1>3
    <2> QED
      BY <1>1, <2>2, <2>3 DEF Beacons
  <1>7. YoungRow'
    <2>1. polled' \/ pc' \in PastPresence => polled
      BY DEF PastPresence
    <2> QED
      BY <1>3, <2>1 DEF FirstRoom, YoungRow
  <1>8. RowNearNewest'
    BY <1>2, <1>3 DEF RowNearNewest
  <1>9. YoungRoom'
    <2>1. now' - Newest' = 0
      BY <1>2, <1>3
    <2> QED
      BY <2>1, <1>3 DEF YoungRoom
  <1>10. room' # {} /\ polled' \in BOOLEAN
    BY <1>1 DEF FirstRoom
  <1> QED
    BY <1>4, <1>5, <1>6, <1>7, <1>8, <1>9, <1>10 DEF FirstRoom

\* activate's announcement.
LEMMA AnnounceRoom ==
  ASSUME BeaconInv, FirstRoom, Announce
  PROVE  FirstRoom'
  <1>1. /\ UNCHANGED <<now, presence, card, polled, lag>> /\ pc = "idle"
        /\ pc' \in {"idle", "row"}
        /\ pc' = "row" => pending'.gen \in {gen, NoGen}
    BY DEF Announce
  <1>2. UNCHANGED gen /\ [Next]_vars
    BY DEF Announce, Delivered, Failed, shownVars, Next
  <1>3. presence'.at = presence.at /\ presence'.gen \in {gen, NoGen} /\ polled \in BOOLEAN
    BY <1>1 DEF FirstRoom, RowOK
  <1>4. CASE history' = history
    <2>1. UNCHANGED room
      BY <1>2, <1>4, RoomSteps DEF Announce, Reap, Delivered, Failed, shownVars
    <2> QED
      BY <1>1, <1>2, <1>3, <1>4, <2>1, SteadySteps DEF PastPresence
  <1>5. CASE history' # history
    <2>1. PICK z \in history' : z \notin history
      BY <1>2, <1>5, LandedStays
    <2>2. z.kind # "liveness"
      <3>1. z = CardMessage
        BY <2>1, WhatShows, <1>2 DEF Announce, Delivered, Failed, CardMessage, shownVars
      <3> QED
        BY <3>1 DEF CardMessage
    <2> QED
      BY <1>1, <1>2, <1>3, <2>1, <2>2, ShowRoom
  <1> QED
    BY <1>4, <1>5

\* _maintain_service_presence.
LEMMA MaintainRoom ==
  ASSUME BeaconInv, FirstRoom, MaintainPresence
  PROVE  FirstRoom'
  <1>1. /\ UNCHANGED <<now, card, polled, lag>> /\ pc = "idle"
        /\ pc' \in {"idle", "read", "record"}
        /\ pc' = "record" => pending'.gen = gen
    BY DEF MaintainPresence
  <1>2. UNCHANGED gen /\ [Next]_vars
    BY DEF MaintainPresence, Delivered, Failed, shownVars, Next
  <1>3. /\ presence'.at = presence.at /\ presence'.gen \in {gen, NoGen} /\ polled \in BOOLEAN
        /\ room # {} /\ RowGen = gen /\ presence # NoPresence
    <2>1. RowGen = gen /\ presence # NoPresence /\ room # {} /\ polled \in BOOLEAN
      BY DEF FirstRoom, RowOK, RowGen, NoPresence, BeaconInv, Clock
    <2>2. presence' = [presence EXCEPT !.gen = gen]
      BY <2>1 DEF MaintainPresence
    <2>3. [presence EXCEPT !.gen = gen] = [at |-> presence.at, gen |-> gen]
      BY DEF BeaconInv, Clock
    <2> QED
      BY <2>1, <2>2, <2>3
  <1>4. CASE Due = Nothing
    <2>1. UNCHANGED <<room, history>> /\ pc' = "read"
      BY <1>4 DEF MaintainPresence, shownVars
    <2>2. Newest' = Newest /\ Threshold' = Threshold
      BY <2>1 DEF Newest, Threshold
    <2>3. now - presence.at < Threshold
      <3>1. [kind |-> IF Cardinality(room) = 1 THEN "anchor" ELSE "liveness",
             slot |-> Slot(Threshold)] # Nothing
        BY DEF Nothing
      <3> QED
        BY <1>3, <1>4, <3>1 DEF Due
    <2>4. RowOK' /\ BesideFirst'
      BY <1>2, <1>3, <2>1 DEF FirstRoom, RowOK, BesideFirst
    <2>5. Recorded'
      <3> SUFFICES ASSUME NEW m \in Beacons("liveness"), m.key.card = card,
                          ~(m.at <= presence.at)
                   PROVE  FALSE
        BY <1>1, <1>3, <2>1 DEF Recorded, Beacons
      <3>1. m.at - presence.at >= Liveness
        BY DEF FirstRoom, Recorded
      <3>2. m \in history /\ m.key.kind = "presence" /\ m.at \in Nat /\ m.at <= now
        BY DEF Beacons, BeaconInv, MessageOK
      <3>3. m \in room /\ room # {m}
        BY <3>2 DEF FirstRoom, BesideFirst
      <3>4. Threshold = Liveness
        BY <3>3, NotOne DEF Threshold
      <3> QED
        BY <3>1, <3>2, <3>4, <2>3, TimingAssumption DEF BeaconInv, Clock
    <2>6. YoungRow'
      BY <1>1, <1>3, <2>2, <2>3 DEF YoungRow
    <2>7. RowNearNewest' /\ YoungRoom'
      BY <1>1, <1>3, <2>1, <2>2 DEF FirstRoom, RowNearNewest, YoungRoom
    <2> QED
      BY <1>1, <1>3, <2>1, <2>4, <2>5, <2>6, <2>7 DEF FirstRoom
  <1>5. CASE Due # Nothing /\ history' # history
    <2>1. PICK z \in history' : z \notin history
      BY <1>2, <1>5, LandedStays
    <2>2. z = DueMessage /\ pc' \in {"idle", "record", "row"}
      BY <1>1, <1>5, <2>1 DEF MaintainPresence, Delivered, Failed, DueMessage, shownVars
    <2>3. z.kind = "liveness" => ~polled /\ z.at - presence.at >= Liveness
      BY <1>5, <2>2, DueInFirst DEF DueMessage
    <2> QED
      BY <1>1, <1>2, <1>3, <2>1, <2>2, <2>3, ShowRoom
  <1>6. CASE Due # Nothing /\ history' = history
    <2>1. UNCHANGED room
      BY <1>2, <1>6, RoomSteps DEF MaintainPresence, Reap, Delivered, Failed, shownVars
    <2>2. CASE pc' = "idle"
      BY <1>1, <1>2, <1>3, <1>6, <2>1, <2>2, SteadySteps DEF PastPresence
    <2>3. CASE pc' = "record"
      <3>1. Newest' = Newest /\ Threshold' = Threshold
        BY <2>1 DEF Newest, Threshold
      <3>2. Landed(DueKey(Due))
        <4>1. \/ Landed(DueKey(Due))
              \/ DueMessage \in history'
          BY <1>1, <1>6, <2>3 DEF MaintainPresence, Delivered, DueMessage
        <4>2. DueMessage.key = DueKey(Due)
          BY DEF DueMessage
        <4> QED
          BY <1>6, <4>1, <4>2 DEF Landed
      <3>3. now - Newest <= lag
        BY <1>6, <3>2, LandedSinceMissed
      <3>4. RowOK' /\ BesideFirst'
        BY <1>1, <1>2, <1>3, <1>6, <2>1 DEF FirstRoom, RowOK, BesideFirst
      <3>5. Recorded'
        BY <1>1, <1>3, <1>6, <2>3 DEF FirstRoom, Recorded, Beacons, PastPresence
      <3>6. YoungRow'
        BY <1>1, <1>3, <2>3, <3>1 DEF FirstRoom, YoungRow, PastPresence
      <3>7. RowNearNewest' /\ YoungRoom'
        BY <1>1, <1>3, <3>1, <3>3 DEF FirstRoom, RowNearNewest, YoungRoom
      <3> QED
        BY <1>1, <1>3, <2>1, <3>4, <3>5, <3>6, <3>7 DEF FirstRoom
    <2> QED
      BY <1>6, <2>2, <2>3 DEF MaintainPresence
  <1> QED
    BY <1>4, <1>5, <1>6

\* Every step keeps the first room young, or the polls failed for too long.
LEMMA StepRetention == RetentionInv /\ [Next]_vars => RetentionInv'
  <1> SUFFICES ASSUME RetentionInv, [Next]_vars PROVE RetentionInv'
    OBVIOUS
  <1>1. BeaconInv /\ BeaconInv' /\ StaysDiscoverable
    BY StepBeacons DEF RetentionInv
  <1>2. gen \in Nat /\ gen' \in Nat /\ gen <= gen' /\ lag \in Nat /\ lag' \in Nat
        /\ lag <= lag'
    BY <1>1, StepClock DEF BeaconInv, Clock
  <1>3. /\ SingleLife \in Nat /\ IdleLife \in Nat /\ Anchor \in Nat /\ Liveness \in Nat
    BY TimingAssumption
  <1>4. CASE gen # 0
    <2>1. gen > 0 /\ gen' # 0
      BY <1>2, <1>4
    <2> QED
      BY <1>1, <1>2, <1>3, <2>1 DEF RetentionInv, StaysDiscoverable
  <1>5. CASE gen = 0 /\ Reap
    <2>1. FirstRoom
      BY <1>5 DEF RetentionInv
    <2>2. /\ now - Newest >= (IF Cardinality(room) = 1 THEN SingleLife ELSE IdleLife)
          /\ gen' = gen + 1 /\ lag' = lag
      BY <1>5 DEF Reap
    <2>3. now - Newest <= Threshold + lag /\ Newest \in Nat /\ now \in Nat
      BY <1>1, <2>1, NewestFacts DEF FirstRoom, YoungRoom, BeaconInv, Clock
    <2>4. lag >= SingleLife - Anchor \/ lag >= IdleLife - Liveness
      BY <1>2, <1>3, <2>2, <2>3 DEF Threshold
    <2> QED
      BY <1>1, <1>2, <1>5, <2>2, <2>4 DEF RetentionInv, StaysDiscoverable
  <1>6. CASE gen = 0 /\ ~Reap
    <2>1. FirstRoom /\ polled \in BOOLEAN
      BY <1>6 DEF RetentionInv, FirstRoom
    <2>2. FirstRoom' /\ gen' = gen
      <3>1. CASE Tick
        BY <3>1, <1>1, <2>1, TickRoom DEF Tick, presenceVars, shownVars
      <3>2. CASE Announce
        BY <3>2, <1>1, <2>1, AnnounceRoom DEF Announce, Delivered, Failed, shownVars
      <3>3. CASE MaintainPresence
        BY <3>3, <1>1, <2>1, MaintainRoom DEF MaintainPresence, Delivered, Failed, shownVars
      <3>4. CASE RecordPresence \/ RecordActivation
        BY <3>4, <1>1, <2>1, RecordRoom DEF RecordPresence, RecordActivation, shownVars
      <3>5. CASE QueryStep
        <4>1. /\ UNCHANGED <<now, gen, room, history, presence, pending, card, lag>>
              /\ pc' \in {"idle", "reread", "discovery"} \/ pc' = pc
              /\ pc' \in {"reread", "discovery"} => pc' = pc \/ pc \in {"read", "reread"}
              /\ polled' = polled \/ (polled' = TRUE /\ pc = "discovery")
          BY <3>5, QuerySteps
        <4>2. polled' \in BOOLEAN /\ (polled' => polled \/ pc = "discovery")
          <5>1. CASE polled' = polled
            BY <5>1, <2>1, Zenon
          <5>2. CASE polled' = TRUE /\ pc = "discovery"
            BY <5>2, Zenon
          <5> QED
            BY <4>1, <5>1, <5>2, Zenon
        <4>3. /\ pc' \in PastPresence => pc \in PastPresence
              /\ pc' \in {"record", "row"} => pc' = pc
          BY <4>1 DEF PastPresence
        <4>4. /\ presence'.at = presence.at /\ presence'.gen \in {gen, NoGen}
              /\ card' \in {card, card + 1} /\ (pc' = "record" => pc = "record")
              /\ pc' \in {"record", "row"} => pending'.gen \in {gen, NoGen}
          BY <2>1, <4>1, <4>3 DEF FirstRoom, RowOK
        <4> QED
          BY <1>1, <2>1, <4>1, <4>2, <4>3, <4>4, SteadySteps, Zenon
      <3>6. CASE PrepareCard \/ Crash \/ UNCHANGED vars
        <4>1. /\ UNCHANGED <<now, gen, room, history, presence, polled, lag>>
              /\ card' \in {card, card + 1}
              /\ pc' = "idle" \/ UNCHANGED <<pc, pending>>
          BY <3>6 DEF PrepareCard, Crash, Leave, vars, presenceVars, shownVars, rowVars
        <4>2. /\ pc' \in PastPresence => pc \in PastPresence
              /\ pc' = "record" => pc = "record"
          BY <4>1 DEF PastPresence
        <4>3. /\ presence'.at = presence.at /\ presence'.gen \in {gen, NoGen}
              /\ pc' \in {"record", "row"} => pending'.gen \in {gen, NoGen}
          BY <2>1, <4>1 DEF FirstRoom, RowOK
        <4>4. polled' \in BOOLEAN /\ (polled' => polled)
          BY <2>1, <4>1, Zenon
        <4> QED
          BY <1>1, <2>1, <4>1, <4>2, <4>3, <4>4, SteadySteps, Zenon
      <3> QED
        BY <1>6, <3>1, <3>2, <3>3, <3>4, <3>5, <3>6 DEF Next, QueryStep
    <2> QED
      BY <1>1, <1>6, <2>2 DEF RetentionInv, StaysDiscoverable
  <1> QED
    BY <1>4, <1>5, <1>6

\* At the start the room holds the announcement, just shown and recorded.
LEMMA InitRetention == Init => RetentionInv
  <1> SUFFICES ASSUME Init PROVE RetentionInv
    OBVIOUS
  <1>1. PICK m : m = [key |-> AnnouncementKey(1), kind |-> "announcement", at |-> Start,
                      gen |-> 0]
    OBVIOUS
  <1>2. /\ room = {m} /\ history = {m} /\ now = Start /\ gen = 0 /\ lag = 0
        /\ pc = "idle" /\ polled = FALSE
        /\ \E g \in {NoGen, 0} : presence = [at |-> Start, gen |-> g]
    BY <1>1 DEF Init
  <1>3. m.at = Start /\ m.kind = "announcement" /\ m.key.kind = "announcement"
    BY <1>1 DEF AnnouncementKey
  <1>4. Start \in Nat /\ Threshold \in Nat
    BY TimingAssumption DEF Threshold
  <1>5. Newest = Start
    <2>1. m \in room /\ \A k \in room : k.at \in Nat /\ k.at <= m.at
      BY <1>2, <1>3, <1>4
    <2>2. NewestOf(room) = m.at
      BY <2>1, NewestIs
    <2> QED
      BY <2>2, <1>3 DEF Newest, NewestOf
  <1>6. presence.at = Start /\ presence.gen \in {gen, NoGen}
    BY <1>2
  <1>7. RowOK /\ BesideFirst /\ Recorded
    BY <1>2, <1>3, <1>6 DEF RowOK, BesideFirst, Recorded, Beacons
  <1>8. RowNearNewest /\ YoungRoom
    <2>1. now - Newest = 0 /\ presence.at - Newest = 0
      BY <1>2, <1>4, <1>5, <1>6
    <2> QED
      BY <2>1, <1>2, <1>4 DEF RowNearNewest, YoungRoom
  <1>9. YoungRow /\ polled \in BOOLEAN
    BY <1>2 DEF YoungRow, PastPresence
  <1>10. FirstRoom
    BY <1>2, <1>7, <1>8, <1>9 DEF FirstRoom
  <1> QED
    BY <1>2, <1>10, InitBeacons DEF RetentionInv, StaysDiscoverable

\* The service room, and with it the signed announcement, is reaped for the
\* first time only if polls failed for longer than one of the two margins,
\* whatever sends fail or processes die in between, or an activation that showed
\* nothing dated the presence row that far ahead (PRESENCE_ANCHOR_AFTER,
\* PRESENCE_LIVENESS_AFTER, _maintain_service_presence, activate).
THEOREM StaysDiscoverableAlways == Spec => []StaysDiscoverable
  <1>1. RetentionInv => StaysDiscoverable
    BY DEF RetentionInv
  <1> QED
    BY <1>1, InitRetention, StepRetention, PTL DEF Spec
=============================================================================
