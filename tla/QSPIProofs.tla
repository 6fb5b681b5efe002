----------------------------- MODULE QSPIProofs -----------------------------
(***************************************************************************)
(* Theorems about QSPI: splitting at the pages is right for every size of  *)
(* a page, every range and every interference.                             *)
(***************************************************************************)
EXTENDS QSPI, TLAPS

-----------------------------------------------------------------------------
(***************************************************************************)
(* Division by the page size.                                              *)
(***************************************************************************)
\* Quotient and remainder.
LEMMA Division ==
    ASSUME NEW a \in Nat, NEW m \in Nat \ {0}
    PROVE  /\ a \div m \in Nat
           /\ a % m \in 0 .. m - 1
           /\ a = m * (a \div m) + (a % m)
  OBVIOUS

\* They are the only ones.
LEMMA Unique ==
    ASSUME NEW q \in Int, NEW r \in Nat, NEW m \in Nat \ {0}, r < m
    PROVE  /\ (m * q + r) % m = r
           /\ (m * q + r) \div m = q
  OBVIOUS

\* Within a page of the start of one.
LEMMA Small ==
    ASSUME NEW d \in Nat, NEW m \in Nat \ {0}, d < m
    PROVE  d % m = d /\ (d - m) % m = d
  OBVIOUS

\* The end of a page is the start of the next.
LEMMA NextPageStart ==
    ASSUME NEW a \in Nat, NEW m \in Nat \ {0}
    PROVE  (a + (m - (a % m))) % m = 0
  <1> DEFINE q == (a \div m) + 1
  <1>1. q \in Int
    BY Division
  <1>2. a + (m - (a % m)) = m * q + 0
    BY Division
  <1>3. (m * q + 0) % m = 0
    <2> HIDE DEF q
    <2> QED  BY <1>1, Unique
  <1> QED  BY <1>2, <1>3

LEMMA PageLess ==
    ASSUME NEW n \in Nat, NEW m \in Nat \ {0}, n \div m > 0
    PROVE  n >= m /\ (n - m) \div m = (n \div m) - 1
  <1>1. n = m * (n \div m) + (n % m) /\ n \div m \in Nat /\ n % m \in 0 .. m - 1
    BY Division
  <1> DEFINE q == (n \div m) - 1
             r == n % m
  <1>2. n - m = m * q + r
    BY <1>1
  <1>3. n >= m
    BY <1>1
  <1>4. q \in Int /\ r \in Nat /\ r < m
    BY <1>1
  <1>5. (m * q + r) \div m = q
    <2> HIDE DEF q, r
    <2> QED  BY <1>4, Unique
  <1> QED  BY <1>2, <1>3, <1>5

LEMMA NoPage ==
    ASSUME NEW n \in Nat, NEW m \in Nat \ {0}, ~(n \div m > 0)
    PROVE  n < m
  BY Division

LEMMA FewerPages ==
    ASSUME NEW n \in Nat, NEW m \in Nat \ {0}
    PROVE  n \div m \in 0 .. n
  <1>1. n = m * (n \div m) + (n % m) /\ n \div m \in Nat /\ n % m \in 0 .. m - 1
    BY Division
  <1> QED  BY <1>1

-----------------------------------------------------------------------------
(***************************************************************************)
(* Pieces.                                                                 *)
(***************************************************************************)
\* What the invariant says of one thread.
Own(u) == Splitting(u) /\ SmoothProgress(u) /\ ChangeDone(u) /\ ReadDone(u)

LEMMA IInvByThread == IInv <=> TypeOK /\ \A u \in Threads : Own(u)
  BY DEF IInv, Own, ChangeComplete, ReadComplete

LEMMA CallFacts ==
    ASSUME NEW c \in Calls
    PROVE  /\ c.op \in {"read", "write", "erase"}
           /\ c.address \in 0 .. MemorySize - 1
           /\ c.length \in 0 .. MaxLength
           /\ c.address + c.length <= MemorySize
  BY CallsAssumption DEF Call, Memory

\* Programming within a page reaches the bytes that it is for.
LEMMA WithinPage ==
    ASSUME NEW start \in Nat, NEW data \in Int, NEW n \in Nat,
           (start % m_page_size) + n <= m_page_size,
           NEW a \in Memory
    PROVE  Programmed(start, data, n)[a] =
               IF a \in start .. start + n - 1
               THEN memory[a] \cap Data[data + (a - start)]
               ELSE memory[a]
  <1> DEFINE m == m_page_size
             r == start % m
  <1>1. m \in Nat \ {0} /\ r \in 0 .. m - 1 /\ a \in Int /\ a >= 0
    BY Division, SizesAssumption, MemoryAssumption DEF Memory
  <1>2. Programmed(start, data, n)[a] =
            IF a \in start - r .. start - r + m - 1 /\ (a - start) % m < n
            THEN memory[a] \cap Data[data + ((a - start) % m)]
            ELSE memory[a]
    BY DEF Programmed
  <1>3. r + n <= m
    OBVIOUS
  <1> HIDE DEF m, r
  <1>4. CASE a \notin start - r .. start - r + m - 1
    BY <1>1, <1>2, <1>3, <1>4
  <1>5. CASE a \in start .. start - r + m - 1
    <2> DEFINE d == a - start
    <2>1. d \in Nat /\ d < m /\ d = a - start
      BY <1>1, <1>5
    <2> HIDE DEF d
    <2>2. d % m = d
      BY <1>1, <2>1, Small
    <2>3. (a - start) % m = a - start
      BY <2>1, <2>2
    <2>4. a - start < n <=> a \in start .. start + n - 1
      BY <1>1, <1>5
    <2>5. a \in start - r .. start - r + m - 1
      BY <1>1, <1>5
    <2> QED  BY <1>2, <2>3, <2>4, <2>5
  <1>6. CASE a \in start - r .. start - 1
    <2> DEFINE d == a - start + m
    <2>1. d \in Nat /\ d < m /\ d = a - start + m
      BY <1>1, <1>6
    <2> HIDE DEF d
    <2>2. (d - m) % m = d
      BY <1>1, <2>1, Small
    <2>3. a - start = d - m
      BY <1>1, <2>1
    <2> QED  BY <1>1, <1>2, <1>3, <1>6, <2>1, <2>2, <2>3
  <1> QED  BY <1>1, <1>4, <1>5, <1>6

\* A piece is not larger than what is left, and lies in a page.
LEMMA PieceInPage ==
    ASSUME IInv, NEW t \in Threads, pc[t] = "send", call[t].op # "erase"
    PROVE  /\ size(t) \in 0 .. length[t]
           /\ (address[t] % m_page_size) + size(t) <= m_page_size
           /\ IsLast(t) => size(t) = length[t]
  <1>1. /\ length[t] \in Nat /\ address[t] \in Nat /\ page_count[t] \in Nat
        /\ piece[t] \in {"first", "page", "last"}
    BY DEF IInv, TypeOK
  <1>2. Splitting(t)
    BY DEF IInv
  <1>3. m_page_size \in Nat \ {0}
    BY SizesAssumption
  <1>4. address[t] % m_page_size \in 0 .. m_page_size - 1
    BY <1>1, <1>3, Division
  <1>5. CASE IsSplit(t)
    BY <1>1, <1>3, <1>4, <1>5 DEF IsSplit, IsLast, size, mergin
  <1>6. CASE piece[t] = "page"
    <2>1. length[t] >= m_page_size /\ address[t] % m_page_size = 0
      BY <1>1, <1>2, <1>3, <1>6, PageLess DEF Splitting, InCall
    <2> QED  BY <1>1, <1>3, <1>6, <2>1 DEF IsSplit, IsLast, size
  <1>7. CASE piece[t] = "first" /\ ~IsSplit(t)
    BY <1>1, <1>3, <1>4, <1>7 DEF IsSplit, IsLast, size, mergin
  <1>8. CASE piece[t] = "last"
    <2>1. length[t] < m_page_size /\ address[t] % m_page_size = 0
      BY <1>2, <1>8 DEF Splitting, InCall
    <2> QED  BY <1>1, <1>3, <1>8, <2>1 DEF IsSplit, IsLast, size
  <1> QED  BY <1>1, <1>5, <1>6, <1>7, <1>8

\* After a piece that is not the last comes one that begins at a page.
LEMMA NextPieceAtPage ==
    ASSUME IInv, NEW t \in Threads, pc[t] = "send", call[t].op # "erase",
           ~IsLast(t), NextPiece(t)
    PROVE  /\ address' = [address EXCEPT ![t] = @ + size(t)]
           /\ buff' = [buff EXCEPT ![t] = @ + size(t)]
           /\ length' = [length EXCEPT ![t] = @ - size(t)]
           /\ result' = [result EXCEPT ![t] = @ + size(t)]
           /\ address'[t] % m_page_size = 0
           /\ \E n \in 0 .. length'[t] :
                /\ page_count' = [page_count EXCEPT ![t] = n]
                /\ n = length'[t] \div m_page_size
                /\ piece' = [piece EXCEPT ![t] = IF n > 0 THEN "page" ELSE "last"]
           /\ piece'[t] = "last" => length'[t] < m_page_size
  <1>1. /\ length \in [Threads -> Nat] /\ address \in [Threads -> Nat]
        /\ page_count \in [Threads -> Nat]
        /\ piece \in [Threads -> {"first", "page", "last"}]
    BY DEF IInv, TypeOK
  <1>2. Splitting(t)
    BY DEF IInv
  <1>3. m_page_size \in Nat \ {0}
    BY SizesAssumption
  <1> DEFINE left == length[t] - size(t)
             n == IF piece[t] = "first" THEN left \div m_page_size ELSE page_count[t] - 1
  <1>4. left \in Nat
    BY <1>1, PieceInPage
  <1>5. /\ address' = [address EXCEPT ![t] = @ + size(t)]
        /\ buff' = [buff EXCEPT ![t] = @ + size(t)]
        /\ length' = [length EXCEPT ![t] = left]
        /\ page_count' = [page_count EXCEPT ![t] = n]
        /\ piece' = [piece EXCEPT ![t] = IF n > 0 THEN "page" ELSE "last"]
        /\ result' = [result EXCEPT ![t] = @ + size(t)]
    BY DEF NextPiece, Advance
  <1>6. (address[t] + size(t)) % m_page_size = 0 /\ n = left \div m_page_size
    <2>1. CASE IsSplit(t)
      <3>1. size(t) = m_page_size - (address[t] % m_page_size) /\ piece[t] = "first"
        BY <2>1 DEF IsSplit, size, mergin
      <3> QED  BY <1>1, <1>3, <3>1, NextPageStart
    <2>2. CASE piece[t] = "page"
      <3>1. /\ page_count[t] > 0 /\ page_count[t] = length[t] \div m_page_size
            /\ address[t] % m_page_size = 0
        BY <1>2, <2>2 DEF Splitting, InCall
      <3>2. size(t) = m_page_size
        BY <2>2 DEF IsSplit, size
      <3>3. left \div m_page_size = (length[t] \div m_page_size) - 1
        BY <1>1, <1>3, <3>1, <3>2, PageLess
      <3>4. (address[t] + (m_page_size - (address[t] % m_page_size))) % m_page_size = 0
        BY <1>1, <1>3, NextPageStart
      <3>5. address[t] + size(t) = address[t] + (m_page_size - (address[t] % m_page_size))
        BY <1>1, <1>3, <3>1, <3>2
      <3> QED  BY <2>2, <3>1, <3>3, <3>4, <3>5
    <2> QED  BY <2>1, <2>2 DEF IsLast
  <1>7. n \in 0 .. left
    BY <1>3, <1>4, <1>6, FewerPages
  <1>8. ~(n > 0) => left < m_page_size
    BY <1>3, <1>4, <1>6, NoPage
  <1>9. /\ length'[t] = left /\ address'[t] = address[t] + size(t)
        /\ piece'[t] = IF n > 0 THEN "page" ELSE "last"
    BY <1>1, <1>5
  <1>10. address'[t] % m_page_size = 0 /\ n = length'[t] \div m_page_size
    BY <1>6, <1>9
  <1>11. length' = [length EXCEPT ![t] = @ - size(t)]
    BY <1>5
  <1>12. piece'[t] = "last" => length'[t] < m_page_size
    BY <1>8, <1>9
  <1>13. n \in 0 .. length'[t]
    BY <1>7, <1>9
  <1> HIDE DEF left, n
  <1>14. \E k \in 0 .. length'[t] :
            /\ page_count' = [page_count EXCEPT ![t] = k]
            /\ k = length'[t] \div m_page_size
            /\ piece' = [piece EXCEPT ![t] = IF k > 0 THEN "page" ELSE "last"]
    BY <1>5, <1>10, <1>13
  <1> QED  BY <1>5, <1>10, <1>11, <1>12, <1>14

-----------------------------------------------------------------------------
(***************************************************************************)
(* Steps of one thread and the others.                                     *)
(***************************************************************************)
\* What a step of t leaves alone, and of what others learn.
Foreign(t) ==
    \A u \in Threads \ {t} :
        /\ pc'[u] = pc[u] /\ call'[u] = call[u] /\ piece'[u] = piece[u]
        /\ address'[u] = address[u] /\ buff'[u] = buff[u] /\ length'[u] = length[u]
        /\ page_count'[u] = page_count[u] /\ result'[u] = result[u] /\ i'[u] = i[u]
        /\ buffer'[u] = buffer[u] /\ before'[u] = before[u] /\ faulty'[u] = faulty[u]
        /\ disturbed[u] => disturbed'[u]
        /\ chip' = chip \/ pc[u] = "idle" \/ disturbed'[u]

LEMMA OthersKeep ==
    ASSUME NEW t, NEW u \in Threads \ {t}, Foreign(t), Own(u)
    PROVE  Own(u)'
  <1> USE DEF Foreign, Own
  <1>1. Splitting(u)'
    BY DEF Splitting, InCall
  <1>2. CASE pc[u] = "idle" \/ disturbed'[u] \/ ~Smooth(u)
    BY <1>1, <1>2 DEF SmoothProgress, ChangeDone, ReadDone, InCall, Smooth
  <1>3. CASE chip' = chip
    <2>1. memory' = memory /\ busy' = busy /\ enabled' = enabled
      BY <1>3 DEF chip
    <2>2. Smooth(u)' => Smooth(u)
      BY DEF Smooth
    <2>3. SmoothProgress(u)'
      <3>1. \A a \in Memory : SoFar(u, a)' = SoFar(u, a)
        BY DEF SoFar, Asked
      <3> QED  BY <2>1, <2>2, <3>1 DEF SmoothProgress, InCall
    <2>4. ChangeDone(u)'
      <3>1. \A a \in Memory : Asked(call[u], a, before[u][a])' = Asked(call[u], a, before[u][a])
        BY DEF Asked
      <3>2. ChangeDone(u)
        OBVIOUS
      <3> QED  BY <2>1, <2>2, <3>1, <3>2 DEF ChangeDone
    <2>5. ReadDone(u)'
      BY <2>1, <2>2 DEF ReadDone
    <2> QED  BY <1>1, <2>3, <2>4, <2>5
  <1> QED  BY <1>2, <1>3

LEMMA BeginStep ==
    ASSUME IInv, NEW t \in Threads, Begin(t)
    PROVE  TypeOK' /\ Own(t)' /\ Foreign(t)
  <1>1. TypeOK /\ Splitting(t)
    BY DEF IInv
  <1>2. PICK c \in Calls :
            /\ call' = [call EXCEPT ![t] = c]
            /\ address' = [address EXCEPT ![t] = c.address]
            /\ length' = [length EXCEPT ![t] = c.length]
    BY DEF Begin
  <1>3. /\ pc[t] = "idle" /\ pc' = [pc EXCEPT ![t] = "poll"]
        /\ before' = [before EXCEPT ![t] = memory]
        /\ UNCHANGED <<piece, buff, page_count, result, i, buffer, memory, busy,
                        enabled, disturbed, faulty>>
    BY DEF Begin, Goto, chip
  <1>4. /\ c.op \in {"read", "write", "erase"}
        /\ c.address \in 0 .. MemorySize - 1 /\ c.length \in 0 .. MaxLength
        /\ c.address \in 0 .. MemorySize
    BY CallFacts, MemoryAssumption
  <1>5. TypeOK'
    BY <1>1, <1>2, <1>3, <1>4 DEF TypeOK
  <1>6. /\ call'[t] = c /\ address'[t] = c.address /\ length'[t] = c.length
        /\ pc'[t] = "poll" /\ before'[t] = memory
    BY <1>1, <1>2, <1>3 DEF TypeOK
  <1>7. Splitting(t)'
    BY <1>1, <1>3, <1>4, <1>6 DEF Splitting, InCall
  <1>8. \A a \in Memory : memory'[a] = SoFar(t, a)'
    BY <1>1, <1>3, <1>4, <1>6 DEF SoFar, Asked, Splitting, InCall, Memory
  <1>9. SmoothProgress(t)' /\ ChangeDone(t)' /\ ReadDone(t)'
    BY <1>1, <1>3, <1>6, <1>8 DEF SmoothProgress, ChangeDone, ReadDone, Splitting, InCall
  <1>10. Foreign(t)
    BY <1>1, <1>2, <1>3 DEF Foreign, TypeOK, chip
  <1> QED  BY <1>5, <1>7, <1>9, <1>10 DEF Own

LEMMA PollStep ==
    ASSUME IInv, NEW t \in Threads, Poll(t)
    PROVE  TypeOK' /\ Own(t)' /\ Foreign(t)
  <1>1. TypeOK /\ Splitting(t) /\ SmoothProgress(t)
    BY DEF IInv
  <1>2. /\ pc[t] = "poll" /\ pc' = [pc EXCEPT ![t] = AfterPoll(t)]
        /\ i' = [i EXCEPT ![t] = 0]
        /\ UNCHANGED <<call, piece, address, buff, length, page_count, result, buffer,
                        before, memory, busy, enabled, disturbed>>
        /\ \/ ~busy /\ faulty' = faulty
           \/ faulty' = [faulty EXCEPT ![t] = TRUE]
    BY DEF Poll, Goto, Seen, Lost, locals, chip
  <1>3. call[t].op \in {"read", "write", "erase"} /\ call[t] \in Calls
    BY <1>1, <1>2, CallFacts DEF Splitting, InCall
  <1>4. AfterPoll(t) \in {"send", "return", "enable"}
    BY DEF AfterPoll
  <1>5. TypeOK'
    <2>1. faulty' \in [Threads -> BOOLEAN]
      BY <1>1, <1>2 DEF TypeOK
    <2>2. i' \in [Threads -> 0 .. MAX_ITERATES]
      BY <1>1, <1>2, SizesAssumption DEF TypeOK
    <2>3. pc' \in [Threads -> {"idle", "poll", "enable", "check", "send", "return"}]
      BY <1>1, <1>2, <1>4 DEF TypeOK
    <2> QED  BY <1>1, <1>2, <2>1, <2>2, <2>3 DEF TypeOK
  <1>6. pc'[t] = AfterPoll(t) /\ i'[t] = 0 /\ (faulty'[t] \/ (~busy /\ faulty'[t] = faulty[t]))
    BY <1>1, <1>2 DEF TypeOK
  <1>7. /\ pc'[t] \in {"send", "return", "enable"} /\ i'[t] < MAX_ITERATES
        /\ piece[t] \in {"first", "page", "last"}
        /\ pc'[t] = "enable" => call[t].op # "read" /\ ~(call[t].op = "erase" /\ piece[t] = "last")
        /\ pc'[t] = "send" => call[t].op = "read"
        /\ pc'[t] = "return" => call[t].op = "erase" /\ piece[t] = "last"
    BY <1>1, <1>4, <1>6, SizesAssumption DEF AfterPoll, TypeOK
  <1>8. Smooth(t)' => Smooth(t) /\ ~busy
    BY <1>2, <1>6 DEF Smooth
  <1>9. Splitting(t)'
    BY <1>1, <1>2, <1>3, <1>7 DEF Splitting, InCall
  <1>10. SmoothProgress(t)' /\ ChangeDone(t)' /\ ReadDone(t)'
    <2>1. SUFFICES ASSUME Smooth(t)'
                   PROVE  SmoothProgress(t)' /\ ChangeDone(t)' /\ ReadDone(t)'
      BY DEF SmoothProgress, ChangeDone, ReadDone
    <2>2. \A a \in Memory : SoFar(t, a)' = SoFar(t, a)
      BY <1>2, <1>7 DEF SoFar, Asked
    <2>3. \A a \in Memory : memory'[a] = SoFar(t, a)'
      BY <1>1, <1>2, <1>8, <2>1, <2>2 DEF SmoothProgress, InCall
    <2>4. SmoothProgress(t)'
      BY <1>1, <1>2, <1>7, <1>8, <2>1, <2>3 DEF SmoothProgress, InCall
    <2>5. ChangeDone(t)' /\ ReadDone(t)'
      BY <1>1, <1>2, <1>7, <1>8, <2>1, <2>3 DEF ChangeDone, ReadDone, SoFar, Asked, Splitting, InCall
    <2> QED  BY <2>4, <2>5
  <1>11. Foreign(t)
    BY <1>1, <1>2 DEF Foreign, TypeOK, chip
  <1> QED  BY <1>5, <1>9, <1>10, <1>11 DEF Own

LEMMA WriteEnableStep ==
    ASSUME IInv, NEW t \in Threads, WriteEnable(t)
    PROVE  TypeOK' /\ Own(t)' /\ Foreign(t)
  <1>1. TypeOK /\ Splitting(t) /\ SmoothProgress(t)
    BY DEF IInv
  <1>2. /\ pc[t] = "enable" /\ pc' = [pc EXCEPT ![t] = "check"]
        /\ UNCHANGED <<call, piece, address, buff, length, page_count, result, i, buffer,
                        before, memory, busy>>
        /\ \/ /\ faulty' = [faulty EXCEPT ![t] = TRUE]
              /\ UNCHANGED <<enabled, disturbed>>
           \/ /\ faulty' = faulty
              /\ enabled' = (enabled \/ ~busy)
              /\ disturbed' = ForOthers(t)
    BY DEF WriteEnable, Goto, Sent, Lost, locals, chip
  <1>3. ForOthers(t) \in [Threads -> BOOLEAN] /\ ForOthers(t)[t] = disturbed[t]
    BY <1>1 DEF ForOthers, TypeOK
  <1>4. TypeOK'
    BY <1>1, <1>2, <1>3 DEF TypeOK
  <1>5. /\ pc'[t] = "check" /\ disturbed'[t] = disturbed[t]
        /\ faulty'[t] \/ (faulty'[t] = faulty[t] /\ enabled' = (enabled \/ ~busy))
    BY <1>1, <1>2, <1>3 DEF TypeOK
  <1>6. Splitting(t)'
    BY <1>1, <1>2, <1>5 DEF Splitting, InCall
  <1>7. SmoothProgress(t)'
    <2>1. SUFFICES ASSUME Smooth(t)'
                   PROVE  SmoothProgress(t)'
      BY DEF SmoothProgress
    <2>2. Smooth(t) /\ enabled' = (enabled \/ ~busy)
      BY <1>5, <2>1 DEF Smooth
    <2> QED  BY <1>1, <1>2, <1>5, <2>2 DEF SmoothProgress, SoFar, Asked, InCall
  <1>8. ChangeDone(t)' /\ ReadDone(t)'
    BY <1>5 DEF ChangeDone, ReadDone
  <1>9. Foreign(t)
    BY <1>1, <1>2 DEF Foreign, ForOthers, TypeOK, chip
  <1> QED  BY <1>4, <1>6, <1>7, <1>8, <1>9 DEF Own

LEMMA CheckEnabledStep ==
    ASSUME IInv, NEW t \in Threads, CheckEnabled(t)
    PROVE  TypeOK' /\ Own(t)' /\ Foreign(t)
  <1>1. TypeOK /\ Splitting(t) /\ SmoothProgress(t)
    BY DEF IInv
  <1>2. /\ pc[t] = "check"
        /\ UNCHANGED <<call, piece, address, buff, length, page_count, buffer, before,
                        memory, busy, enabled, disturbed>>
        /\ faulty' = faulty \/ faulty' = [faulty EXCEPT ![t] = TRUE]
    BY DEF CheckEnabled, Seen, Lost, chip
  <1>3. call[t] \in Calls /\ call[t].op \in {"write", "erase"} /\ i[t] < MAX_ITERATES
    BY <1>1, <1>2, CallFacts DEF Splitting, InCall
  <1>4. PICK next \in {"enable", "send", "return"}, n \in {i[t], i[t] + 1}, r \in {result[t], -1} :
            /\ pc' = [pc EXCEPT ![t] = next]
            /\ i' = [i EXCEPT ![t] = n]
            /\ result' = [result EXCEPT ![t] = r]
            /\ next = "enable" => n < MAX_ITERATES
            /\ next = "return" => call[t].op = "erase"
            /\ next # "return" => r = result[t]
    <2>1. i = [i EXCEPT ![t] = i[t]] /\ result = [result EXCEPT ![t] = result[t]]
      BY <1>1 DEF TypeOK
    <2>2. CASE Goto(t, "send") /\ UNCHANGED <<i, result>>
      BY <2>1, <2>2 DEF Goto
    <2>3. CASE TryAgain(t)
      BY <1>3, <2>1, <2>3 DEF TryAgain, GiveUp, Goto
    <2> QED  BY <2>2, <2>3 DEF CheckEnabled
  <1>5. i[t] \in Int /\ n \in 0 .. MAX_ITERATES /\ r \in -1 .. MaxLength
    BY <1>1, <1>3, SizesAssumption, MemoryAssumption DEF TypeOK
  <1>6. TypeOK'
    <2>1. faulty' \in [Threads -> BOOLEAN]
      BY <1>1, <1>2 DEF TypeOK
    <2> QED  BY <1>1, <1>2, <1>4, <1>5, <2>1 DEF TypeOK
  <1>7. pc'[t] = next /\ i'[t] = n /\ result'[t] = r
    BY <1>1, <1>4 DEF TypeOK
  <1>8. Splitting(t)'
    BY <1>1, <1>2, <1>3, <1>4, <1>7 DEF Splitting, InCall
  <1>9. faulty'[t] \/ (faulty'[t] = faulty[t] /\ (enabled => next = "send"))
    <2>1. pc'[t] = next
      BY <1>7
    <2>2. faulty' = [faulty EXCEPT ![t] = TRUE] => faulty'[t]
      BY <1>1 DEF TypeOK
    <2>3. Goto(t, "send") => pc'[t] = "send"
      BY <1>1 DEF Goto, TypeOK
    <2> QED  BY <2>1, <2>2, <2>3 DEF CheckEnabled, Seen, Lost
  <1>10. SmoothProgress(t)' /\ ChangeDone(t)' /\ ReadDone(t)'
    <2>1. SUFFICES ASSUME Smooth(t)'
                   PROVE  SmoothProgress(t)' /\ ChangeDone(t)' /\ ReadDone(t)'
      BY DEF SmoothProgress, ChangeDone, ReadDone
    <2>2. Smooth(t)
      BY <1>2, <1>9, <2>1 DEF Smooth
    <2>3. enabled /\ ~busy /\ next = "send"
      BY <1>1, <1>2, <1>9, <2>1, <2>2 DEF SmoothProgress, Smooth, InCall
    <2>4. \A a \in Memory : SoFar(t, a)' = SoFar(t, a)
      BY <1>2, <1>7, <2>3 DEF SoFar, Asked
    <2> QED  BY <1>1, <1>2, <1>7, <2>2, <2>3, <2>4
             DEF SmoothProgress, ChangeDone, ReadDone, InCall
  <1>11. Foreign(t)
    BY <1>1, <1>2, <1>4 DEF Foreign, TypeOK, chip
  <1> QED  BY <1>6, <1>8, <1>10, <1>11 DEF Own

LEMMA EraseStep ==
    ASSUME IInv, NEW t \in Threads, Erase(t)
    PROVE  TypeOK' /\ Own(t)' /\ Foreign(t)
  <1>1. TypeOK /\ Splitting(t) /\ SmoothProgress(t)
    BY DEF IInv
  <1>2. /\ pc[t] = "send" /\ pc' = [pc EXCEPT ![t] = "poll"] /\ call[t].op = "erase"
        /\ piece' = [piece EXCEPT ![t] = "last"]
        /\ UNCHANGED <<call, address, buff, length, page_count, result, i, buffer, before, enabled>>
    BY DEF Erase, Goto, Lost, Take, locals, chip
  <1>3. \/ /\ faulty' = [faulty EXCEPT ![t] = TRUE]
           /\ UNCHANGED <<memory, busy, disturbed>>
        \/ /\ faulty' = faulty
           /\ disturbed' = ForOthers(t)
           /\ IF enabled /\ ~busy
              THEN memory' = ErasedAt(address[t]) /\ busy' = TRUE
              ELSE UNCHANGED <<memory, busy>>
    BY DEF Erase, Sent, Lost, Take, chip
  <1>4. ForOthers(t) \in [Threads -> BOOLEAN] /\ ForOthers(t)[t] = disturbed[t]
    BY <1>1 DEF ForOthers, TypeOK
  <1>5. TypeOK'
    <2>1. faulty' \in [Threads -> BOOLEAN] /\ disturbed' \in [Threads -> BOOLEAN]
      BY <1>1, <1>3, <1>4 DEF TypeOK
    <2>2. memory' \in [Memory -> Bytes]
      BY <1>1, <1>3 DEF TypeOK, ErasedAt, Bytes
    <2>3. busy' \in BOOLEAN
      BY <1>1, <1>3 DEF TypeOK
    <2> QED  BY <1>1, <1>2, <2>1, <2>2, <2>3 DEF TypeOK
  <1>6. pc'[t] = "poll" /\ piece'[t] = "last"
    BY <1>1, <1>2 DEF TypeOK
  <1>7. Splitting(t)'
    BY <1>1, <1>2, <1>6 DEF Splitting, InCall
  <1>8. SmoothProgress(t)' /\ ChangeDone(t)' /\ ReadDone(t)'
    <2>1. SUFFICES ASSUME Smooth(t)'
                   PROVE  SmoothProgress(t)'
      BY <1>6 DEF SmoothProgress, ChangeDone, ReadDone
    <2>2. ~faulty'[t] /\ ~disturbed'[t]
      BY <2>1 DEF Smooth
    <2>3. faulty' = faulty /\ disturbed' = ForOthers(t)
      BY <1>1, <1>3, <2>2 DEF TypeOK
    <2>4. Smooth(t)
      BY <1>4, <2>2, <2>3 DEF Smooth
    <2>5. enabled /\ ~busy /\ \A a \in Memory : memory[a] = before[t][a]
      BY <1>1, <1>2, <2>4 DEF SmoothProgress, InCall, SoFar, Splitting
    <2>6. memory' = ErasedAt(address[t])
      BY <1>1, <1>3, <2>2, <2>5 DEF TypeOK
    <2>7. address[t] = call[t].address
      BY <1>1, <1>2 DEF Splitting, InCall
    <2>8. ASSUME NEW a \in Memory
          PROVE  memory'[a] = SoFar(t, a)'
      <3>1. memory'[a] = Asked(call[t], a, before[t][a])
        BY <1>2, <2>5, <2>6, <2>7 DEF ErasedAt, Asked
      <3>2. SoFar(t, a)' = Asked(call[t], a, before[t][a])
        BY <1>2, <1>6 DEF SoFar, Asked
      <3> QED  BY <3>1, <3>2
    <2> QED  BY <1>2, <1>6, <2>8 DEF SmoothProgress
  <1>9. Foreign(t)
    BY <1>1, <1>2, <1>3 DEF Foreign, ForOthers, TypeOK, chip
  <1> QED  BY <1>5, <1>7, <1>8, <1>9 DEF Own

LEMMA ReturnStep ==
    ASSUME IInv, NEW t \in Threads, Return(t)
    PROVE  TypeOK' /\ Own(t)' /\ Foreign(t)
  <1>1. TypeOK
    BY DEF IInv
  <1>2. /\ pc' = [pc EXCEPT ![t] = "idle"]
        /\ UNCHANGED <<memory, busy, enabled>>
    BY DEF Return, Goto, chip
  <1>3. Blank \in [Memory -> Bytes] /\ Unread \in [Buffer -> SUBSET Bytes]
    BY DEF Blank, Unread, Bytes
  <1>4. TypeOK'
    BY <1>1, <1>2, <1>3, SizesAssumption, MemoryAssumption DEF TypeOK, Return
  <1>5. pc'[t] = "idle" /\ call'[t] = NoCall /\ piece'[t] = "first" /\ buff'[t] = 0 /\ result'[t] = 0
    BY <1>1, <1>2 DEF TypeOK, Return
  <1>6. Own(t)'
    BY <1>5, CallsAssumption DEF Own, Splitting, SmoothProgress, ChangeDone, ReadDone, InCall
  <1>7. Foreign(t)
    BY <1>1, <1>2 DEF Foreign, TypeOK, Return, chip
  <1> QED  BY <1>4, <1>6, <1>7

LEMMA FinishStep ==
    ASSUME IInv, Finish
    PROVE  IInv'
  <1>1. TypeOK /\ \A u \in Threads : Own(u)
    BY IInvByThread
  <1>2. /\ busy /\ busy' = FALSE /\ enabled' = FALSE
        /\ UNCHANGED <<pc, call, piece, address, buff, length, page_count, result, i, buffer,
                        memory, before, disturbed, faulty>>
    BY DEF Finish, locals
  <1>3. TypeOK'
    BY <1>1, <1>2 DEF TypeOK
  <1>4. ASSUME NEW u \in Threads
        PROVE  Own(u)'
    <2>1. Own(u) /\ (Smooth(u)' <=> Smooth(u))
      BY <1>1, <1>2 DEF Smooth
    <2>2. Splitting(u)'
      BY <1>2, <2>1 DEF Own, Splitting, InCall
    <2>3. SmoothProgress(u)'
      BY <1>2, <2>1 DEF Own, SmoothProgress, SoFar, Asked, InCall
    <2>4. ChangeDone(u)' /\ ReadDone(u)'
      BY <1>2, <2>1 DEF Own, ChangeDone, ReadDone, Asked
    <2> QED  BY <2>2, <2>3, <2>4 DEF Own
  <1> QED  BY <1>3, <1>4, IInvByThread DEF IInv, Own, ChangeComplete, ReadComplete

-----------------------------------------------------------------------------
(***************************************************************************)
(* Reads and writes.                                                       *)
(***************************************************************************)
\* A piece of a call c ends where the next one begins, or where c ends.
LEMMA ContinueFacts ==
    ASSUME IInv, NEW t \in Threads, pc[t] = "send", call[t].op # "erase",
           NEW next \in {"send", "poll"}, NEW last \in 0 .. MaxLength,
           Continue(t, next, last)
    PROVE  /\ pc' = [pc EXCEPT ![t] = IF IsLast(t) THEN "return" ELSE next]
           /\ piece' \in [Threads -> {"first", "page", "last"}]
           /\ address' \in [Threads -> 0 .. MemorySize]
           /\ buff' \in [Threads -> 0 .. MaxLength]
           /\ length' \in [Threads -> 0 .. MaxLength]
           /\ page_count' \in [Threads -> 0 .. MaxLength]
           /\ result' \in [Threads -> -1 .. MaxLength]
           /\ \A u \in Threads \ {t} :
                /\ piece'[u] = piece[u] /\ address'[u] = address[u] /\ buff'[u] = buff[u]
                /\ length'[u] = length[u] /\ page_count'[u] = page_count[u]
                /\ result'[u] = result[u]
           /\ IsLast(t) =>
                /\ piece'[t] = piece[t] /\ address'[t] = address[t] /\ buff'[t] = buff[t]
                /\ length'[t] = length[t] /\ page_count'[t] = page_count[t]
                /\ result'[t] = last /\ buff[t] + size(t) = call[t].length
           /\ ~IsLast(t) =>
                /\ address'[t] = address[t] + size(t) /\ buff'[t] = buff[t] + size(t)
                /\ length'[t] = length[t] - size(t) /\ result'[t] = buff'[t]
                /\ address'[t] % m_page_size = 0 /\ piece'[t] \in {"page", "last"}
                /\ piece'[t] = "page" =>
                    page_count'[t] > 0 /\ page_count'[t] = length'[t] \div m_page_size
                /\ piece'[t] = "last" => length'[t] < m_page_size
  <1>1. TypeOK /\ Splitting(t)
    BY DEF IInv
  <1>2. /\ call[t] \in Calls /\ address[t] = call[t].address + buff[t]
        /\ buff[t] + length[t] = call[t].length /\ result[t] = buff[t]
    BY <1>1 DEF Splitting, InCall
  <1>3. /\ call[t].address \in 0 .. MemorySize - 1 /\ call[t].length \in 0 .. MaxLength
        /\ call[t].address + call[t].length <= MemorySize
    BY <1>2, CallFacts
  <1>4. /\ buff[t] \in Nat /\ length[t] \in Nat /\ MemorySize \in Nat /\ MaxLength \in Nat
    BY <1>1, MemoryAssumption DEF TypeOK
  <1>5. size(t) \in 0 .. length[t] /\ (IsLast(t) => size(t) = length[t])
    BY PieceInPage
  <1>6. CASE IsLast(t)
    <2>1. /\ pc' = [pc EXCEPT ![t] = "return"]
          /\ result' = [result EXCEPT ![t] = last]
          /\ UNCHANGED <<piece, address, buff, length, page_count>>
      BY <1>6 DEF Continue, Goto
    <2>2. result' \in [Threads -> -1 .. MaxLength] /\ result'[t] = last
      BY <1>1, <1>4, <2>1 DEF TypeOK
    <2> QED  BY <1>1, <1>2, <1>4, <1>5, <1>6, <2>1, <2>2 DEF TypeOK
  <1>7. CASE ~IsLast(t)
    <2>1. NextPiece(t) /\ pc' = [pc EXCEPT ![t] = next]
      BY <1>7 DEF Continue, Goto
    <2>2. /\ address' = [address EXCEPT ![t] = @ + size(t)]
          /\ buff' = [buff EXCEPT ![t] = @ + size(t)]
          /\ length' = [length EXCEPT ![t] = @ - size(t)]
          /\ result' = [result EXCEPT ![t] = @ + size(t)]
          /\ address'[t] % m_page_size = 0
          /\ piece'[t] = "last" => length'[t] < m_page_size
      BY <1>7, <2>1, NextPieceAtPage
    <2>3. PICK n \in 0 .. length'[t] :
                /\ page_count' = [page_count EXCEPT ![t] = n]
                /\ n = length'[t] \div m_page_size
                /\ piece' = [piece EXCEPT ![t] = IF n > 0 THEN "page" ELSE "last"]
      BY <1>7, <2>1, NextPieceAtPage
    <2>4. /\ address'[t] = address[t] + size(t) /\ buff'[t] = buff[t] + size(t)
          /\ length'[t] = length[t] - size(t) /\ result'[t] = result[t] + size(t)
          /\ page_count'[t] = n /\ piece'[t] = IF n > 0 THEN "page" ELSE "last"
      BY <1>1, <2>2, <2>3 DEF TypeOK
    <2>5. /\ address[t] + size(t) \in 0 .. MemorySize /\ buff[t] + size(t) \in 0 .. MaxLength
          /\ length[t] - size(t) \in 0 .. MaxLength /\ n \in 0 .. MaxLength
          /\ result[t] + size(t) \in -1 .. MaxLength
      BY <1>2, <1>3, <1>4, <1>5, <2>4
    <2>6. /\ piece' \in [Threads -> {"first", "page", "last"}]
          /\ address' \in [Threads -> 0 .. MemorySize]
          /\ buff' \in [Threads -> 0 .. MaxLength]
          /\ length' \in [Threads -> 0 .. MaxLength]
          /\ page_count' \in [Threads -> 0 .. MaxLength]
          /\ result' \in [Threads -> -1 .. MaxLength]
      BY <1>1, <2>2, <2>3, <2>5 DEF TypeOK
    <2>7. \A u \in Threads \ {t} :
                /\ piece'[u] = piece[u] /\ address'[u] = address[u] /\ buff'[u] = buff[u]
                /\ length'[u] = length[u] /\ page_count'[u] = page_count[u]
                /\ result'[u] = result[u]
      BY <1>1, <2>2, <2>3 DEF TypeOK
    <2>8. /\ piece'[t] \in {"page", "last"}
          /\ piece'[t] = "page" => page_count'[t] > 0 /\ page_count'[t] = length'[t] \div m_page_size
      BY <2>3, <2>4
    <2>9. result'[t] = buff'[t]
      BY <1>2, <2>4
    <2> QED  BY <1>7, <2>1, <2>2, <2>4, <2>6, <2>7, <2>8, <2>9
  <1> QED  BY <1>6, <1>7

\* Where a call is after a piece.
LEMMA ContinueSplitting ==
    ASSUME IInv, NEW t \in Threads, pc[t] = "send", call[t].op \in {"read", "write"},
           NEW next \in {"send", "poll"}, NEW last \in 0 .. MaxLength,
           Continue(t, next, last), UNCHANGED call
    PROVE  Splitting(t)'
  <1>1. TypeOK /\ Splitting(t)
    BY DEF IInv
  <1>2. pc'[t] = IF IsLast(t) THEN "return" ELSE next
    <2>1. pc' = [pc EXCEPT ![t] = IF IsLast(t) THEN "return" ELSE next]
      BY ContinueFacts
    <2> QED  BY <1>1, <2>1 DEF TypeOK
  <1>3. CASE IsLast(t)
    <2>1. /\ piece'[t] = piece[t] /\ address'[t] = address[t] /\ buff'[t] = buff[t]
          /\ length'[t] = length[t] /\ page_count'[t] = page_count[t]
      BY <1>3, ContinueFacts
    <2> QED  BY <1>1, <1>2, <1>3, <2>1 DEF Splitting, InCall
  <1>4. CASE ~IsLast(t)
    <2>1. /\ address'[t] = address[t] + size(t) /\ buff'[t] = buff[t] + size(t)
          /\ length'[t] = length[t] - size(t) /\ result'[t] = buff'[t]
          /\ address'[t] % m_page_size = 0 /\ piece'[t] \in {"page", "last"}
          /\ piece'[t] = "page" =>
                page_count'[t] > 0 /\ page_count'[t] = length'[t] \div m_page_size
          /\ piece'[t] = "last" => length'[t] < m_page_size
      BY <1>4, ContinueFacts
    <2>2. /\ call[t] \in Calls /\ address[t] = call[t].address + buff[t]
          /\ buff[t] + length[t] = call[t].length
      BY <1>1 DEF Splitting, InCall
    <2>3. /\ call[t].address \in Int /\ call[t].length \in Int
      BY <2>2, CallFacts
    <2>4. /\ buff[t] \in Int /\ length[t] \in Int /\ size(t) \in Int
      BY <1>1, PieceInPage DEF TypeOK
    <2>5. address'[t] = call[t].address + buff'[t] /\ buff'[t] + length'[t] = call[t].length
      BY <2>1, <2>2, <2>3, <2>4
    <2> QED  BY <1>2, <1>4, <2>1, <2>2, <2>5 DEF Splitting, InCall
  <1> QED  BY <1>3, <1>4

\* What a write, if it is taken, does to the memory is what the call asks for.
LEMMA WriteEffect ==
    ASSUME IInv, NEW t \in Threads, pc[t] = "send", call[t].op = "write",
           NEW a \in Memory
    PROVE  Programmed(address[t], buff[t], size(t))[a] =
               IF a \in address[t] .. address[t] + size(t) - 1
               THEN Asked(call[t], a, memory[a])
               ELSE memory[a]
  <1>1. TypeOK /\ Splitting(t)
    BY DEF IInv
  <1>2. /\ call[t] \in Calls /\ address[t] = call[t].address + buff[t]
        /\ buff[t] + length[t] = call[t].length
    BY <1>1 DEF Splitting, InCall
  <1>3. call[t].address \in Nat /\ call[t].length \in Nat
    BY <1>2, CallFacts, MemoryAssumption
  <1>4. /\ address[t] \in Nat /\ buff[t] \in Nat /\ length[t] \in Nat /\ a \in Nat
    BY <1>1, MemoryAssumption DEF TypeOK, Memory
  <1>5. size(t) \in 0 .. length[t] /\ (address[t] % m_page_size) + size(t) <= m_page_size
    BY PieceInPage
  <1> DEFINE n == size(t)
  <1>6. n \in Nat /\ n <= length[t]
    BY <1>4, <1>5
  <1>7. Programmed(address[t], buff[t], n)[a] =
            IF a \in address[t] .. address[t] + n - 1
            THEN memory[a] \cap Data[buff[t] + (a - address[t])]
            ELSE memory[a]
    <2> DEFINE start == address[t]
               data == buff[t]
    <2>1. /\ start \in Nat /\ data \in Int /\ n \in Nat
          /\ (start % m_page_size) + n <= m_page_size
      BY <1>4, <1>5, <1>6
    <2> HIDE DEF n, start, data
    <2>2. Programmed(start, data, n)[a] =
            IF a \in start .. start + n - 1
            THEN memory[a] \cap Data[data + (a - start)]
            ELSE memory[a]
      BY <2>1, WithinPage
    <2> QED  BY <2>2 DEF start, data
  <1> HIDE DEF n
  <1>8. CASE a \in address[t] .. address[t] + n - 1
    <2>1. buff[t] + (a - address[t]) = a - call[t].address
      BY <1>2, <1>3, <1>4
    <2>2. a \in call[t].address .. call[t].address + call[t].length - 1
      BY <1>2, <1>3, <1>4, <1>6, <1>8
    <2>3. Asked(call[t], a, memory[a]) = memory[a] \cap Data[a - call[t].address]
      BY <2>2 DEF Asked
    <2> QED  BY <1>7, <1>8, <2>1, <2>3 DEF n
  <1> QED  BY <1>7, <1>8 DEF n

LEMMA WritePieceStep ==
    ASSUME IInv, NEW t \in Threads, WritePiece(t)
    PROVE  TypeOK' /\ Own(t)' /\ Foreign(t)
  <1>1. TypeOK /\ Splitting(t) /\ SmoothProgress(t)
    BY DEF IInv
  <1>2. /\ pc[t] = "send" /\ call[t].op = "write"
        /\ Continue(t, "poll", result[t] + size(t))
        /\ UNCHANGED <<call, i, buffer, before>>
    BY DEF WritePiece
  <1> DEFINE P == Programmed(address[t], buff[t], size(t))
  <1>3. \/ /\ faulty' = [faulty EXCEPT ![t] = TRUE]
           /\ UNCHANGED <<memory, busy, enabled, disturbed>>
        \/ /\ faulty' = faulty
           /\ disturbed' = ForOthers(t)
           /\ size(t) # 0
           /\ IF enabled /\ ~busy
              THEN memory' = P /\ busy' = TRUE /\ UNCHANGED enabled
              ELSE UNCHANGED <<memory, busy, enabled>>
        \/ /\ faulty' = faulty
           /\ disturbed' = ForOthers(t)
           /\ size(t) = 0
           /\ enabled' \in {enabled, busy /\ enabled}
           /\ UNCHANGED <<memory, busy>>
    <2>1. size(t) > 0 => size(t) # 0
      BY <1>2, PieceInPage
    <2> QED  BY <2>1 DEF WritePiece, Sent, Lost, Take, chip
  <1>4. ForOthers(t) \in [Threads -> BOOLEAN] /\ ForOthers(t)[t] = disturbed[t]
    BY <1>1 DEF ForOthers, TypeOK
  <1>5. /\ call[t] \in Calls /\ address[t] = call[t].address + buff[t]
        /\ buff[t] + length[t] = call[t].length /\ result[t] = buff[t]
    BY <1>1, <1>2 DEF Splitting, InCall
  <1>6. /\ address[t] \in Nat /\ buff[t] \in Nat /\ length[t] \in Nat
        /\ call[t].address \in Nat /\ call[t].length \in 0 .. MaxLength
        /\ MaxLength \in Nat
    BY <1>1, <1>5, CallFacts, MemoryAssumption DEF TypeOK
  <1>7. size(t) \in 0 .. length[t] /\ (IsLast(t) => size(t) = length[t])
    BY <1>2, PieceInPage
  <1>8. result[t] + size(t) \in 0 .. MaxLength
    BY <1>5, <1>6, <1>7
  <1>9. /\ pc' = [pc EXCEPT ![t] = IF IsLast(t) THEN "return" ELSE "poll"]
        /\ piece' \in [Threads -> {"first", "page", "last"}]
        /\ address' \in [Threads -> 0 .. MemorySize]
        /\ buff' \in [Threads -> 0 .. MaxLength]
        /\ length' \in [Threads -> 0 .. MaxLength]
        /\ page_count' \in [Threads -> 0 .. MaxLength]
        /\ result' \in [Threads -> -1 .. MaxLength]
        /\ \A u \in Threads \ {t} :
            /\ piece'[u] = piece[u] /\ address'[u] = address[u] /\ buff'[u] = buff[u]
            /\ length'[u] = length[u] /\ page_count'[u] = page_count[u]
            /\ result'[u] = result[u]
    BY <1>2, <1>8, ContinueFacts
  <1>10. TypeOK'
    <2>1. faulty' \in [Threads -> BOOLEAN] /\ disturbed' \in [Threads -> BOOLEAN]
      BY <1>1, <1>3, <1>4 DEF TypeOK
    <2>2. P \in [Memory -> Bytes]
      BY <1>1 DEF Programmed, TypeOK, Bytes
    <2>3. memory' \in [Memory -> Bytes] /\ busy' \in BOOLEAN /\ enabled' \in BOOLEAN
      BY <1>1, <1>3, <2>2 DEF TypeOK
    <2>4. pc' \in [Threads -> {"idle", "poll", "enable", "check", "send", "return"}]
      BY <1>1, <1>9 DEF TypeOK
    <2> QED  BY <1>1, <1>2, <1>9, <2>1, <2>3, <2>4 DEF TypeOK
  <1>11. Splitting(t)'
    BY <1>2, <1>8, ContinueSplitting
  <1>12. pc'[t] = IF IsLast(t) THEN "return" ELSE "poll"
    BY <1>1, <1>9 DEF TypeOK
  <1>13. SmoothProgress(t)' /\ ChangeDone(t)' /\ ReadDone(t)'
    <2>1. SUFFICES ASSUME Smooth(t)'
                   PROVE  SmoothProgress(t)' /\ ChangeDone(t)' /\ ReadDone(t)'
      BY DEF SmoothProgress, ChangeDone, ReadDone
    <2>2. ~faulty'[t] /\ ~disturbed'[t]
      BY <2>1 DEF Smooth
    <2>3. faulty' = faulty /\ disturbed' = ForOthers(t)
      BY <1>1, <1>3, <2>2 DEF TypeOK
    <2>4. Smooth(t)
      BY <1>4, <2>2, <2>3 DEF Smooth
    <2>5. enabled /\ ~busy /\ \A a \in Memory : memory[a] = SoFar(t, a)
      BY <1>1, <1>2, <2>4 DEF SmoothProgress, InCall
    <2>6. memory' = IF size(t) = 0 THEN memory ELSE P
      BY <1>1, <1>3, <2>2, <2>5 DEF TypeOK
    <2>7. ASSUME NEW a \in Memory
          PROVE  memory'[a] = IF a < address[t] + size(t)
                              THEN Asked(call[t], a, before[t][a]) ELSE before[t][a]
      <3>1. a \in Nat
        BY MemoryAssumption DEF Memory
      <3>2. memory[a] = IF a < address[t] THEN Asked(call[t], a, before[t][a]) ELSE before[t][a]
        BY <1>2, <2>5 DEF SoFar
      <3>3. memory'[a] = IF a \in address[t] .. address[t] + size(t) - 1
                         THEN Asked(call[t], a, memory[a]) ELSE memory[a]
        BY <1>2, <1>6, <1>7, <2>6, <3>1, WriteEffect
      <3> QED  BY <1>6, <1>7, <3>1, <3>2, <3>3
    <2>8. CASE IsLast(t)
      <3>1. result'[t] = call[t].length /\ address[t] + size(t) = call[t].address + call[t].length
        <4>1. result'[t] = result[t] + size(t)
          BY <1>2, <1>8, <2>8, ContinueFacts
        <4> QED  BY <1>5, <1>6, <1>7, <2>8, <4>1
      <3>2. ASSUME NEW a \in Memory
            PROVE  memory'[a] = Asked(call[t], a, before[t][a])
        <4>1. a \in Nat
          BY MemoryAssumption DEF Memory
        <4>2. ~(a < address[t] + size(t)) => Asked(call[t], a, before[t][a]) = before[t][a]
          BY <1>2, <1>6, <3>1, <4>1 DEF Asked
        <4> QED  BY <2>7, <4>2
      <3>3. \A a \in Memory : SoFar(t, a)' = Asked(call[t], a, before[t][a])
        BY <1>2, <1>12, <2>8 DEF SoFar, Asked
      <3> QED  BY <1>2, <1>12, <2>8, <3>1, <3>2, <3>3
               DEF SmoothProgress, ChangeDone, ReadDone, Asked
    <2>9. CASE ~IsLast(t)
      <3>1. address'[t] = address[t] + size(t)
        BY <1>2, <1>8, <2>9, ContinueFacts
      <3>2. \A a \in Memory : SoFar(t, a)' = IF a < address[t] + size(t)
                              THEN Asked(call[t], a, before[t][a]) ELSE before[t][a]
        BY <1>2, <1>12, <2>9, <3>1 DEF SoFar, Asked
      <3> QED  BY <1>2, <1>12, <2>7, <2>9, <3>2 DEF SmoothProgress, ChangeDone, ReadDone
    <2> QED  BY <2>8, <2>9
  <1>14. Foreign(t)
    <2>1. \A u \in Threads \ {t} : faulty'[u] = faulty[u] /\ (disturbed[u] => disturbed'[u])
      BY <1>1, <1>3 DEF ForOthers, TypeOK
    <2>2. \A u \in Threads \ {t} : chip' = chip \/ pc[u] = "idle" \/ disturbed'[u]
      BY <1>3 DEF ForOthers, chip
    <2>3. \A u \in Threads \ {t} : pc'[u] = pc[u]
      BY <1>1, <1>9 DEF TypeOK
    <2> QED  BY <1>2, <1>9, <2>1, <2>2, <2>3 DEF Foreign
  <1> QED  BY <1>10, <1>11, <1>13, <1>14 DEF Own

LEMMA ReadPieceStep ==
    ASSUME IInv, NEW t \in Threads, ReadPiece(t)
    PROVE  TypeOK' /\ Own(t)' /\ Foreign(t)
  <1>1. TypeOK /\ Splitting(t) /\ SmoothProgress(t)
    BY DEF IInv
  <1> DEFINE b == [k \in Buffer |->
                IF k \in buff[t] .. buff[t] + size(t) - 1
                THEN IF busy THEN Bytes ELSE {memory[address[t] + k - buff[t]]}
                ELSE buffer[t][k]]
  <1>2. /\ pc[t] = "send" /\ call[t].op = "read"
        /\ UNCHANGED <<call, i, before, memory, busy, enabled, disturbed>>
        /\ \/ /\ faulty' = [faulty EXCEPT ![t] = TRUE]
              /\ buffer' = buffer
           \/ /\ faulty' = faulty
              /\ buffer' = [buffer EXCEPT ![t] = b]
              /\ Continue(t, "send", result[t] + size(t))
    BY DEF ReadPiece, Seen, Lost, chip
  <1>3. PICK last \in {0, result[t] + size(t)} : Continue(t, "send", last)
    BY DEF ReadPiece
  <1>4. /\ call[t] \in Calls /\ address[t] = call[t].address + buff[t]
        /\ buff[t] + length[t] = call[t].length /\ result[t] = buff[t]
    BY <1>1, <1>2 DEF Splitting, InCall
  <1>5. /\ address[t] \in Nat /\ buff[t] \in Nat /\ length[t] \in Nat
        /\ call[t].address \in Nat /\ call[t].length \in 0 .. MaxLength
        /\ call[t].address + call[t].length <= MemorySize
        /\ MaxLength \in Nat /\ MemorySize \in Nat
    BY <1>1, <1>4, CallFacts, MemoryAssumption DEF TypeOK
  <1>6. size(t) \in 0 .. length[t] /\ (IsLast(t) => size(t) = length[t])
    BY <1>2, PieceInPage
  <1>7. last \in 0 .. MaxLength /\ result[t] + size(t) \in 0 .. MaxLength
    BY <1>4, <1>5, <1>6
  <1>8. /\ pc' = [pc EXCEPT ![t] = IF IsLast(t) THEN "return" ELSE "send"]
        /\ piece' \in [Threads -> {"first", "page", "last"}]
        /\ address' \in [Threads -> 0 .. MemorySize]
        /\ buff' \in [Threads -> 0 .. MaxLength]
        /\ length' \in [Threads -> 0 .. MaxLength]
        /\ page_count' \in [Threads -> 0 .. MaxLength]
        /\ result' \in [Threads -> -1 .. MaxLength]
        /\ \A u \in Threads \ {t} :
            /\ piece'[u] = piece[u] /\ address'[u] = address[u] /\ buff'[u] = buff[u]
            /\ length'[u] = length[u] /\ page_count'[u] = page_count[u]
            /\ result'[u] = result[u]
    BY <1>2, <1>3, <1>7, ContinueFacts
  <1>9. TypeOK'
    <2>1. faulty' \in [Threads -> BOOLEAN]
      BY <1>1, <1>2 DEF TypeOK
    <2>2. b \in [Buffer -> SUBSET Bytes]
      <3>1. ASSUME NEW k \in Buffer, k \in buff[t] .. buff[t] + size(t) - 1
            PROVE  memory[address[t] + k - buff[t]] \in Bytes
        <4>1. address[t] + k - buff[t] \in Memory
          BY <1>4, <1>5, <1>6, <3>1 DEF Buffer, Memory
        <4> QED  BY <1>1, <4>1 DEF TypeOK
      <3>2. \A k \in Buffer : buffer[t][k] \in SUBSET Bytes
        BY <1>1 DEF TypeOK
      <3> QED  BY <3>1, <3>2
    <2>3. buffer' \in [Threads -> [Buffer -> SUBSET Bytes]]
      <3> HIDE DEF b
      <3> QED  BY <1>1, <1>2, <2>2 DEF TypeOK
    <2>4. pc' \in [Threads -> {"idle", "poll", "enable", "check", "send", "return"}]
      BY <1>1, <1>8 DEF TypeOK
    <2> QED  BY <1>1, <1>2, <1>8, <2>1, <2>3, <2>4 DEF TypeOK
  <1>10. Splitting(t)'
    BY <1>2, <1>3, <1>7, ContinueSplitting
  <1>11. pc'[t] = IF IsLast(t) THEN "return" ELSE "send"
    BY <1>1, <1>8 DEF TypeOK
  <1>12. SmoothProgress(t)' /\ ChangeDone(t)' /\ ReadDone(t)'
    <2>1. SUFFICES ASSUME Smooth(t)'
                   PROVE  SmoothProgress(t)' /\ ChangeDone(t)' /\ ReadDone(t)'
      BY DEF SmoothProgress, ChangeDone, ReadDone
    <2>2. faulty' = faulty /\ disturbed' = disturbed
      BY <1>1, <1>2, <2>1 DEF Smooth, TypeOK
    <2>3. Smooth(t)
      BY <2>1, <2>2 DEF Smooth
    <2>4. /\ ~busy /\ \A a \in Memory : memory[a] = before[t][a]
          /\ \A k \in 0 .. buff[t] - 1 : buffer[t][k] = {memory[call[t].address + k]}
      BY <1>1, <1>2, <2>3 DEF SmoothProgress, InCall, SoFar, Asked
    <2>5. buffer'[t] = b /\ Continue(t, "send", result[t] + size(t))
      BY <1>1, <1>2, <2>1, <2>2 DEF Smooth, TypeOK
    <2>6. ASSUME NEW k \in 0 .. buff[t] + size(t) - 1
          PROVE  buffer'[t][k] = {memory[call[t].address + k]}
      <3>1. k \in Buffer
        BY <1>4, <1>5, <1>6 DEF Buffer
      <3>2. buffer'[t][k] = IF k \in buff[t] .. buff[t] + size(t) - 1
                            THEN {memory[address[t] + k - buff[t]]} ELSE buffer[t][k]
        BY <2>4, <2>5, <3>1
      <3>3. address[t] + k - buff[t] = call[t].address + k
        BY <1>4, <1>5
      <3>4. k \in buff[t] .. buff[t] + size(t) - 1 \/ k \in 0 .. buff[t] - 1
        BY <1>5, <1>6
      <3> QED  BY <2>4, <3>2, <3>3, <3>4
    <2>7. \A a \in Memory : SoFar(t, a)' = before[t][a]
      BY <1>2 DEF SoFar, Asked
    <2>8. CASE IsLast(t)
      <3>1. result'[t] = result[t] + size(t) /\ buff'[t] = buff[t]
        BY <1>2, <1>7, <2>5, <2>8, ContinueFacts
      <3>2. result'[t] = call[t].length /\ buff[t] + size(t) = call[t].length
        BY <1>4, <1>5, <1>6, <2>8, <3>1
      <3>3. \A k \in 0 .. buff'[t] - 1 : k \in 0 .. buff[t] + size(t) - 1
        BY <1>5, <1>6, <3>1
      <3>4. SmoothProgress(t)'
        BY <1>2, <1>11, <2>4, <2>6, <2>7, <2>8, <3>3 DEF SmoothProgress
      <3>5. ReadDone(t)'
        <4>1. \A k \in 0 .. call[t].length - 1 : buffer'[t][k] = {memory[call[t].address + k]}
          BY <1>5, <1>6, <2>6, <3>2
        <4> QED  BY <1>2, <3>2, <4>1 DEF ReadDone
      <3> QED  BY <1>2, <3>4, <3>5 DEF ChangeDone
    <2>9. CASE ~IsLast(t)
      <3>1. buff'[t] = buff[t] + size(t)
        BY <1>2, <1>7, <2>5, <2>9, ContinueFacts
      <3>2. SmoothProgress(t)'
        <4>1. \A k \in 0 .. buff'[t] - 1 : buffer'[t][k] = {memory[call[t].address + k]}
          BY <1>5, <1>6, <2>6, <3>1
        <4> QED  BY <1>2, <1>11, <2>4, <2>7, <2>9, <4>1 DEF SmoothProgress
      <3> QED  BY <1>2, <1>11, <2>9, <3>2 DEF ChangeDone, ReadDone
    <2> QED  BY <2>8, <2>9
  <1>13. Foreign(t)
    <2>1. \A u \in Threads \ {t} : faulty'[u] = faulty[u] /\ buffer'[u] = buffer[u]
      <3> HIDE DEF b
      <3> QED  BY <1>1, <1>2 DEF TypeOK
    <2>2. \A u \in Threads \ {t} : pc'[u] = pc[u]
      BY <1>1, <1>8 DEF TypeOK
    <2> QED  BY <1>2, <1>8, <2>1, <2>2 DEF Foreign, chip
  <1> QED  BY <1>9, <1>10, <1>12, <1>13 DEF Own

\* What the steps of one thread leave to the others.
LEMMA StepIsOwn ==
    ASSUME IInv, NEW t \in Threads, Begin(t) \/ CallStep(t)
    PROVE  TypeOK' /\ Own(t)' /\ Foreign(t)
  BY BeginStep, PollStep, WriteEnableStep, CheckEnabledStep, ReadPieceStep,
     WritePieceStep, EraseStep, ReturnStep DEF CallStep

-----------------------------------------------------------------------------
(***************************************************************************)
(* The theorems.                                                           *)
(***************************************************************************)
LEMMA InitIInv == Init => IInv
  <1>1. Blank \in [Memory -> Bytes] /\ Unread \in [Buffer -> SUBSET Bytes]
    BY DEF Blank, Unread, Bytes
  <1>2. Init => TypeOK
    <2>1. 0 \in 0 .. MemorySize /\ 0 \in 0 .. MaxLength /\ 0 \in -1 .. MaxLength /\ 0 \in 0 .. MAX_ITERATES
      BY SizesAssumption, MemoryAssumption
    <2>2. Init => /\ memory \in [Memory -> Bytes]
                  /\ before \in [Threads -> [Memory -> Bytes]]
                  /\ buffer \in [Threads -> [Buffer -> SUBSET Bytes]]
      BY <1>1 DEF Init
    <2>3. Init => /\ address \in [Threads -> 0 .. MemorySize]
                  /\ buff \in [Threads -> 0 .. MaxLength]
                  /\ length \in [Threads -> 0 .. MaxLength]
                  /\ page_count \in [Threads -> 0 .. MaxLength]
                  /\ result \in [Threads -> -1 .. MaxLength]
                  /\ i \in [Threads -> 0 .. MAX_ITERATES]
      BY <2>1 DEF Init
    <2>4. Init => /\ pc \in [Threads -> {"idle", "poll", "enable", "check", "send", "return"}]
                  /\ call \in [Threads -> Calls \cup {NoCall}]
                  /\ piece \in [Threads -> {"first", "page", "last"}]
                  /\ busy \in BOOLEAN /\ enabled \in BOOLEAN
                  /\ disturbed \in [Threads -> BOOLEAN]
                  /\ faulty \in [Threads -> BOOLEAN]
      BY DEF Init
    <2> QED  BY <2>2, <2>3, <2>4 DEF TypeOK
  <1>3. Init => \A u \in Threads : Own(u)
    BY CallsAssumption DEF Init, Own, Splitting, SmoothProgress, ChangeDone, ReadDone, InCall
  <1> QED  BY <1>2, <1>3, IInvByThread

LEMMA StepIInv == IInv /\ [Next]_vars => IInv'
  <1> SUFFICES ASSUME IInv, [Next]_vars
               PROVE  IInv'
    OBVIOUS
  <1>1. CASE Finish
    BY <1>1, FinishStep
  <1>2. ASSUME NEW t \in Threads, Begin(t) \/ CallStep(t)
        PROVE  IInv'
    <2>1. TypeOK' /\ Own(t)' /\ Foreign(t)
      BY <1>2, StepIsOwn
    <2>2. ASSUME NEW u \in Threads
          PROVE  Own(u)'
      <3>1. CASE u = t
        BY <2>1, <3>1
      <3>2. CASE u \in Threads \ {t}
        <4>1. Own(u)
          BY IInvByThread
        <4> QED  BY <2>1, <3>2, <4>1, OthersKeep
      <3> QED  BY <3>1, <3>2
    <2> QED  BY <2>1, <2>2 DEF IInv, Own, ChangeComplete, ReadComplete
  <1>3. CASE UNCHANGED vars
    BY <1>3 DEF vars, locals, chip, IInv, TypeOK, Splitting, SmoothProgress, SoFar, Asked,
                ChangeComplete, ChangeDone, ReadComplete, ReadDone, Smooth, InCall
  <1> QED  BY <1>1, <1>2, <1>3 DEF Next

THEOREM Invariance == Spec => []IInv
  <1> QED  BY InitIInv, StepIInv, PTL DEF Spec

\* The variables have their types, so that no piece leaves the memory of the
\* chip or the buffer of the caller.
THEOREM TypeCorrect == Spec => []TypeOK
  <1>1. IInv => TypeOK
    BY DEF IInv
  <1> QED  BY <1>1, Invariance, PTL

\* A write_flash or erase_block without faults and interference does all that it
\* was called for, whatever the page size and the range.
THEOREM ChangesComplete == Spec => []ChangeComplete
  <1>1. IInv => ChangeComplete
    BY DEF IInv
  <1> QED  BY <1>1, Invariance, PTL

\* A read_flash without faults and interference returns what the chip holds.
THEOREM ReadsComplete == Spec => []ReadComplete
  <1>1. IInv => ReadComplete
    BY DEF IInv
  <1> QED  BY <1>1, Invariance, PTL

\* A command does what its call asks for, or nothing.
LEMMA CommandAsked ==
    ASSUME IInv, NEW t \in Threads, WritePiece(t) \/ Erase(t), NEW a \in Memory
    PROVE  memory'[a] = memory[a] \/ memory'[a] = Asked(call[t], a, memory[a])
  <1>1. CASE WritePiece(t)
    <2>1. pc[t] = "send" /\ call[t].op = "write"
      BY <1>1 DEF WritePiece
    <2>2. memory' = memory \/ memory' = Programmed(address[t], buff[t], size(t))
      BY <1>1 DEF WritePiece, Lost, Take, chip
    <2> QED  BY <2>1, <2>2, WriteEffect
  <1>2. CASE Erase(t)
    <2>1. pc[t] = "send" /\ call[t].op = "erase"
      BY <1>2 DEF Erase
    <2>2. address[t] = call[t].address
      BY <2>1 DEF IInv, Splitting, InCall
    <2>3. memory' = memory \/ memory' = ErasedAt(address[t])
      BY <1>2 DEF Erase, Lost, Take, chip
    <2> QED  BY <2>1, <2>2, <2>3 DEF ErasedAt, Asked
  <1> QED  BY <1>1, <1>2

\* Who changes the memory, and how.
LEMMA ChangesAreAsked ==
    ASSUME IInv, Next, NEW a \in Memory, memory'[a] # memory[a]
    PROVE  \E t \in Threads : InCall(t) /\ memory'[a] = Asked(call[t], a, memory[a])
  <1>1. PICK t \in Threads : WritePiece(t) \/ Erase(t)
    BY DEF Next, CallStep, Finish, Begin, Poll, WriteEnable, CheckEnabled, ReadPiece,
           Return, Seen, Lost, chip
  <1>2. memory'[a] = Asked(call[t], a, memory[a])
    BY <1>1, CommandAsked
  <1>3. InCall(t)
    BY <1>1 DEF WritePiece, Erase, InCall
  <1> QED  BY <1>2, <1>3

\* A byte of the chip changes only to what a call under way asks for, also if
\* requests fail and threads interfere.
THEOREM NothingElseChanges == Spec => OnlyWhatIsAsked
  <1> DEFINE Step == \A a \in Memory :
        memory'[a] # memory[a] =>
            \E t \in Threads : InCall(t) /\ memory'[a] = Asked(call[t], a, memory[a])
  <1>1. IInv /\ [Next]_vars => [Step]_vars
    BY ChangesAreAsked
  <1>2. [][Step]_vars => OnlyWhatIsAsked
    BY DEF OnlyWhatIsAsked
  <1> QED  BY <1>1, <1>2, Invariance, PTL DEF Spec

-----------------------------------------------------------------------------
(***************************************************************************)
(* Every call comes nearer its return.                                     *)
(***************************************************************************)
\* What one piece takes at most.
Round == 3 + 2 * MAX_ITERATES

\* One piece less is as much as a piece takes.
LEMMA OneRound ==
    ASSUME NEW m \in Nat, NEW n \in Nat, m < n, NEW r \in Nat
    PROVE  r * m + r <= r * n
  <1>1. n = m + 1 + (n - m - 1) /\ n - m - 1 \in Nat
    OBVIOUS
  <1>2. \A k \in Nat : r * (m + 1 + k) = r * m + r + r * k /\ r * k \in Nat
    OBVIOUS
  <1> QED  BY <1>1, <1>2

\* The measure is a natural number.
Measured(t) ==
    /\ Left(t) \in Nat
    /\ StepsInPiece(t) \in 0 .. Round
    /\ InCall(t) => StepsInPiece(t) > 0
    /\ Round * Left(t) \in Nat
    /\ StepsLeft(t) = Round * Left(t) + StepsInPiece(t)

AllMeasured == \A t \in Threads : Measured(t)

LEMMA MeasureIsNat == IInv => AllMeasured
  <1> SUFFICES ASSUME IInv, NEW t \in Threads
               PROVE  Measured(t)
    BY DEF AllMeasured
  <1>1. TypeOK /\ Splitting(t)
    BY DEF IInv
  <1>2. MAX_ITERATES \in Nat \ {0} /\ MaxLength \in Nat
    BY SizesAssumption, MemoryAssumption
  <1>3. i[t] \in 0 .. MAX_ITERATES /\ length[t] \in Nat
    BY <1>1, <1>2 DEF TypeOK
  <1>4. Left(t) \in Nat
    BY <1>3 DEF Left
  <1>5. Round \in Nat
    BY <1>2 DEF Round
  <1>6. \A m, n \in Nat : m * n \in Nat
    OBVIOUS
  <1>7. pc[t] \in {"idle", "poll", "enable", "check", "send", "return"}
    BY <1>1 DEF TypeOK
  <1>8. StepsInPiece(t) \in 0 .. Round /\ (InCall(t) => StepsInPiece(t) > 0)
    BY <1>2, <1>3, <1>7 DEF StepsInPiece, Round, InCall
  <1> QED  BY <1>4, <1>5, <1>6, <1>8 DEF Measured, StepsLeft, Round

\* A piece that is not the last has something in it.
LEMMA PieceNotEmpty ==
    ASSUME IInv, NEW t \in Threads, ~IsLast(t)
    PROVE  size(t) > 0
  <1>1. m_page_size \in Nat \ {0} /\ address[t] \in Nat
    BY SizesAssumption, MemoryAssumption DEF IInv, TypeOK
  <1>2. address[t] % m_page_size \in 0 .. m_page_size - 1
    BY <1>1, Division
  <1> QED  BY <1>1, <1>2 DEF IsLast, IsSplit, size, mergin

\* The end of a piece.
LEMMA PieceIsProgress ==
    ASSUME IInv, IInv', NEW t \in Threads, pc[t] = "send", call[t].op # "erase",
           NEW next \in {"send", "poll"}, NEW last \in 0 .. MaxLength,
           Continue(t, next, last), UNCHANGED call
    PROVE  Left(t)' < Left(t) \/ (Left(t)' = Left(t) /\ StepsInPiece(t)' < StepsInPiece(t))
  <1>1. pc' = [pc EXCEPT ![t] = IF IsLast(t) THEN "return" ELSE next]
    BY ContinueFacts
  <1>2. TypeOK /\ TypeOK'
    BY DEF IInv
  <1>3. pc'[t] = IF IsLast(t) THEN "return" ELSE next
    BY <1>1, <1>2 DEF TypeOK
  <1>4. Left(t) = length[t] /\ Left(t)' = length'[t]
    BY DEF Left
  <1>5. CASE IsLast(t)
    <2>1. length'[t] = length[t]
      BY <1>5, ContinueFacts
    <2> QED  BY <1>3, <1>4, <1>5, <2>1 DEF StepsInPiece
  <1>6. CASE ~IsLast(t)
    <2>1. length'[t] = length[t] - size(t)
      BY <1>6, ContinueFacts
    <2>2. size(t) > 0 /\ size(t) \in 0 .. length[t] /\ length[t] \in Nat
      BY <1>2, <1>6, PieceNotEmpty, PieceInPage, MemoryAssumption DEF TypeOK
    <2> QED  BY <1>4, <2>1, <2>2
  <1> QED  BY <1>5, <1>6

\* Each step ends a piece, or is one of the steps that a piece takes.
LEMMA StepIsProgress ==
    ASSUME IInv, IInv', NEW t \in Threads, CallStep(t)
    PROVE  \/ Left(t)' < Left(t)
           \/ Left(t)' = Left(t) /\ StepsInPiece(t)' < StepsInPiece(t)
  <1>1. TypeOK /\ TypeOK' /\ Splitting(t)
    BY DEF IInv
  <1>2. /\ MAX_ITERATES \in Nat \ {0} /\ MaxLength \in Nat
        /\ i[t] \in 0 .. MAX_ITERATES
    BY <1>1, SizesAssumption, MemoryAssumption DEF TypeOK
  <1>3. CASE Poll(t)
    <2>1. /\ pc[t] = "poll" /\ pc'[t] = AfterPoll(t) /\ i'[t] = 0
          /\ UNCHANGED <<call, piece, length>>
      BY <1>1, <1>3 DEF Poll, Goto, TypeOK, locals
    <2>2. AfterPoll(t) \in {"send", "return", "enable"}
      BY DEF AfterPoll
    <2>3. Left(t)' = Left(t)
      BY <2>1, <2>2 DEF Left, InCall
    <2> QED  BY <1>2, <2>1, <2>2, <2>3 DEF StepsInPiece
  <1>4. CASE WriteEnable(t)
    <2>1. /\ pc[t] = "enable" /\ pc'[t] = "check" /\ i' = i
          /\ UNCHANGED <<call, piece, length>>
      BY <1>1, <1>4 DEF WriteEnable, Goto, TypeOK, locals
    <2>2. Left(t)' = Left(t)
      BY <2>1 DEF Left, InCall
    <2> QED  BY <1>2, <2>1, <2>2 DEF StepsInPiece
  <1>5. CASE CheckEnabled(t)
    <2>1. /\ pc[t] = "check" /\ i[t] < MAX_ITERATES
          /\ UNCHANGED <<call, piece, length>>
      BY <1>1, <1>5 DEF CheckEnabled, Splitting
    <2>2. pc'[t] \in {"send", "return"} \/ (pc'[t] = "enable" /\ i'[t] = i[t] + 1)
      BY <1>1, <1>5 DEF CheckEnabled, TryAgain, GiveUp, Goto, TypeOK
    <2>3. Left(t)' = Left(t)
      BY <2>1, <2>2 DEF Left, InCall
    <2> QED  BY <1>2, <2>1, <2>2, <2>3 DEF StepsInPiece
  <1>6. CASE ReadPiece(t) \/ WritePiece(t)
    <2>1. pc[t] = "send" /\ call[t].op # "erase" /\ UNCHANGED call
      BY <1>6 DEF ReadPiece, WritePiece
    <2>2. PICK next \in {"send", "poll"}, last \in {0, result[t] + size(t)} :
             Continue(t, next, last)
      BY <1>6 DEF ReadPiece, WritePiece
    <2>3. last \in 0 .. MaxLength
      <3>1. buff[t] + length[t] = call[t].length /\ result[t] = buff[t] /\ call[t] \in Calls
        BY <1>1, <2>1 DEF Splitting, InCall
      <3>2. call[t].length \in 0 .. MaxLength
        BY <3>1, CallFacts
      <3>3. size(t) \in 0 .. length[t] /\ length[t] \in Nat /\ buff[t] \in Nat
        BY <1>1, <1>2, <2>1, PieceInPage DEF TypeOK
      <3> QED  BY <1>2, <3>1, <3>2, <3>3
    <2> QED  BY <2>1, <2>2, <2>3, PieceIsProgress
  <1>7. CASE Erase(t)
    <2>1. /\ pc[t] = "send" /\ call[t].op = "erase" /\ pc'[t] = "poll"
          /\ piece'[t] = "last" /\ UNCHANGED call
      BY <1>1, <1>7 DEF Erase, Goto, TypeOK
    <2>2. piece[t] = "first"
      BY <1>1, <2>1 DEF Splitting, InCall
    <2> QED  BY <2>1, <2>2 DEF Left, InCall
  <1>8. CASE Return(t)
    <2>1. pc[t] = "return" /\ pc'[t] = "idle" /\ length'[t] = 0
      BY <1>1, <1>8 DEF Return, Goto, TypeOK
    <2>2. Left(t)' = 0 /\ Left(t) \in Nat
      BY <2>1, MeasureIsNat DEF Left, InCall, Measured, AllMeasured
    <2> QED  BY <2>1, <2>2 DEF StepsInPiece
  <1> QED  BY <1>3, <1>4, <1>5, <1>6, <1>7, <1>8 DEF CallStep

LEMMA StepNearer ==
    ASSUME IInv, IInv', NEW t \in Threads, CallStep(t)
    PROVE  StepsLeft(t)' \in 0 .. StepsLeft(t) - 1
  <1> DEFINE l == Left(t)
             s == StepsInPiece(t)
             m == Left(t)'
             n == StepsInPiece(t)'
  <1>1. InCall(t)
    BY DEF CallStep, Poll, WriteEnable, CheckEnabled, ReadPiece, WritePiece, Erase, Return, InCall
  <1>2. /\ l \in Nat /\ s \in 0 .. Round /\ s > 0 /\ Round * l \in Nat
        /\ StepsLeft(t) = Round * l + s
    BY <1>1, MeasureIsNat DEF Measured, AllMeasured
  <1>3. /\ m \in Nat /\ n \in 0 .. Round /\ Round * m \in Nat
        /\ StepsLeft(t)' = Round * m + n
    <2>1. AllMeasured'
      BY MeasureIsNat, PTL
    <2> QED  BY <2>1 DEF AllMeasured, Measured, Round
  <1> Round \in Nat
    BY SizesAssumption DEF Round
  <1>4. m < l \/ (m = l /\ n < s)
    BY StepIsProgress
  <1> HIDE DEF l, s, m, n
  <1>5. m < l => Round * m + Round <= Round * l
    BY <1>2, <1>3, OneRound
  <1> QED  BY <1>2, <1>3, <1>4, <1>5

\* Every step of a call takes it nearer its return, and nobody else takes it
\* away from there.
THEOREM NearerEnd == Spec => NearerReturn
  <1> DEFINE Nearer(t) ==
        IF CallStep(t)
        THEN StepsLeft(t)' \in 0 .. StepsLeft(t) - 1
        ELSE InCall(t) => StepsLeft(t)' = StepsLeft(t)
  <1>1. ASSUME IInv, Next, NEW t \in Threads
        PROVE  Nearer(t)
    <2>1. IInv'
      BY <1>1, StepIInv
    <2>2. CASE CallStep(t)
      BY <1>1, <2>1, <2>2, StepNearer
    <2>3. CASE ~CallStep(t) /\ InCall(t)
      <3>1. /\ pc'[t] = pc[t] /\ call'[t] = call[t] /\ piece'[t] = piece[t]
            /\ length'[t] = length[t] /\ i'[t] = i[t]
        <4>1. CASE Finish
          BY <4>1 DEF Finish, locals
        <4>2. ASSUME NEW u \in Threads, Begin(u) \/ CallStep(u)
              PROVE  <3>1!:
          <5>1. u # t
            BY <2>3, <4>2 DEF Begin, InCall
          <5>2. Foreign(u)
            BY <1>1, <4>2, StepIsOwn
          <5> QED  BY <5>1, <5>2 DEF Foreign
        <4> QED  BY <1>1, <4>1, <4>2 DEF Next
      <3> QED  BY <2>3, <3>1 DEF StepsLeft, StepsInPiece, Left, InCall
    <2> QED  BY <2>2, <2>3
  <1>2. IInv /\ [Next]_vars => [\A t \in Threads : Nearer(t)]_vars
    BY <1>1
  <1>3. [][\A t \in Threads : Nearer(t)]_vars => NearerReturn
    BY DEF NearerReturn
  <1> QED  BY <1>2, <1>3, Invariance, PTL DEF Spec

\* Where a call is never further from its return than this.
Most == Round * (MaxLength + 2)

\* No call takes more steps than that: its length, the number of tries and
\* nothing else bounds them.
THEOREM BoundedCalls == Spec => [](\A t \in Threads : StepsLeft(t) \in 0 .. Most)
  <1>1. ASSUME IInv, NEW t \in Threads
        PROVE  StepsLeft(t) \in 0 .. Most
    <2>1. /\ Left(t) \in Nat /\ StepsInPiece(t) \in 0 .. Round /\ Round * Left(t) \in Nat
          /\ StepsLeft(t) = Round * Left(t) + StepsInPiece(t)
      BY <1>1, MeasureIsNat DEF Measured, AllMeasured
    <2>2. Round \in Nat /\ MaxLength \in Nat
      BY SizesAssumption, MemoryAssumption DEF Round
    <2>3. Left(t) < MaxLength + 2
      BY <1>1, <2>2 DEF IInv, TypeOK, Left
    <2> DEFINE n == MaxLength + 2
    <2>4. n \in Nat /\ Left(t) < n
      BY <2>2, <2>3
    <2> HIDE DEF n
    <2>5. Round * Left(t) + Round <= Round * n
      BY <2>1, <2>2, <2>4, OneRound
    <2>6. Round * n \in Nat
      <3>1. \A k, m \in Nat : k * m \in Nat
        OBVIOUS
      <3> QED  BY <2>2, <2>4, <3>1
    <2> QED  BY <2>1, <2>2, <2>5, <2>6 DEF Most, n
  <1>2. IInv => \A t \in Threads : StepsLeft(t) \in 0 .. Most
    BY <1>1
  <1> QED  BY <1>2, Invariance, PTL

-----------------------------------------------------------------------------
(***************************************************************************)
(* The contract.                                                           *)
(***************************************************************************)
\* The contract speaks of the same memory, buffers and calls.
LEMMA SameTerms ==
    /\ Contract!Memory = Memory /\ Contract!Buffer = Buffer /\ Contract!Bytes = Bytes
    /\ Contract!Blank = Blank /\ Contract!Unread = Unread
    /\ \A c, a, old : Contract!Asked(c, a, old) = Asked(c, a, old)
  BY DEF Contract!Memory, Contract!Buffer, Contract!Bytes, Contract!Blank, Contract!Unread,
         Contract!Asked, Contract!Block,
         Memory, Buffer, Bytes, Blank, Unread, Asked, Block

LEMMA CallIffInCall ==
    ASSUME IInv, NEW t \in Threads
    PROVE  call[t] # NoCall <=> InCall(t)
  BY CallsAssumption DEF IInv, TypeOK, Splitting

\* The value and the cleanness that a call has in the contract.
Values == [t \in Threads |-> IF pc[t] = "return" THEN result[t] ELSE 0]
Cleanness == [t \in Threads |-> Smooth(t)]

\* What the contract lets any step of a call do with its value.
LEMMA StepDecides ==
    ASSUME IInv, NEW t \in Threads, CallStep(t), UNCHANGED call
    PROVE  Contract!Decide(t)
  <1>1. TypeOK /\ TypeOK' /\ Foreign(t)
    BY StepIsOwn DEF IInv
  <1>2. InCall(t)
    BY DEF CallStep, Poll, WriteEnable, CheckEnabled, ReadPiece, WritePiece, Erase, Return, InCall
  <1> DEFINE v == IF pc'[t] = "return" THEN result'[t] ELSE 0
  <1>3. v \in -1 .. MaxLength
    BY <1>1, MemoryAssumption DEF TypeOK
  <1>4. Values' = [Values EXCEPT ![t] = v]
    <2>1. \A u \in Threads \ {t} : pc'[u] = pc[u] /\ result'[u] = result[u]
      BY <1>1 DEF Foreign
    <2> QED  BY <2>1 DEF Values
  <1> HIDE DEF v
  <1>5. call[t] # NoCall
    BY <1>2, CallIffInCall
  <1> QED  BY <1>3, <1>4, <1>5 DEF Contract!Decide, Values

\* What requests do to the cleanness of calls.
LEMMA SeenCleanness ==
    ASSUME Seen
    PROVE  Cleanness' = Cleanness
  BY DEF Seen, Cleanness, Smooth

LEMMA LostCleanness ==
    ASSUME IInv, NEW t \in Threads, Lost(t)
    PROVE  Cleanness' = [Cleanness EXCEPT ![t] = FALSE]
  BY DEF Lost, Cleanness, Smooth, IInv, TypeOK

LEMMA SentCleanness ==
    ASSUME IInv, NEW t \in Threads, Sent(t)
    PROVE  Cleanness' = [u \in Threads |-> Cleanness[u] /\ (u = t \/ call[u] = NoCall)]
  <1>1. \A u \in Threads : call[u] = NoCall <=> pc[u] = "idle"
    BY CallIffInCall DEF InCall
  <1>2. ASSUME NEW u \in Threads
        PROVE  Smooth(u)' <=> Smooth(u) /\ (u = t \/ call[u] = NoCall)
    BY <1>1 DEF Sent, ForOthers, Smooth
  <1>3. \A u \in Threads : Smooth(u) \in BOOLEAN /\ Smooth(u)' \in BOOLEAN
    BY DEF Smooth
  <1> QED  BY <1>2, <1>3 DEF Cleanness

LEMMA SeenOrLostRefines ==
    ASSUME IInv, NEW t \in Threads, CallStep(t), Seen \/ Lost(t), UNCHANGED <<call, buffer>>
    PROVE  Contract!Request(t)
  <1>1. Contract!Decide(t)
    BY StepDecides
  <1>2. Cleanness' \in {Cleanness, [Cleanness EXCEPT ![t] = FALSE]}
    BY SeenCleanness, LostCleanness
  <1>3. memory' = memory
    BY DEF Seen, Lost, chip
  <1> QED  BY <1>1, <1>2, <1>3 DEF Contract!Request, Cleanness

LEMMA SentRefines ==
    ASSUME IInv, NEW t \in Threads, CallStep(t), Sent(t), UNCHANGED <<call, buffer>>,
           \A a \in Memory :
               memory'[a] = memory[a] \/ memory'[a] = Asked(call[t], a, memory[a])
    PROVE  Contract!Command(t)
  <1>1. Contract!Decide(t)
    BY StepDecides
  <1>2. Cleanness' = [u \in Threads |-> Cleanness[u] /\ (u = t \/ call[u] = NoCall)]
    BY SentCleanness
  <1>3. TypeOK /\ TypeOK'
    BY StepIsOwn DEF IInv
  <1> DEFINE S == {a \in Memory : memory'[a] # memory[a]}
  <1>4. memory' = [a \in Memory |-> IF a \in S THEN Asked(call[t], a, memory[a]) ELSE memory[a]]
    BY <1>3 DEF TypeOK
  <1>5. S \in SUBSET Memory
    OBVIOUS
  <1> HIDE DEF S
  <1>6. \E R \in SUBSET Contract!Memory :
            memory' = [a \in Contract!Memory |->
                        IF a \in R THEN Contract!Asked(call[t], a, memory[a]) ELSE memory[a]]
    BY <1>4, <1>5, SameTerms
  <1> QED  BY <1>1, <1>2, <1>6 DEF Contract!Command, Cleanness

LEMMA BeginRefines ==
    ASSUME IInv, NEW t \in Threads, Begin(t)
    PROVE  Contract!Begin(t)
  <1>1. TypeOK /\ pc[t] = "idle" /\ pc' = [pc EXCEPT ![t] = "poll"]
    BY DEF IInv, Begin, Goto
  <1>2. call[t] = NoCall /\ \E c \in Calls : call' = [call EXCEPT ![t] = c]
    BY <1>1, CallIffInCall DEF Begin, InCall
  <1>3. Values' = Values
    <2>1. result' = result /\ \A u \in Threads : pc'[u] = "return" <=> pc[u] = "return"
      BY <1>1 DEF Begin, TypeOK
    <2> QED  BY <2>1 DEF Values
  <1>4. Cleanness' = Cleanness /\ UNCHANGED <<memory, buffer>>
    BY DEF Begin, Cleanness, Smooth, chip
  <1> QED  BY <1>2, <1>3, <1>4 DEF Contract!Begin, Values, Cleanness

\* A read that is not disturbed gets bytes of the chip.
LEMMA ReadRefines ==
    ASSUME IInv, NEW t \in Threads, ReadPiece(t), Seen
    PROVE  Contract!Fetch(t) \/ Contract!Request(t)
  <1>1. TypeOK /\ TypeOK' /\ Splitting(t) /\ SmoothProgress(t)
    BY StepIsOwn DEF IInv, CallStep
  <1>2. pc[t] = "send" /\ call[t].op = "read" /\ UNCHANGED <<call, memory>>
    BY DEF ReadPiece, Seen, chip
  <1>3. Contract!Decide(t) /\ Cleanness' = Cleanness
    BY <1>2, StepDecides, SeenCleanness DEF CallStep
  <1>4. CASE buffer' = buffer
    BY <1>2, <1>4, SeenOrLostRefines DEF CallStep
  <1>5. ASSUME buffer' # buffer
        PROVE  Contract!Fetch(t)
    <2> DEFINE b == [k \in Buffer |->
                  IF k \in buff[t] .. buff[t] + size(t) - 1
                  THEN IF busy THEN Bytes ELSE {memory[address[t] + k - buff[t]]}
                  ELSE buffer[t][k]]
    <2>1. buffer' = [buffer EXCEPT ![t] = b]
      BY <1>5 DEF ReadPiece
    <2>2. buffer'[t] = b
      BY <1>1, <2>1 DEF TypeOK
    <2>3. buffer'[t] \in [Buffer -> SUBSET Bytes]
      BY <1>1 DEF TypeOK
    <2>4. ASSUME Smooth(t), NEW k \in 0 .. call[t].length - 1
          PROVE  buffer'[t][k] \in {buffer[t][k], {memory[call[t].address + k]}}
      <3>1. /\ call[t] \in Calls /\ address[t] = call[t].address + buff[t]
        BY <1>1, <1>2 DEF Splitting, InCall
      <3>2. call[t].address \in Int /\ call[t].length \in 0 .. MaxLength /\ buff[t] \in Int
        BY <1>1, <3>1, CallFacts DEF TypeOK
      <3>3. k \in Buffer
        BY <3>2, MemoryAssumption DEF Buffer
      <3>4. ~busy
        BY <1>1, <1>2, <2>4 DEF SmoothProgress, InCall
      <3>5. address[t] + k - buff[t] = call[t].address + k
        BY <3>1, <3>2
      <3>6. b[k] = IF k \in buff[t] .. buff[t] + size(t) - 1
                   THEN {memory[address[t] + k - buff[t]]} ELSE buffer[t][k]
        BY <3>3, <3>4
      <3> QED  BY <2>2, <3>5, <3>6
    <2>5. buffer' = [buffer EXCEPT ![t] = buffer'[t]]
      <3> HIDE DEF b
      <3> QED  BY <2>1, <2>2
    <2>6. Cleanness[t] = Smooth(t)
      BY DEF Cleanness
    <2> QED  BY <1>2, <1>3, <2>3, <2>4, <2>5, <2>6, SameTerms
             DEF Contract!Fetch, Cleanness
  <1> QED  BY <1>4, <1>5

\* A clean call that returns has done what it was called for.
LEMMA ReturnRefines ==
    ASSUME IInv, NEW t \in Threads, Return(t)
    PROVE  Contract!Return(t)
  <1>1. TypeOK /\ Splitting(t) /\ SmoothProgress(t) /\ ChangeDone(t) /\ ReadDone(t)
    BY DEF IInv, ChangeComplete, ReadComplete
  <1>2. pc[t] = "return" /\ InCall(t) /\ call[t] # NoCall /\ call[t] \in Calls
    BY <1>1, CallIffInCall DEF Return, InCall, Splitting
  <1>3. ASSUME Smooth(t)
        PROVE  Contract!Fulfilled(t, call[t])
    <2>1. Values[t] = IF call[t].op = "erase" THEN 0 ELSE call[t].length
      BY <1>1, <1>2, <1>3, CallFacts DEF Values, ChangeDone, ReadDone
    <2>2. call[t].op = "read" =>
            \A k \in 0 .. call[t].length - 1 : buffer[t][k] = {memory[call[t].address + k]}
      BY <1>1, <1>2, <1>3 DEF ReadDone
    <2>3. ASSUME NEW a \in Memory
          PROVE  Asked(call[t], a, memory[a]) = memory[a]
      <3>1. CASE call[t].op = "read"
        BY <3>1 DEF Asked
      <3>2. CASE call[t].op # "read"
        <4>1. memory[a] = Asked(call[t], a, before[t][a])
          BY <1>1, <1>2, <1>3, <3>2 DEF ChangeDone
        <4> QED  BY <4>1 DEF Asked
      <3> QED  BY <3>1, <3>2
    <2> QED  BY <2>1, <2>2, <2>3, SameTerms DEF Contract!Fulfilled, Values
  <1>4. Values' = [Values EXCEPT ![t] = 0]
    BY <1>1 DEF Values, Return, Goto, TypeOK
  <1>5. Cleanness' = [Cleanness EXCEPT ![t] = TRUE]
    BY <1>1 DEF Cleanness, Smooth, Return, TypeOK
  <1>6. Cleanness[t] = Smooth(t)
    BY DEF Cleanness
  <1>7. /\ call' = [call EXCEPT ![t] = NoCall] /\ buffer' = [buffer EXCEPT ![t] = Unread]
        /\ memory' = memory
    BY DEF Return, chip
  <1> QED  BY <1>2, <1>3, <1>4, <1>5, <1>6, <1>7, SameTerms
           DEF Contract!Return, Values, Cleanness

LEMMA StepRefines ==
    ASSUME IInv, [Next]_vars
    PROVE  [Contract!Next]_(Contract!vars)
  <1>1. CASE UNCHANGED vars \/ Finish
    <2>1. UNCHANGED <<call, memory, buffer, pc, result, disturbed, faulty>>
      BY <1>1 DEF vars, chip, locals, Finish
    <2>2. Values' = Values /\ Cleanness' = Cleanness
      BY <2>1 DEF Values, Cleanness, Smooth
    <2> QED  BY <2>1, <2>2 DEF Contract!vars, Values, Cleanness
  <1>2. ASSUME NEW t \in Threads, Begin(t) \/ CallStep(t)
        PROVE  \/ Contract!Begin(t) \/ Contract!Request(t) \/ Contract!Command(t)
               \/ Contract!Fetch(t) \/ Contract!Return(t)
    <2>1. CASE Begin(t)
      BY <2>1, BeginRefines
    <2>2. CASE Poll(t) \/ CheckEnabled(t)
      <3>1. (Seen \/ Lost(t)) /\ UNCHANGED <<call, buffer>>
        BY <2>2 DEF Poll, CheckEnabled
      <3> QED  BY <2>2, <3>1, SeenOrLostRefines DEF CallStep
    <2>3. CASE WriteEnable(t)
      <3>1. CASE Lost(t)
        BY <2>3, <3>1, SeenOrLostRefines DEF CallStep, WriteEnable
      <3>2. CASE Sent(t) /\ memory' = memory
        BY <2>3, <3>2, SentRefines DEF CallStep, WriteEnable
      <3> QED  BY <2>3, <3>1, <3>2 DEF WriteEnable
    <2>4. CASE ReadPiece(t)
      <3>1. CASE Lost(t) /\ buffer' = buffer
        BY <2>4, <3>1, SeenOrLostRefines DEF CallStep, ReadPiece
      <3>2. CASE Seen
        BY <2>4, <3>2, ReadRefines
      <3> QED  BY <2>4, <3>1, <3>2 DEF ReadPiece
    <2>5. CASE WritePiece(t) \/ Erase(t)
      <3>1. CASE Lost(t)
        BY <2>5, <3>1, SeenOrLostRefines DEF CallStep, WritePiece, Erase
      <3>2. CASE Sent(t)
        BY <2>5, <3>2, SentRefines, CommandAsked DEF CallStep, WritePiece, Erase
      <3> QED  BY <2>5, <3>1, <3>2 DEF WritePiece, Erase
    <2>6. CASE Return(t)
      BY <2>6, ReturnRefines
    <2> QED  BY <1>2, <2>1, <2>2, <2>3, <2>4, <2>5, <2>6 DEF CallStep
  <1> QED  BY <1>1, <1>2 DEF Next, Contract!Next

\* QSPI_FLASH keeps the contract of FlashContract: whatever pages, latches and
\* interleavings there are, a call that nothing comes into does all that it was
\* called for, and no call does harm.
THEOREM Refinement == Spec => ImplementsContract
  <1>1. Init => Contract!Init
    <2>1. ASSUME Init
          PROVE  Values = [t \in Threads |-> 0] /\ Cleanness = [t \in Threads |-> TRUE]
      BY <2>1 DEF Init, Values, Cleanness, Smooth
    <2> QED  BY <2>1, SameTerms DEF Init, Contract!Init, Values, Cleanness
  <1>2. IInv /\ [Next]_vars => [Contract!Next]_(Contract!vars)
    BY StepRefines
  <1> QED  BY <1>1, <1>2, Invariance, PTL DEF Spec, ImplementsContract, Contract!Spec

=============================================================================
