--------------------------- MODULE JsonLexerProofs ---------------------------
(***************************************************************************)
(* Proofs about the scanner, for every set of texts: it reads inside its   *)
(* buffer, a refill loses nothing, and each token is the longest of the    *)
(* grammar at its place.                                                   *)
(***************************************************************************)
EXTENDS JsonLexer, FoldLemmas

-----------------------------------------------------------------------------
(* The automaton.                                                           *)

\* How many bytes there are behind m_cursor when state s is entered.  The
\* scanner checks for five at the start of a token and for three after each
\* digit; this is what is left of them.
Ahead(s) ==
    IF s = "begin" THEN 5
    ELSE IF s \in {"quote", "minus"} \cup Words1 THEN 4
    ELSE IF s \in {"zero", "int", "frac"} \cup Words2 THEN 3
    ELSE IF s \in {"dot", "exp"} \cup Words3 THEN 2
    ELSE 1

\* The states from which scan() may go back to the marker, and on the way to
\* which it has set it.
Marked == Returning \cup Marking

LEMMA ReadsRoom ==
  ASSUME NEW s \in Reading, NEW c \in Byte, NEW t \in Reading, Reads(s, c, t)
  PROVE  Need(t) >= Ahead(t) \/ Ahead(t) < Ahead(s)
  BY DEF Reads, Begin, AfterQuote, InString, Escape, MoreBytes, HexDigit, AfterMinus, AfterZero,
         InInt, AfterDot, InFrac, AfterExp, InExp, FirstOfWord, SecondOfWord, ThirdOfWord,
         LastOfFalse, Need, Ahead, Checking,
         Reading, Complete, Hopeless, Returning, AfterNumber, Tails, HexDigits, Words1, Words2, Words3

LEMMA ReadsMarked ==
  ASSUME NEW s \in Reading, NEW c \in Byte, NEW t \in Marked, Reads(s, c, t)
  PROVE  t \in Marking \/ s \in Marked
  BY DEF Reads, Begin, AfterQuote, InString, Escape, MoreBytes, HexDigit, AfterMinus, AfterZero,
         InInt, AfterDot, InFrac, AfterExp, InExp, FirstOfWord, SecondOfWord, ThirdOfWord,
         LastOfFalse, Marked, Marking, Returning, AfterNumber, Tails, HexDigits, Words1, Words2, Words3

\* No state reads on over a NUL.
LEMMA NulStops ==
  ASSUME NEW s \in Reading, NEW t, Reads(s, 0, t)
  PROVE  t = "end_of_input"
  BY DEF Reads, Begin, AfterQuote, InString, Escape, Escapes, MoreBytes, Continuation, HexDigit, Hex,
         Digit, Exponent, Space, AfterMinus, AfterZero, InInt, AfterDot, InFrac, AfterExp, InExp,
         FirstOfWord, SecondOfWord, ThirdOfWord, LastOfFalse

LEMMA EndIsNoState == "end_of_input" \notin Reading
  BY DEF Reading, Complete, Hopeless, Returning, AfterNumber, Tails, HexDigits, Words1, Words2, Words3

LEMMA AheadBound == ASSUME NEW s PROVE Ahead(s) \in 1 .. 5 /\ Need(s) \in 0 .. 5
  BY DEF Ahead, Need

-----------------------------------------------------------------------------
(* The inductive invariant.                                                 *)

Pointers ==
    /\ text \in Seq(Byte) /\ buf \in Seq(Byte)
    /\ start \in Nat /\ cursor \in Nat /\ marker \in Nat /\ offset \in Nat
    /\ 1 <= start /\ start <= cursor /\ cursor <= limit
    /\ marker <= cursor

Room == state \in Reading => cursor + Ahead(state) <= limit

Marks ==
    /\ state \in Marked => start <= marker
    /\ state \in Reading => marker = 0 \/ start <= marker

\* Only the end of the scan has gone past the NUL behind the text.
BeforePad == state # "done" => offset + cursor <= Len(text) + 1

Control ==
    /\ text \in Texts
    /\ state \in Reading \cup {"ready", "skip", "done"}
    /\ token \in Kinds \cup {"uninitialized"}

IInv == Pointers /\ Room /\ Marks /\ BeforePad /\ Control /\ BufferIsText

\* What fill_line_buffer appends, and what appending does.
LEMMA Padding ==
  ASSUME NEW n \in Nat, n >= 1
  PROVE  LET pad == [i \in 1 .. n |-> IF i = 1 THEN 0 ELSE 1]
         IN  pad \in Seq(Byte) /\ Len(pad) = n /\ pad[1] = 0
  <1>. DEFINE pad == [i \in 1 .. n |-> IF i = 1 THEN 0 ELSE 1]
  <1>1. \A i \in 1 .. n : (IF i = 1 THEN 0 ELSE 1) \in Byte
    BY DEF Byte
  <1>2. pad \in [1 .. n -> Byte]
    BY <1>1
  <1>3. pad \in Seq(Byte) /\ Len(pad) = n
    BY <1>2
  <1>4. pad[1] = 0
    OBVIOUS
  <1>. QED
    BY <1>3, <1>4

LEMMA Appending ==
  ASSUME NEW a \in Seq(Byte), NEW b \in Seq(Byte)
  PROVE  /\ a \o b \in Seq(Byte) /\ Len(a \o b) = Len(a) + Len(b)
         /\ \A i \in 1 .. Len(a \o b) : (a \o b)[i] = IF i <= Len(a) THEN a[i] ELSE b[i - Len(a)]
  OBVIOUS

\* Places in the buffer before and after the first s - 1 bytes have gone.
LEMMA Shifted ==
  ASSUME NEW o \in Nat, NEW b \in Nat, NEW s \in Nat, NEW k \in Nat, NEW i \in Nat, NEW l \in Nat,
         1 <= s, k = b - s + 1, o + b >= l
  PROVE  /\ (o + s - 1) + i = o + (s + i - 1)
         /\ 1 <= i /\ i <= k => s + i - 1 \in 1 .. b
         /\ i > k => (o + s - 1) + i > o + b
         /\ i > k /\ (o + s - 1) + i = l + 1 => i - k = 1
  OBVIOUS

LEMMA Roomy ==
  ASSUME NEW b \in Nat, NEW s \in Nat, NEW c \in Nat, NEW n \in Nat, NEW a \in Nat,
         c <= b + 1, a <= n
  PROVE  (c - s + 1) + a <= ((b - s + 1) + n) + 1
  OBVIOUS

LEMMA Refilled ==
  ASSUME NEW o \in Nat, NEW b \in Nat, NEW n \in Nat, NEW s \in Nat, NEW c \in Nat, NEW m \in Nat,
         1 <= s, s <= c, c <= b + 1, m <= c, m = 0 \/ s <= m, n >= 1
  PROVE  /\ c - s + 1 \in Nat /\ o + s - 1 \in Nat /\ (IF m = 0 THEN 1 ELSE m - s + 1) \in Nat
         /\ 1 <= c - s + 1 /\ c - s + 1 <= ((b - s + 1) + n) + 1
         /\ (IF m = 0 THEN 1 ELSE m - s + 1) <= c - s + 1
  OBVIOUS

LEMMA InitInv == Init => IInv
  <1>. SUFFICES ASSUME Init PROVE IInv
    OBVIOUS
  <1>1. text \in Seq(Byte) /\ buf = text
    BY TextsAssumption DEF Init
  <1>2. "ready" \notin Reading /\ "ready" \notin Marked
    BY DEF Reading, Marked, Marking, Complete, Hopeless, Returning, AfterNumber, Tails, HexDigits, Words1, Words2, Words3
  <1>3. BufferIsText
    BY <1>1 DEF Init, BufferIsText
  <1>. QED
    BY <1>1, <1>2, <1>3 DEF Init, IInv, Pointers, Room, Marks, BeforePad, Control, limit

\* A state is entered with the pointers in order, with its bytes ahead, and
\* with the buffer that holds the rest of the text.
LEMMA EnterKeeps ==
  ASSUME IInv, state # "done",
         NEW next \in Reading, NEW s \in Nat, NEW m \in Nat, NEW c \in Nat,
         1 <= s, s <= c, c <= limit, m <= c,
         offset + c <= Len(text) + 1,
         limit - c >= Need(next) => c + Ahead(next) <= limit,
         next \in Marked => s <= m, m = 0 \/ s <= m,
         Enter(next, s, m, c), text' = text, token' = token
  PROVE  IInv'
  <1>. USE DEF limit
  <1>1. Need(next) \in Nat /\ Ahead(next) \in 1 .. 5
    BY AheadBound
  <1>2. /\ state' = next /\ text' = text /\ token' = token
        /\ Control' /\ (next \in Marked => next \in Reading)
    BY DEF Enter, Control, IInv
  <1>3. next # "done"
    BY DEF Reading, Complete, Hopeless, Returning, AfterNumber, Tails, HexDigits, Words1, Words2, Words3
  <1>4. CASE limit - c < Need(next)
    <2>. DEFINE n == Need(next)
                pad == [i \in 1 .. n |-> IF i = 1 THEN 0 ELSE 1]
                kept == SubSeq(buf, s, Len(buf))
    <2>1. buf' = kept \o pad /\ start' = 1 /\ marker' = (IF m = 0 THEN 1 ELSE m - s + 1)
          /\ cursor' = c - s + 1 /\ offset' = offset + s - 1
      BY <1>4 DEF Enter, FillLineBuffer
    <2>2. n \in Nat /\ n >= 1 /\ Ahead(next) <= n
      BY <1>1, <1>4 DEF IInv, Pointers, Need, Ahead, Checking, Tails, HexDigits, Words1, Words2, Words3
    <2>3. kept \in Seq(Byte) /\ Len(kept) = Len(buf) - s + 1
          /\ Len(kept) \in Nat /\ Len(buf) \in Nat
          /\ \A i \in 1 .. Len(kept) : kept[i] = buf[s + i - 1]
      BY DEF IInv, Pointers
    <2>4. pad \in Seq(Byte) /\ Len(pad) = n /\ pad[1] = 0
      BY <2>2, Padding
    <2>5. /\ buf' \in Seq(Byte) /\ Len(buf') = Len(kept) + n
          /\ \A i \in 1 .. Len(buf') : buf'[i] = IF i <= Len(kept) THEN kept[i] ELSE pad[i - Len(kept)]
      <3>. HIDE DEF kept, pad, n
      <3>. QED
        BY <2>1, <2>2, <2>3, <2>4, Appending
    <2>. HIDE DEF kept, pad, n
    <2>6. Pointers'
      <3>1. /\ c - s + 1 \in Nat /\ offset + s - 1 \in Nat /\ (IF m = 0 THEN 1 ELSE m - s + 1) \in Nat
            /\ 1 <= c - s + 1 /\ c - s + 1 <= ((Len(buf) - s + 1) + n) + 1
            /\ (IF m = 0 THEN 1 ELSE m - s + 1) <= c - s + 1
        <4>1. offset \in Nat /\ c <= Len(buf) + 1
          BY DEF IInv, Pointers
        <4>. QED
          BY <4>1, <2>2, <2>3, Refilled
      <3>2. text' \in Seq(Byte)
        BY <1>2 DEF IInv, Pointers
      <3>3. /\ start' \in Nat /\ cursor' \in Nat /\ marker' \in Nat /\ offset' \in Nat
            /\ start' = 1 /\ start' <= cursor' /\ marker' <= cursor'
        BY <2>1, <3>1
      <3>4. cursor' <= Len(buf') + 1
        BY <2>1, <2>3, <2>5, <3>1
      <3>. QED
        BY <2>5, <3>2, <3>3, <3>4 DEF Pointers
    <2>7. Room'
      <3>1. cursor' + Ahead(next) <= Len(buf') + 1
        <4>1. c <= Len(buf) + 1 /\ Ahead(next) \in Nat
          BY <1>1
        <4>2. (c - s + 1) + Ahead(next) <= ((Len(buf) - s + 1) + n) + 1
          BY <4>1, <2>2, <2>3, Roomy
        <4>. QED
          BY <4>2, <2>1, <2>3, <2>5
      <3>. QED
        BY <3>1, <1>2 DEF Room
    <2>8. Marks' /\ BeforePad'
      BY <2>1, <1>2 DEF Marks, BeforePad, IInv, Pointers
    <2>9. BufferIsText'
      <3>1. offset + Len(buf) >= Len(text) /\ offset \in Nat /\ Len(buf) \in Nat /\ Len(text) \in Nat
        BY DEF IInv, BufferIsText, Pointers
      <3>2. offset' + Len(buf') >= Len(text')
        BY <3>1, <2>1, <2>2, <2>3, <2>5, <1>2
      <3>. DEFINE Moved(i) ==
                    /\ (offset + s - 1) + i = offset + (s + i - 1)
                    /\ 1 <= i /\ i <= Len(kept) => s + i - 1 \in 1 .. Len(buf)
                    /\ i > Len(kept) => (offset + s - 1) + i > offset + Len(buf)
                    /\ i > Len(kept) /\ (offset + s - 1) + i = Len(text) + 1 => i - Len(kept) = 1
      <3>4. \A i \in Nat : Moved(i)
        <4>. TAKE i \in Nat
        <4>1. Len(kept) = Len(buf) - s + 1 /\ Len(kept) \in Nat
          BY <2>3
        <4>. QED
          BY <3>1, <4>1, Shifted, SMTT(30)
      <3>3. ASSUME NEW i \in DOMAIN buf'
            PROVE  IF offset' + i <= Len(text') THEN buf'[i] = text'[offset' + i]
                   ELSE offset' + i = Len(text') + 1 => buf'[i] = 0
        <4>1. i \in 1 .. Len(buf')
          BY <3>3, <2>5
        <4>2. CASE i <= Len(kept)
          <5>1. i \in Nat /\ s + i - 1 \in 1 .. Len(buf) /\ offset' + i = offset + (s + i - 1)
            <6>1. i \in Nat /\ 1 <= i
              BY <4>1, <2>3, <2>5
            <6>2. Moved(i)
              BY <6>1, <3>4
            <6>. QED
              BY <6>1, <6>2, <4>2, <2>1
          <5>2. buf'[i] = buf[s + i - 1]
            BY <4>1, <4>2, <2>3, <2>5, SMTT(30)
          <5>3. s + i - 1 \in DOMAIN buf
            BY <5>1 DEF IInv, Pointers
          <5>. QED
            BY <5>1, <5>2, <5>3, <1>2 DEF IInv, BufferIsText
        <4>3. CASE i > Len(kept)
          <5>. i \in Nat
            BY <4>1
          <5>1. offset' + i > offset + Len(buf)
            <6>1. Moved(i)
              BY <3>4
            <6>. QED
              BY <6>1, <4>3, <2>1
          <5>2. buf'[i] = pad[i - Len(kept)]
            BY <4>1, <4>3, <2>3, <2>5
          <5>3. (offset + s - 1) + i = Len(text) + 1 => i - Len(kept) = 1
            <6>1. Moved(i)
              BY <3>4
            <6>. QED
              BY <6>1, <4>3
          <5>4. offset' + i = Len(text) + 1 => buf'[i] = 0
            BY <5>2, <5>3, <2>1, <2>4
          <5>5. ~ offset' + i <= Len(text)
            BY <5>1, <3>1, <2>1
          <5>. QED
            BY <5>4, <5>5, <1>2
        <4>. QED
          BY <4>1, <4>2, <4>3, <2>3, <2>5
      <3>. QED
        BY <3>2, <3>3 DEF BufferIsText
    <2>. QED
      BY <2>6, <2>7, <2>8, <2>9, <1>2 DEF IInv
  <1>5. CASE ~(limit - c < Need(next))
    <2>1. start' = s /\ marker' = m /\ cursor' = c /\ buf' = buf /\ offset' = offset
      BY <1>5 DEF Enter
    <2>2. c + Ahead(next) <= limit
      BY <1>1, <1>5 DEF IInv, Pointers
    <2>3. Pointers' /\ Room' /\ Marks' /\ BeforePad'
      BY <2>1, <2>2, <1>2 DEF Pointers, Room, Marks, BeforePad, IInv
    <2>4. BufferIsText'
      BY <2>1, <1>2 DEF BufferIsText, IInv
    <2>. QED
      BY <2>3, <2>4, <1>2 DEF IInv
  <1>. QED
    BY <1>4, <1>5

-----------------------------------------------------------------------------
(* The steps.                                                               *)

LEMMA StatesApart ==
    /\ {"ready", "skip", "done"} \cap Reading = {}
    /\ Marked \subseteq Reading /\ "begin" \in Reading /\ "begin" \notin Marked
  BY DEF Reading, Marked, Marking, Complete, Hopeless, Returning, AfterNumber, Tails, HexDigits, Words1, Words2, Words3

LEMMA ScanKeeps == ASSUME IInv, Scan PROVE IInv'
  <1>1. /\ state # "done" /\ cursor \in Nat /\ 1 <= cursor /\ cursor <= limit /\ limit \in Nat
        /\ offset + cursor <= Len(text) + 1
    BY DEF Scan, IInv, Pointers, BeforePad, limit
  <1>2. limit - cursor >= Need("begin") => cursor + Ahead("begin") <= limit
    BY <1>1 DEF Need, Ahead
  <1>. QED
    BY <1>1, <1>2, StatesApart, EnterKeeps DEF Scan

LEMMA AdvanceKeeps == ASSUME IInv, Advance PROVE IInv'
  <1>. DEFINE c == buf[cursor]
  <1>1. PICK next \in Reading :
          /\ Reads(state, c, next)
          /\ Enter(next, start, IF next \in Marking THEN cursor + 1 ELSE marker, cursor + 1)
    BY DEF Advance
  <1>2. state \in Reading /\ text' = text /\ token' = token
    BY DEF Advance
  <1>3. Ahead(state) \in 1 .. 5 /\ cursor + Ahead(state) <= limit /\ limit \in Nat
    BY <1>2, AheadBound DEF IInv, Room, Pointers, limit
  <1>4. cursor \in DOMAIN buf /\ c \in Byte
    BY <1>3 DEF IInv, Pointers, limit
  <1>5. c # 0
    BY <1>1, <1>2, NulStops, EndIsNoState
  <1>6. offset + cursor + 1 <= Len(text) + 1
    BY <1>2, <1>4, <1>5, StatesApart DEF IInv, BeforePad, BufferIsText, Pointers
  <1>7. Need(next) >= Ahead(next) \/ Ahead(next) < Ahead(state)
    BY <1>1, <1>2, <1>4, ReadsRoom
  <1>8. limit - (cursor + 1) >= Need(next) => (cursor + 1) + Ahead(next) <= limit
    BY <1>3, <1>7, AheadBound, SMTT(30) DEF IInv, Pointers
  <1>9. next \in Marked => start <= (IF next \in Marking THEN cursor + 1 ELSE marker)
    BY <1>1, <1>2, <1>4, ReadsMarked DEF IInv, Marks, Pointers
  <1>. DEFINE m == IF next \in Marking THEN cursor + 1 ELSE marker
  <1>10. /\ cursor + 1 \in Nat /\ m \in Nat /\ m <= cursor + 1 /\ start \in Nat
         /\ 1 <= start /\ start <= cursor + 1 /\ cursor + 1 <= limit
         /\ offset + (cursor + 1) <= Len(text) + 1 /\ state # "done"
    BY <1>2, <1>3, <1>6, StatesApart DEF IInv, Pointers
  <1>11. (next \in Marked => start <= m) /\ (m = 0 \/ start <= m)
    BY <1>2, <1>9, <1>10 DEF IInv, Marks
  <1>12. Enter(next, start, m, cursor + 1)
    BY <1>1
  <1>. HIDE DEF m
  <1>. QED
    BY <1>2, <1>8, <1>10, <1>11, <1>12, EnterKeeps

LEMMA ReturnKeeps ==
  ASSUME IInv, state \in Reading, NEW kind \in Kinds, NEW p \in Nat, Return(kind, p),
         start <= p, p <= limit, marker <= p,
         kind \notin Final => offset + p <= Len(text) + 1
  PROVE  IInv'
  <1>1. state' \in {"ready", "done"} /\ (state' # "done" => kind \notin Final)
    BY DEF Return
  <1>2. state' \notin Reading /\ state' \notin Marked
    BY <1>1, StatesApart
  <1>3. cursor' = p /\ text' = text /\ buf' = buf /\ start' = start /\ marker' = marker /\ offset' = offset /\ token' = kind
    BY DEF Return
  <1>. QED
    BY <1>1, <1>2, <1>3 DEF IInv, Pointers, Room, Marks, BeforePad, Control, BufferIsText, limit

LEMMA NextKeeps == IInv /\ [Next]_vars => IInv'
  <1>. SUFFICES ASSUME IInv, [Next]_vars PROVE IInv'
    OBVIOUS
  <1>1. CASE Scan
    BY <1>1, ScanKeeps
  <1>2. CASE Advance
    BY <1>2, AdvanceKeeps
  <1>3. CASE SkipSpace
    BY <1>3, StatesApart DEF SkipSpace, IInv, Pointers, Room, Marks, BeforePad, Control, BufferIsText, limit
  <1>4. CASE Accept
    <2>. DEFINE c == buf[cursor]
    <2>1. PICK kind \in Kinds : Reads(state, c, kind) /\ Return(kind, cursor + 1)
      BY <1>4 DEF Accept
    <2>2. state \in Reading
      BY <1>4 DEF Accept
    <2>3. cursor + 1 <= limit /\ cursor + 1 \in Nat /\ start <= cursor + 1 /\ marker <= cursor + 1
      BY <2>2, AheadBound DEF IInv, Room, Pointers, limit
    <2>4. cursor \in DOMAIN buf
      BY <2>3 DEF IInv, Pointers, limit
    <2>5. kind \notin Final => c # 0
      BY <2>1, <2>2, NulStops DEF Final
    <2>6. kind \notin Final => offset + (cursor + 1) <= Len(text) + 1
      BY <2>2, <2>4, <2>5, StatesApart DEF IInv, BeforePad, BufferIsText, Pointers
    <2>. QED
      BY <2>1, <2>2, <2>3, <2>6, ReturnKeeps
  <1>5. CASE Stop
    <2>1. state \in Reading /\ state # "done"
      BY <1>5, StatesApart DEF Stop, Unexpected
    <2>2. /\ cursor + 1 <= limit /\ cursor \in Nat /\ start <= cursor /\ marker <= cursor
          /\ start \in Nat /\ marker \in Nat /\ limit \in Nat /\ offset + cursor <= Len(text) + 1
      BY <2>1, AheadBound DEF IInv, Room, Pointers, BeforePad, limit
    <2>3. CASE Return("value_number", cursor)
      BY <2>1, <2>2, <2>3, ReturnKeeps DEF Kinds
    <2>4. CASE Return("parse_error", cursor)
      BY <2>1, <2>2, <2>4, ReturnKeeps DEF Kinds
    <2>5. CASE Return("parse_error", cursor + 1)
      <3>1. cursor + 1 \in Nat /\ start <= cursor + 1 /\ marker <= cursor + 1
        BY <2>2
      <3>2. "parse_error" \in Final /\ "parse_error" \in Kinds
        BY DEF Final, Kinds
      <3>. QED
        BY <2>1, <2>2, <2>5, <3>1, <3>2, ReturnKeeps
    <2>. QED
      BY <1>5, <2>3, <2>4, <2>5 DEF Stop
  <1>6. CASE Backtrack
    <2>1. state \in Reading /\ state \in Marked /\ state # "done"
      BY <1>6, StatesApart DEF Backtrack, Unexpected, Marked
    <2>2. /\ start <= marker /\ marker <= limit /\ marker \in Nat /\ marker <= marker
          /\ offset + marker <= Len(text) + 1
      BY <2>1 DEF IInv, Marks, Pointers, BeforePad, limit
    <2>3. PICK kind \in Kinds : Return(kind, marker)
      BY <1>6 DEF Backtrack, Kinds
    <2>. QED
      BY <2>1, <2>2, <2>3, ReturnKeeps
  <1>7. CASE UNCHANGED vars
    BY <1>7 DEF vars, IInv, Pointers, Room, Marks, BeforePad, Control, BufferIsText, limit
  <1>. QED
    BY <1>1, <1>2, <1>3, <1>4, <1>5, <1>6, <1>7 DEF Next

LEMMA Invariance == Spec => []IInv
  BY InitInv, NextKeeps, PTL DEF Spec

\* The pointers stay in order in every refill: the assertions of
\* fill_line_buffer hold for every text.
THEOREM LexerTypeCorrect == Spec => []TypeOK
  <1>1. IInv => TypeOK
    BY DEF IInv, Pointers, Control, TypeOK, limit
  <1>. QED
    BY <1>1, Invariance, PTL

\* However long the text and whatever its bytes, scan() reads inside its
\* buffer and looks at no byte behind the first NUL after the text.
THEOREM ReadsCorrect == Spec => []ReadsInside
  <1>1. IInv => ReadsInside
    BY AheadBound, StatesApart DEF IInv, Pointers, Room, BeforePad, ReadsInside, limit
  <1>. QED
    BY <1>1, Invariance, PTL

\* However often it is moved, the buffer holds the rest of the text.
THEOREM BufferCorrect == Spec => []BufferIsText
  <1>1. IInv => BufferIsText
    BY DEF IInv
  <1>. QED
    BY <1>1, Invariance, PTL

-----------------------------------------------------------------------------
(* Towards the longest token.  With r for what is left of the text when a   *)
(* token begins, the grammar's tokens are restated by places (NumberTo,     *)
(* StringTo, FixedTo: the first n bytes of r are such a token), and each    *)
(* state of the automaton by what the k bytes read so far are (NumberAs,    *)
(* StringAs, WordAs).  A byte that is read keeps that knowledge, a byte     *)
(* that goes on to a longer token is read, and where the scanner ends or    *)
(* goes back to, the last token was.                                        *)
(*                                                                          *)
(* Pieces of a text.                                                        *)

\* the bytes of a piece
LEMMA PieceIs ==
  ASSUME NEW r \in Seq(Byte), NEW a \in Nat \ {0}, NEW b \in 0 .. Len(r), a <= b + 1
  PROVE  /\ SubSeq(r, a, b) \in Seq(Byte) /\ Len(SubSeq(r, a, b)) = b - a + 1
         /\ \A i \in 1 .. b - a + 1 : SubSeq(r, a, b)[i] = r[a + i - 1]
  OBVIOUS

LEMMA PieceOfPiece ==
  ASSUME NEW r \in Seq(Byte), NEW n \in 0 .. Len(r), NEW a \in Nat \ {0}, NEW b \in 0 .. n, a <= b + 1
  PROVE  SubSeq(SubSeq(r, 1, n), a, b) = SubSeq(r, a, b)
  OBVIOUS

\* the bytes of a piece that are all of one class
LEMMA PieceIn ==
  ASSUME NEW r \in Seq(Byte), NEW a \in Nat \ {0}, NEW b \in 0 .. Len(r), a <= b + 1, NEW B
  PROVE  AllIn(SubSeq(r, a, b), B) <=> \A x \in a .. b : r[x] \in B
<1> DEFINE s == SubSeq(r, a, b)
<1>1. DOMAIN s = 1 .. b - a + 1 /\ \A i \in 1 .. b - a + 1 : s[i] = r[a + i - 1]
  BY PieceIs
<1>2. ASSUME AllIn(s, B), NEW x \in a .. b PROVE r[x] \in B
  <2>1. x - a + 1 \in 1 .. b - a + 1 /\ a + (x - a + 1) - 1 = x
    OBVIOUS
  <2>2. s[x - a + 1] = r[x]
    BY <1>1, <2>1
  <2> QED
    BY <1>1, <1>2, <2>1, <2>2 DEF AllIn
<1>3. ASSUME \A x \in a .. b : r[x] \in B PROVE AllIn(s, B)
  <2>1. \A i \in 1 .. b - a + 1 : a + i - 1 \in a .. b
    OBVIOUS
  <2> QED
    BY <1>1, <1>3, <2>1 DEF AllIn
<1> QED
  BY <1>2, <1>3

-----------------------------------------------------------------------------
(* Numbers in a text r: by the places where their parts end.                *)

SignOf(r) == IF r # << >> /\ r[1] = 45 THEN 1 ELSE 0

DigitsIn(r, a, b) == \A x \in a .. b : r[x] \in Digit

IntegerTo(r, i) == i > SignOf(r) /\ DigitsIn(r, SignOf(r) + 1, i) /\ (r[SignOf(r) + 1] = 48 => i = SignOf(r) + 1)

FractionTo(r, i, j) == j >= i + 2 /\ r[i + 1] = 46 /\ DigitsIn(r, i + 2, j)

MantissaTo(r, j) == \E i \in 1 .. j : IntegerTo(r, i) /\ (i < j => FractionTo(r, i, j))

\* the place behind which the digits of the exponent are
Signed(r, j) == IF r[j + 2] \in {43, 45} THEN j + 2 ELSE j + 1

ExponentTo(r, j, n) ==
    /\ n >= j + 2 /\ r[j + 1] \in Exponent
    /\ Signed(r, j) < n /\ DigitsIn(r, Signed(r, j) + 1, n)

NumberTo(r, n) == \E j \in 1 .. n : MantissaTo(r, j) /\ (j < n => ExponentTo(r, j, n))

\* an integer by its places; the fraction, the exponent and the number follow
LEMMA IntegerIs ==
  ASSUME NEW r \in Seq(Byte), NEW i \in SignOf(r) .. Len(r)
  PROVE  IsInteger(SubSeq(r, SignOf(r) + 1, i)) <=> IntegerTo(r, i)
<1> DEFINE g == SignOf(r)
           s == SubSeq(r, g + 1, i)
<1>1. g \in 0 .. 1
  BY DEF SignOf
<1>2. g + 1 \in Nat \ {0} /\ i \in 0 .. Len(r) /\ g + 1 <= i + 1 /\ (g + 1) + 1 - 1 = g + 1
  BY <1>1
<1>3. s \in Seq(Byte) /\ Len(s) = i - g /\ (i > g => s[1] = r[g + 1])
  <2>1. s \in Seq(Byte) /\ Len(s) = i - (g + 1) + 1 /\ \A k \in 1 .. i - (g + 1) + 1 : s[k] = r[(g + 1) + k - 1]
    BY <1>2, PieceIs
  <2>2. i - (g + 1) + 1 = i - g /\ (i > g => 1 \in 1 .. i - g)
    BY <1>1
  <2> QED
    BY <1>2, <2>1, <2>2
<1>4. AllIn(s, Digit) <=> DigitsIn(r, g + 1, i)
  BY <1>2, PieceIn DEF DigitsIn
<1>5. s # << >> <=> i > g
  BY <1>1, <1>3
<1>6. i - g = 1 <=> i = g + 1
  BY <1>1
<1> QED
  <2> HIDE DEF s, g
  <2>1. IsInteger(s) <=> i > g /\ DigitsIn(r, g + 1, i) /\ (r[g + 1] = 48 => i = g + 1)
    BY <1>3, <1>4, <1>5, <1>6 DEF IsInteger
  <2> QED
    BY <2>1 DEF IntegerTo, s, g

LEMMA FractionIs ==
  ASSUME NEW r \in Seq(Byte), NEW i \in Nat, NEW j \in Nat, i < j, j <= Len(r)
  PROVE  IsFraction(SubSeq(r, i + 1, j)) <=> FractionTo(r, i, j)
<1> DEFINE s == SubSeq(r, i + 1, j)
<1>1. s \in Seq(Byte) /\ Len(s) = j - i /\ s[1] = r[i + 1]
  <2>1. i + 1 \in Nat \ {0} /\ j \in 0 .. Len(r) /\ i + 1 <= j + 1
    OBVIOUS
  <2>2. s \in Seq(Byte) /\ Len(s) = j - (i + 1) + 1 /\ \A k \in 1 .. j - (i + 1) + 1 : s[k] = r[(i + 1) + k - 1]
    BY <2>1, PieceIs
  <2>3. j - (i + 1) + 1 = j - i /\ 1 \in 1 .. j - i /\ (i + 1) + 1 - 1 = i + 1
    OBVIOUS
  <2> QED
    BY <2>2, <2>3
<1>2. CASE j >= i + 2
  <2>1. i + 2 \in Nat \ {0} /\ j \in 0 .. Len(r) /\ i + 2 <= j + 1
    BY <1>2
  <2>2. Tail(s) = SubSeq(r, i + 2, j)
    BY <1>2
  <2> HIDE DEF s
  <2>3. AllIn(Tail(s), Digit) <=> DigitsIn(r, i + 2, j)
    <3>1. AllIn(SubSeq(r, i + 2, j), Digit) <=> \A x \in i + 2 .. j : r[x] \in Digit
      BY <2>1, PieceIn
    <3> QED
      BY <2>2, <3>1, Zenon DEF DigitsIn
  <2>4. Len(s) >= 2
    BY <1>1, <1>2
  <2>5. IsFraction(s) <=> FractionTo(r, i, j)
    BY <1>1, <1>2, <2>3, <2>4 DEF IsFraction, FractionTo
  <2> QED
    BY <2>5 DEF s
<1>3. CASE ~(j >= i + 2)
  <2>1. ~(Len(s) >= 2)
    BY <1>1, <1>3
  <2> QED
    BY <1>3, <2>1 DEF IsFraction, FractionTo
<1> QED
  BY <1>2, <1>3

LEMMA ExponentIs ==
  ASSUME NEW r \in Seq(Byte), NEW j \in Nat, NEW n \in Nat, j < n, n <= Len(r)
  PROVE  IsExponent(SubSeq(r, j + 1, n)) <=> ExponentTo(r, j, n)
<1> DEFINE s == SubSeq(r, j + 1, n)
<1>1. s \in Seq(Byte) /\ Len(s) = n - j /\ s[1] = r[j + 1] /\ (n >= j + 2 => s[2] = r[j + 2])
  <2>1. j + 1 \in Nat \ {0} /\ n \in 0 .. Len(r) /\ j + 1 <= n + 1
    OBVIOUS
  <2>2. s \in Seq(Byte) /\ Len(s) = n - (j + 1) + 1 /\ \A k \in 1 .. n - (j + 1) + 1 : s[k] = r[(j + 1) + k - 1]
    BY <2>1, PieceIs
  <2>3. n - (j + 1) + 1 = n - j /\ 1 \in 1 .. n - j /\ (j + 1) + 1 - 1 = j + 1
        /\ (n >= j + 2 => 2 \in 1 .. n - j) /\ (j + 1) + 2 - 1 = j + 2
    OBVIOUS
  <2> QED
    BY <2>2, <2>3
<1>2. CASE n >= j + 2
  <2> DEFINE q == Signed(r, j)
             d == IF s[2] \in {43, 45} THEN SubSeq(s, 3, Len(s)) ELSE Tail(s)
  <2>1. q \in Nat /\ q + 1 \in Nat \ {0} /\ n \in 0 .. Len(r) /\ q + 1 <= n + 1
    BY <1>2 DEF Signed
  <2>2. d = SubSeq(r, q + 1, n)
    <3>1. CASE r[j + 2] \in {43, 45}
      <4>1. q = j + 2 /\ d = SubSeq(s, 3, Len(s))
        BY <1>1, <1>2, <3>1 DEF Signed
      <4>2. SubSeq(s, 3, Len(s)) = SubSeq(r, j + 3, n)
        BY <1>2
      <4>3. (j + 2) + 1 = j + 3
        OBVIOUS
      <4> QED
        BY <4>1, <4>2, <4>3
    <3>2. CASE r[j + 2] \notin {43, 45}
      <4>1. q = j + 1 /\ d = Tail(s)
        BY <1>1, <1>2, <3>2 DEF Signed
      <4>2. Tail(s) = SubSeq(r, j + 2, n)
        BY <1>2
      <4>3. (j + 1) + 1 = j + 2
        OBVIOUS
      <4> QED
        BY <4>1, <4>2, <4>3
    <3> QED
      BY <3>1, <3>2
  <2>3. IsExponent(s) <=> Len(s) >= 2 /\ s[1] \in Exponent /\ d # << >> /\ AllIn(d, Digit)
    BY DEF IsExponent
  <2>4. Len(s) >= 2
    BY <1>1, <1>2
  <2> HIDE DEF s, d, q
  <2>5. AllIn(d, Digit) <=> DigitsIn(r, q + 1, n)
    <3>1. AllIn(SubSeq(r, q + 1, n), Digit) <=> \A x \in q + 1 .. n : r[x] \in Digit
      BY <2>1, PieceIn
    <3> QED
      BY <2>2, <3>1, Zenon DEF DigitsIn
  <2>6. d # << >> <=> q < n
    <3>1. SubSeq(r, q + 1, n) \in Seq(Byte) /\ Len(SubSeq(r, q + 1, n)) = n - (q + 1) + 1
      BY <2>1, PieceIs
    <3> QED
      BY <2>1, <2>2, <3>1
  <2>7. ExponentTo(r, j, n) <=> r[j + 1] \in Exponent /\ q < n /\ DigitsIn(r, q + 1, n)
    BY <1>2 DEF ExponentTo, q
  <2>8. IsExponent(s) <=> ExponentTo(r, j, n)
    BY <1>1, <2>3, <2>4, <2>5, <2>6, <2>7
  <2> QED
    BY <2>8 DEF s
<1>3. CASE ~(n >= j + 2)
  <2>1. ~(Len(s) >= 2)
    BY <1>1, <1>3
  <2> QED
    BY <1>3, <2>1 DEF IsExponent, ExponentTo
<1> QED
  BY <1>2, <1>3

LEMMA NumberIs ==
  ASSUME NEW r \in Seq(Byte), NEW n \in 1 .. Len(r)
  PROVE  IsNumber(SubSeq(r, 1, n)) <=> NumberTo(r, n)
<1> DEFINE s == SubSeq(r, 1, n)
           g == SignOf(r)
<1>1. s \in Seq(Byte) /\ Len(s) = n /\ s # << >> /\ s[1] = r[1] /\ r # << >>
  OBVIOUS
<1>2. g \in 0 .. 1 /\ g = (IF s # << >> /\ s[1] = 45 THEN 1 ELSE 0)
  BY <1>1 DEF SignOf
<1>3. \A i \in g .. n : \A j \in i .. n :
        /\ SubSeq(s, g + 1, i) = SubSeq(r, g + 1, i)
        /\ i < j => SubSeq(s, i + 1, j) = SubSeq(r, i + 1, j)
        /\ j < n => SubSeq(s, j + 1, n) = SubSeq(r, j + 1, n)
  <2> SUFFICES ASSUME NEW i \in g .. n, NEW j \in i .. n
               PROVE  /\ SubSeq(s, g + 1, i) = SubSeq(r, g + 1, i)
                      /\ i < j => SubSeq(s, i + 1, j) = SubSeq(r, i + 1, j)
                      /\ j < n => SubSeq(s, j + 1, n) = SubSeq(r, j + 1, n)
    OBVIOUS
  <2>1. /\ n \in 0 .. Len(r) /\ i \in 0 .. n /\ j \in 0 .. n /\ n \in 0 .. n
        /\ g + 1 \in Nat \ {0} /\ i + 1 \in Nat \ {0} /\ j + 1 \in Nat \ {0}
        /\ g + 1 <= i + 1 /\ i + 1 <= j + 1 /\ j + 1 <= n + 1
    BY <1>2
  <2>2. /\ SubSeq(s, g + 1, i) = SubSeq(r, g + 1, i)
        /\ SubSeq(s, i + 1, j) = SubSeq(r, i + 1, j)
        /\ SubSeq(s, j + 1, n) = SubSeq(r, j + 1, n)
    BY <2>1, PieceOfPiece, ZenonT(30)
  <2> QED
    BY <2>2
<1> HIDE DEF s, g
<1>4. IsNumber(s) <=> \E i \in g .. n : \E j \in i .. n :
            /\ IsInteger(SubSeq(s, g + 1, i))
            /\ i < j => IsFraction(SubSeq(s, i + 1, j))
            /\ j < n => IsExponent(SubSeq(s, j + 1, n))
  BY <1>1, <1>2, Zenon DEF IsNumber
<1>5. IsNumber(s) <=> \E i \in g .. n : \E j \in i .. n :
            /\ IntegerTo(r, i)
            /\ i < j => FractionTo(r, i, j)
            /\ j < n => ExponentTo(r, j, n)
  <2>1. \A i \in g .. n : \A j \in i .. n :
            /\ IsInteger(SubSeq(s, g + 1, i)) <=> IntegerTo(r, i)
            /\ i < j => (IsFraction(SubSeq(s, i + 1, j)) <=> FractionTo(r, i, j))
            /\ j < n => (IsExponent(SubSeq(s, j + 1, n)) <=> ExponentTo(r, j, n))
    <3> SUFFICES ASSUME NEW i \in g .. n, NEW j \in i .. n
                 PROVE  /\ IsInteger(SubSeq(r, g + 1, i)) <=> IntegerTo(r, i)
                        /\ i < j => (IsFraction(SubSeq(r, i + 1, j)) <=> FractionTo(r, i, j))
                        /\ j < n => (IsExponent(SubSeq(r, j + 1, n)) <=> ExponentTo(r, j, n))
      BY <1>3
    <3>1. i \in Nat /\ j \in Nat /\ n \in Nat /\ j <= Len(r) /\ n <= Len(r) /\ i \in g .. Len(r)
      BY <1>2
    <3>2. IsInteger(SubSeq(r, g + 1, i)) <=> IntegerTo(r, i)
      BY <3>1, IntegerIs DEF g
    <3> QED
      BY <3>1, <3>2, FractionIs, ExponentIs
  <2> QED
    BY <1>4, <2>1
<1>6. ASSUME NEW i \in g .. n, NEW j \in i .. n, IntegerTo(r, i), i < j => FractionTo(r, i, j), j < n => ExponentTo(r, j, n)
      PROVE  NumberTo(r, n)
  <2>1. i \in 1 .. j /\ j \in 1 .. n
    BY <1>2, <1>6 DEF IntegerTo, g
  <2> QED
    BY <1>6, <2>1 DEF NumberTo, MantissaTo
<1>7. ASSUME NumberTo(r, n)
      PROVE  \E i \in g .. n : \E j \in i .. n :
            /\ IntegerTo(r, i)
            /\ i < j => FractionTo(r, i, j)
            /\ j < n => ExponentTo(r, j, n)
  <2>1. PICK j \in 1 .. n : MantissaTo(r, j) /\ (j < n => ExponentTo(r, j, n))
    BY <1>7 DEF NumberTo
  <2>2. PICK i \in 1 .. j : IntegerTo(r, i) /\ (i < j => FractionTo(r, i, j))
    BY <2>1 DEF MantissaTo
  <2>3. i \in g .. n /\ j \in i .. n
    BY <1>2
  <2> QED
    BY <2>1, <2>2, <2>3
<1>8. IsNumber(s) <=> NumberTo(r, n)
  BY <1>5, <1>6, <1>7
<1> QED
  BY <1>8 DEF s

-----------------------------------------------------------------------------
(* The scanner in a number.                                                 *)

InNumber == {"minus", "zero", "int", "dot", "frac", "exp", "sign", "expint"}

\* what the scanner knows of the first k bytes of r in each state
NumberAs(s, r, k) ==
    /\ s = "minus"  => k = 1 /\ r[1] = 45
    /\ s = "zero"   => k = SignOf(r) + 1 /\ r[k] = 48
    /\ s = "int"    => IntegerTo(r, k) /\ r[SignOf(r) + 1] # 48
    /\ s = "dot"    => IntegerTo(r, k - 1) /\ r[k] = 46
    /\ s = "frac"   => \E i \in 1 .. k : IntegerTo(r, i) /\ FractionTo(r, i, k)
    /\ s = "exp"    => MantissaTo(r, k - 1) /\ r[k] \in Exponent
    /\ s = "sign"   => MantissaTo(r, k - 2) /\ r[k - 1] \in Exponent /\ r[k] \in {43, 45}
    /\ s = "expint" => \E j \in 1 .. k - 1 : MantissaTo(r, j) /\ ExponentTo(r, j, k)

\* what each state of a number reads
LEMMA ReadsNumber ==
  ASSUME NEW c \in Byte, NEW t
  PROVE  /\ Reads("minus", c, t)  <=> AfterMinus(c, t)
         /\ Reads("zero", c, t)   <=> AfterZero(c, t)
         /\ Reads("int", c, t)    <=> InInt(c, t)
         /\ Reads("dot", c, t)    <=> AfterDot(c, t)
         /\ Reads("frac", c, t)   <=> InFrac(c, t)
         /\ Reads("exp", c, t)    <=> AfterExp(c, t)
         /\ Reads("sign", c, t)   <=> InExp(c, t)
         /\ Reads("expint", c, t) <=> InExp(c, t)
  BY DEF Reads, Tails, HexDigits, Words1, Words2, Words3

LEMMA SignType == ASSUME NEW r PROVE SignOf(r) \in 0 .. 1
  BY DEF SignOf

\* an integer is a mantissa, and so is one with a fraction
LEMMA MantissaIs ==
  ASSUME NEW r, NEW j \in Nat \ {0}
  PROVE  /\ IntegerTo(r, j) => MantissaTo(r, j)
         /\ \A i \in 1 .. j : IntegerTo(r, i) /\ FractionTo(r, i, j) => MantissaTo(r, j)
  BY DEF MantissaTo

\* its bytes behind the sign are digits or the dot, and the last one is a digit
LEMMA MantissaBytes ==
  ASSUME NEW r, NEW j \in Nat, MantissaTo(r, j)
  PROVE  /\ \A x \in SignOf(r) + 1 .. j : r[x] \in Digit \cup {46}
         /\ r[j] \in Digit /\ j > SignOf(r)
<1>1. PICK i \in 1 .. j : IntegerTo(r, i) /\ (i < j => FractionTo(r, i, j))
  BY DEF MantissaTo
<1>2. SignOf(r) \in 0 .. 1
  BY SignType
<1>3. ASSUME NEW x \in SignOf(r) + 1 .. j PROVE r[x] \in Digit \cup {46}
  BY <1>1, <1>2 DEF IntegerTo, FractionTo, DigitsIn
<1>4. r[j] \in Digit
  BY <1>1, <1>2 DEF IntegerTo, FractionTo, DigitsIn
<1> QED
  BY <1>1, <1>2, <1>3, <1>4 DEF IntegerTo

\* the mantissa before an exponent is the only one that has one
LEMMA OneMantissa ==
  ASSUME NEW r, NEW j \in Nat, NEW k \in Nat, MantissaTo(r, j), MantissaTo(r, k),
         r[j + 1] \in Exponent, k < j => r[k + 1] \in Exponent
  PROVE  k <= j /\ k >= j
<1>1. SignOf(r) \in 0 .. 1 /\ j > SignOf(r) /\ k > SignOf(r)
  BY SignType, MantissaBytes
<1>2. \A x \in SignOf(r) + 1 .. j : r[x] \in Digit \cup {46}
  BY MantissaBytes
<1>3. \A x \in SignOf(r) + 1 .. k : r[x] \in Digit \cup {46}
  BY MantissaBytes
<1>4. \A c \in Exponent : c \notin Digit \cup {46}
  BY DEF Exponent, Digit
<1>5. ASSUME k > j PROVE FALSE
  <2>1. j + 1 \in SignOf(r) + 1 .. k
    BY <1>1, <1>5
  <2> QED
    BY <1>3, <1>4, <2>1
<1>6. ASSUME k < j PROVE FALSE
  <2>1. k + 1 \in SignOf(r) + 1 .. j
    BY <1>1, <1>6
  <2> QED
    BY <1>2, <1>4, <1>6, <2>1
<1> QED
  BY <1>5, <1>6

\* a number ends with a digit
LEMMA NumberEnds ==
  ASSUME NEW r, NEW n \in Nat, NumberTo(r, n)
  PROVE  r[n] \in Digit
<1>1. PICK j \in 1 .. n : MantissaTo(r, j) /\ (j < n => ExponentTo(r, j, n))
  BY DEF NumberTo
<1>2. CASE j < n
  <2>1. Signed(r, j) \in Nat
    BY DEF Signed
  <2> QED
    BY <1>1, <1>2, <2>1 DEF ExponentTo, DigitsIn
<1>3. CASE ~(j < n)
  <2>1. j = n
    BY <1>3
  <2> QED
    BY <1>1, <2>1, MantissaBytes
<1> QED
  BY <1>2, <1>3

\* the first byte of a number
LEMMA NumberBegins ==
  ASSUME NEW r \in Seq(Byte), r # << >>, NEW t \in InNumber, Reads("begin", r[1], t)
  PROVE  NumberAs(t, r, 1)
<1>1. r[1] \in Byte
  OBVIOUS
<1>2. \/ r[1] = 45 /\ t = "minus"
      \/ r[1] = 48 /\ t = "zero"
      \/ r[1] \in 49 .. 57 /\ t = "int"
  BY <1>1 DEF Reads, Begin, InNumber, Tails, HexDigits, Words1, Words2, Words3
<1>3. CASE r[1] = 45
  BY <1>2, <1>3 DEF NumberAs
<1>4. CASE r[1] = 48
  BY <1>2, <1>4 DEF NumberAs, SignOf
<1>5. CASE r[1] \in 49 .. 57
  <2>1. SignOf(r) = 0 /\ t = "int" /\ r[1] \in Digit
    BY <1>2, <1>5 DEF SignOf, Digit
  <2>2. IntegerTo(r, 1)
    BY <2>1 DEF IntegerTo, DigitsIn
  <2> QED
    BY <1>5, <2>1, <2>2 DEF NumberAs
<1> QED
  BY <1>2, <1>3, <1>4, <1>5

\* a byte that a state reads leads to the state that knows one byte more
LEMMA NumberReads ==
  ASSUME NEW r \in Seq(Byte), NEW k \in Nat \ {0}, k < Len(r),
         NEW s \in InNumber, NEW t \in InNumber, NumberAs(s, r, k), Reads(s, r[k + 1], t)
  PROVE  NumberAs(t, r, k + 1)
<1> DEFINE c == r[k + 1]
<1>0. c \in Byte /\ (k + 1) - 1 = k /\ (k + 1) - 2 = k - 1 /\ k + 1 \in Nat \ {0}
  OBVIOUS
<1>g. SignOf(r) \in 0 .. 1
  BY SignType
<1>1. CASE s = "minus"
  <2>1. k = 1 /\ r[1] = 45 /\ SignOf(r) = 1
    BY <1>1 DEF NumberAs, SignOf
  <2>2. AfterMinus(c, t)
    BY <1>0, <1>1, ReadsNumber
  <2>3. c = 48 => t = "zero"
    BY <2>2 DEF AfterMinus
  <2>4. c # 48 => c \in Digit /\ t = "int"
    BY <2>2 DEF AfterMinus, Digit
  <2>5. c \in Digit => IntegerTo(r, 2)
    BY <2>1 DEF IntegerTo, DigitsIn
  <2> QED
    BY <2>1, <2>3, <2>4, <2>5 DEF NumberAs
<1>2. CASE s = "zero"
  <2>1. k = SignOf(r) + 1 /\ r[k] = 48
    BY <1>2 DEF NumberAs
  <2>2. AfterZero(c, t)
    BY <1>0, <1>2, ReadsNumber
  <2>3. IntegerTo(r, k)
    BY <1>g, <2>1 DEF IntegerTo, DigitsIn, Digit
  <2>4. MantissaTo(r, k)
    BY <2>3, MantissaIs
  <2> QED
    BY <1>0, <2>2, <2>3, <2>4 DEF NumberAs, AfterZero
<1>3. CASE s = "int"
  <2>1. IntegerTo(r, k) /\ r[SignOf(r) + 1] # 48
    BY <1>3 DEF NumberAs
  <2>2. InInt(c, t)
    BY <1>0, <1>3, ReadsNumber
  <2>3. MantissaTo(r, k)
    BY <2>1, MantissaIs
  <2>4. c \in Digit => IntegerTo(r, k + 1)
    BY <1>g, <2>1 DEF IntegerTo, DigitsIn
  <2> QED
    BY <1>0, <2>1, <2>2, <2>3, <2>4 DEF NumberAs, InInt, AfterZero
<1>4. CASE s = "dot"
  <2>1. IntegerTo(r, k - 1) /\ r[k] = 46
    BY <1>4 DEF NumberAs
  <2>2. c \in Digit /\ t = "frac"
    BY <1>0, <1>4, ReadsNumber DEF AfterDot
  <2>3. k - 1 \in 1 .. k + 1 /\ (k - 1) + 1 = k /\ (k - 1) + 2 = k + 1
    BY <1>g, <2>1 DEF IntegerTo
  <2>4. FractionTo(r, k - 1, k + 1)
    BY <2>1, <2>2, <2>3 DEF FractionTo, DigitsIn
  <2> QED
    BY <2>1, <2>2, <2>3, <2>4 DEF NumberAs
<1>5. CASE s = "frac"
  <2>1. PICK i \in 1 .. k : IntegerTo(r, i) /\ FractionTo(r, i, k)
    BY <1>5 DEF NumberAs
  <2>2. InFrac(c, t)
    BY <1>0, <1>5, ReadsNumber
  <2>3. MantissaTo(r, k)
    BY <2>1, MantissaIs
  <2>4. c \in Digit => FractionTo(r, i, k + 1) /\ i \in 1 .. k + 1
    BY <2>1 DEF FractionTo, DigitsIn
  <2> QED
    BY <1>0, <2>1, <2>2, <2>3, <2>4 DEF NumberAs, InFrac
<1>6. CASE s = "exp"
  <2>1. MantissaTo(r, k - 1) /\ r[k] \in Exponent
    BY <1>6 DEF NumberAs
  <2>2. AfterExp(c, t)
    BY <1>0, <1>6, ReadsNumber
  <2>3. k - 1 \in 1 .. (k + 1) - 1 /\ (k - 1) + 1 = k /\ (k - 1) + 2 = k + 1
    BY <2>1 DEF MantissaTo
  <2>4. c \in Digit => ExponentTo(r, k - 1, k + 1)
    <3> SUFFICES ASSUME c \in Digit PROVE ExponentTo(r, k - 1, k + 1)
      OBVIOUS
    <3>1. Signed(r, k - 1) = k
      BY <2>3 DEF Signed, Digit
    <3> QED
      BY <2>1, <2>3, <3>1 DEF ExponentTo, DigitsIn
  <2> QED
    BY <1>0, <2>1, <2>2, <2>3, <2>4 DEF NumberAs, AfterExp
<1>7. CASE s = "sign"
  <2>1. MantissaTo(r, k - 2) /\ r[k - 1] \in Exponent /\ r[k] \in {43, 45}
    BY <1>7 DEF NumberAs
  <2>2. c \in Digit /\ t = "expint"
    BY <1>0, <1>7, ReadsNumber DEF InExp
  <2>3. k - 2 \in 1 .. (k + 1) - 1 /\ (k - 2) + 1 = k - 1 /\ (k - 2) + 2 = k
    BY <2>1 DEF MantissaTo
  <2>4. Signed(r, k - 2) = k
    BY <2>1, <2>3 DEF Signed
  <2>5. ExponentTo(r, k - 2, k + 1)
    BY <2>1, <2>2, <2>3, <2>4 DEF ExponentTo, DigitsIn
  <2> QED
    BY <2>1, <2>2, <2>3, <2>5 DEF NumberAs
<1>8. CASE s = "expint"
  <2>1. PICK j \in 1 .. k - 1 : MantissaTo(r, j) /\ ExponentTo(r, j, k)
    BY <1>8 DEF NumberAs
  <2>2. c \in Digit /\ t = "expint"
    BY <1>0, <1>8, ReadsNumber DEF InExp
  <2>3. Signed(r, j) \in Nat /\ j \in 1 .. (k + 1) - 1
    BY DEF Signed
  <2>4. ExponentTo(r, j, k + 1)
    BY <2>1, <2>2, <2>3 DEF ExponentTo, DigitsIn
  <2> QED
    BY <2>1, <2>2, <2>3, <2>4 DEF NumberAs
<1> QED
  BY <1>1, <1>2, <1>3, <1>4, <1>5, <1>6, <1>7, <1>8 DEF InNumber

\* in the states behind which a number ends, and at the marker of the others,
\* there is one, and none of those that are longer ends here
LEMMA NumberHere ==
  ASSUME NEW r, NEW k \in Nat \ {0}, NEW s \in InNumber, NumberAs(s, r, k)
  PROVE  /\ s \in Complete => NumberTo(r, k)
         /\ s \in {"dot", "exp"} => k - 1 \in Nat \ {0} /\ NumberTo(r, k - 1) /\ ~NumberTo(r, k)
         /\ s = "sign" => /\ k - 2 \in Nat \ {0} /\ NumberTo(r, k - 2)
                          /\ ~NumberTo(r, k - 1) /\ ~NumberTo(r, k)
         /\ s = "minus" => ~NumberTo(r, k) /\ k = 1
<1>g. SignOf(r) \in 0 .. 1
  BY SignType
<1>m. \A j \in Nat \ {0} : MantissaTo(r, j) => NumberTo(r, j)
  BY DEF NumberTo
<1>e. \A n \in Nat : NumberTo(r, n) => r[n] \in Digit
  BY NumberEnds
<1>d. \A c \in Digit : c \notin {43, 45, 46} /\ c \notin Exponent
  BY DEF Digit, Exponent
<1>1. CASE s = "minus"
  BY <1>1, <1>e, <1>d DEF NumberAs, Complete
<1>2. CASE s = "zero"
  <2>1. IntegerTo(r, k)
    BY <1>2, <1>g DEF NumberAs, IntegerTo, DigitsIn, Digit
  <2> QED
    BY <1>2, <1>m, <2>1, MantissaIs
<1>3. CASE s = "int"
  BY <1>3, <1>m, MantissaIs DEF NumberAs
<1>4. CASE s = "dot"
  <2>1. IntegerTo(r, k - 1) /\ r[k] = 46
    BY <1>4 DEF NumberAs
  <2>2. k - 1 \in Nat \ {0}
    BY <1>g, <2>1 DEF IntegerTo
  <2>3. NumberTo(r, k - 1) /\ ~NumberTo(r, k)
    BY <1>m, <1>e, <1>d, <2>1, <2>2, MantissaIs
  <2> QED
    BY <1>4, <2>2, <2>3 DEF Complete
<1>5. CASE s = "frac"
  <2>1. MantissaTo(r, k)
    BY <1>5, MantissaIs DEF NumberAs
  <2> QED
    BY <1>5, <1>m, <2>1
<1>6. CASE s = "exp"
  <2>1. MantissaTo(r, k - 1) /\ r[k] \in Exponent
    BY <1>6 DEF NumberAs
  <2>2. k - 1 \in Nat \ {0}
    BY <2>1 DEF MantissaTo
  <2>3. NumberTo(r, k - 1) /\ ~NumberTo(r, k)
    BY <1>m, <1>e, <1>d, <2>1, <2>2
  <2> QED
    BY <1>6, <2>2, <2>3 DEF Complete
<1>7. CASE s = "sign"
  <2>1. MantissaTo(r, k - 2) /\ r[k - 1] \in Exponent /\ r[k] \in {43, 45}
    BY <1>7 DEF NumberAs
  <2>2. k - 2 \in Nat \ {0} /\ k - 1 \in Nat
    BY <2>1 DEF MantissaTo
  <2>3. NumberTo(r, k - 2) /\ ~NumberTo(r, k) /\ ~NumberTo(r, k - 1)
    BY <1>m, <1>e, <1>d, <2>1, <2>2
  <2> QED
    BY <1>7, <2>2, <2>3 DEF Complete
<1>8. CASE s = "expint"
  <2>1. PICK j \in 1 .. k - 1 : MantissaTo(r, j) /\ ExponentTo(r, j, k)
    BY <1>8 DEF NumberAs
  <2>2. NumberTo(r, k)
    BY <2>1 DEF NumberTo
  <2> QED
    BY <1>8, <2>2
<1> QED
  BY <1>1, <1>2, <1>3, <1>4, <1>5, <1>6, <1>7, <1>8 DEF InNumber

\* the integer before a dot is the only one that has one
LEMMA OneInteger ==
  ASSUME NEW r, NEW i \in Nat, NEW j \in Nat, IntegerTo(r, i), IntegerTo(r, j),
         r[i + 1] \notin Digit, j < i => r[j + 1] \notin Digit
  PROVE  i <= j /\ j <= i
<1> SignOf(r) \in 0 .. 1
  BY SignType
<1> QED
  BY DEF IntegerTo, DigitsIn

\* a number that goes on behind these bytes goes on with one that is read
LEMMA NumberLive ==
  ASSUME NEW r \in Seq(Byte), NEW k \in Nat \ {0}, NEW s \in InNumber, NumberAs(s, r, k),
         NEW n \in k + 1 .. Len(r), NumberTo(r, n)
  PROVE  \E t \in InNumber : Reads(s, r[k + 1], t)
<1> DEFINE c == r[k + 1]
           g == SignOf(r)
<1>0. c \in Byte /\ (k - 1) + 1 = k /\ (k - 1) + 2 = k + 1 /\ (k - 2) + 1 = k - 1 /\ (k - 2) + 2 = k /\ n \in Nat
  OBVIOUS
<1>g. g \in 0 .. 1
  BY SignType
<1>d. \A x \in Digit : x \notin {43, 45, 46} /\ x \notin Exponent
  BY DEF Digit, Exponent
<1>a. PICK j \in 1 .. n : MantissaTo(r, j) /\ (j < n => ExponentTo(r, j, n))
  BY DEF NumberTo
<1>b. PICK i \in 1 .. j : IntegerTo(r, i) /\ (i < j => FractionTo(r, i, j))
  BY <1>a DEF MantissaTo
<1>c. /\ i < j => r[i + 1] = 46
      /\ i >= j /\ j < n => r[i + 1] \in Exponent
      /\ j < n => r[j + 1] \in Exponent
  BY <1>a, <1>b DEF FractionTo, ExponentTo
<1> HIDE DEF g
<1>1. CASE s = "minus"
  <2>1. k = 1 /\ g = 1
    BY <1>1 DEF NumberAs, SignOf, g
  <2>2. r[2] \in Digit
    BY <1>b, <2>1 DEF IntegerTo, DigitsIn, g
  <2>3. \E t \in InNumber : AfterMinus(r[2], t)
    BY <2>2 DEF AfterMinus, Digit, InNumber
  <2> QED
    BY <1>0, <1>1, <2>1, <2>3, ReadsNumber
<1>2. CASE s = "zero"
  <2>1. k = g + 1 /\ r[k] = 48
    BY <1>2 DEF NumberAs, g
  <2>2. i = k
    BY <1>b, <2>1 DEF IntegerTo, g
  <2>3. c = 46 \/ c \in Exponent
    BY <1>c, <2>2
  <2>4. \E t \in InNumber : AfterZero(c, t)
    BY <2>3 DEF AfterZero, InNumber
  <2> QED
    BY <1>0, <1>2, <2>4, ReadsNumber
<1>3. CASE s = "int"
  <2>1. IntegerTo(r, k)
    BY <1>3 DEF NumberAs
  <2>2. c \in Digit \/ c = 46 \/ c \in Exponent
    <3> SUFFICES ASSUME c \notin Digit PROVE c = 46 \/ c \in Exponent
      OBVIOUS
    <3>1. i < k => r[i + 1] \notin Digit
      BY <1>c, <1>d
    <3>2. k <= i /\ i <= k
      BY <1>b, <2>1, <3>1, OneInteger
    <3>3. i = k
      BY <3>2
    <3> QED
      BY <1>c, <3>3
  <2>3. \E t \in InNumber : InInt(c, t)
    BY <2>2 DEF InInt, AfterZero, InNumber
  <2> QED
    BY <1>0, <1>3, <2>3, ReadsNumber
<1>4. CASE s = "dot"
  <2>1. IntegerTo(r, k - 1) /\ r[k] = 46 /\ k - 1 \in Nat
    BY <1>4 DEF NumberAs
  <2>2. i < k - 1 => r[i + 1] \notin Digit
    BY <1>c, <1>d
  <2>3. k - 1 <= i /\ i <= k - 1
    BY <1>0, <1>b, <1>d, <2>1, <2>2, OneInteger
  <2>4. i + 1 = k /\ i + 2 = k + 1
    BY <2>3
  <2>5. i < j
    BY <1>c, <1>d, <2>1, <2>4 DEF Exponent
  <2>6. FractionTo(r, i, j)
    BY <1>b, <2>5
  <2>7. c \in Digit
    BY <2>4, <2>6 DEF FractionTo, DigitsIn
  <2>8. \E t \in InNumber : AfterDot(c, t)
    BY <2>7 DEF AfterDot, InNumber
  <2> QED
    BY <1>0, <1>4, <2>8, ReadsNumber
<1>5. CASE s = "frac"
  <2>1. PICK m \in 1 .. k : IntegerTo(r, m) /\ FractionTo(r, m, k)
    BY <1>5 DEF NumberAs
  <2>2. r[m + 1] = 46 /\ k >= m + 2 /\ DigitsIn(r, m + 2, k)
    BY <2>1 DEF FractionTo
  <2>3. i < m => r[i + 1] \notin Digit
    BY <1>c, <1>d
  <2>4. m <= i /\ i <= m
    BY <1>b, <1>d, <2>1, <2>2, <2>3, OneInteger
  <2>5. i = m
    BY <2>4
  <2>6. i < j
    BY <1>c, <2>2, <2>5 DEF Exponent
  <2>7. FractionTo(r, i, j)
    BY <1>b, <2>6
  <2>8. c \in Digit \/ c \in Exponent
    <3>1. CASE j > k
      BY <2>2, <2>5, <2>7, <3>1 DEF FractionTo, DigitsIn
    <3>2. CASE j = k
      BY <1>c, <3>2
    <3>3. CASE j < k
      <4>1. j + 1 \in m + 2 .. k
        BY <2>5, <2>7, <3>3 DEF FractionTo
      <4> QED
        BY <1>c, <1>d, <2>2, <3>3, <4>1 DEF DigitsIn
    <3> QED
      BY <3>1, <3>2, <3>3
  <2>9. \E t \in InNumber : InFrac(c, t)
    BY <2>8 DEF InFrac, InNumber
  <2> QED
    BY <1>0, <1>5, <2>9, ReadsNumber
<1>6. CASE s = "exp"
  <2>1. MantissaTo(r, k - 1) /\ r[k] \in Exponent /\ k - 1 \in Nat
    BY <1>6 DEF NumberAs
  <2>2. k - 1 >= j /\ k - 1 <= j
    BY <1>0, <1>a, <1>c, <2>1, OneMantissa
  <2>3. j = k - 1
    BY <2>2
  <2>4. ExponentTo(r, j, n) /\ j + 1 = k /\ j + 2 = k + 1
    BY <1>a, <2>3
  <2>5. c \in {43, 45} \/ c \in Digit
    BY <2>4 DEF ExponentTo, Signed, DigitsIn
  <2>6. \E t \in InNumber : AfterExp(c, t)
    BY <2>5 DEF AfterExp, InNumber
  <2> QED
    BY <1>0, <1>6, <2>6, ReadsNumber
<1>7. CASE s = "sign"
  <2>1. MantissaTo(r, k - 2) /\ r[k - 1] \in Exponent /\ r[k] \in {43, 45}
    BY <1>7 DEF NumberAs
  <2>2. k - 2 \in Nat
    BY <2>1 DEF MantissaTo
  <2>3. k - 2 >= j /\ k - 2 <= j
    BY <1>0, <1>a, <1>c, <2>1, <2>2, OneMantissa
  <2>4. j + 2 = k /\ j < n
    BY <2>3
  <2>5. ExponentTo(r, j, n) /\ Signed(r, j) = k
    BY <1>a, <2>1, <2>4 DEF Signed
  <2>6. c \in Digit
    BY <2>5 DEF ExponentTo, DigitsIn
  <2>7. \E t \in InNumber : InExp(c, t)
    BY <2>6 DEF InExp, InNumber
  <2> QED
    BY <1>0, <1>7, <2>7, ReadsNumber
<1>8. CASE s = "expint"
  <2>1. PICK m \in 1 .. k - 1 : MantissaTo(r, m) /\ ExponentTo(r, m, k)
    BY <1>8 DEF NumberAs
  <2>2. m >= j /\ m <= j
    BY <1>a, <1>c, <2>1, OneMantissa DEF ExponentTo
  <2>3. j = m /\ j < n
    BY <2>2
  <2>4. ExponentTo(r, j, n) /\ Signed(r, j) < k /\ Signed(r, j) \in Nat
    BY <1>a, <2>1, <2>3 DEF ExponentTo, Signed
  <2>5. c \in Digit
    BY <2>4 DEF ExponentTo, DigitsIn
  <2>6. \E t \in InNumber : InExp(c, t)
    BY <2>5 DEF InExp, InNumber
  <2> QED
    BY <1>0, <1>8, <2>6, ReadsNumber
<1> QED
  BY <1>1, <1>2, <1>3, <1>4, <1>5, <1>6, <1>7, <1>8 DEF InNumber

-----------------------------------------------------------------------------
(* Strings: where the characters of a text end.                             *)

\* a character that ends at i begins behind one of the places in cuts
EndsAt(r, cuts, i) == \E d \in 1 .. 6 : i - d \in cuts /\ IsUnit(SubSeq(r, i - d + 1, i))

\* the places of r up to n where characters end are those in cuts
CutsOf(cuts, r, n) ==
    /\ 1 \in cuts /\ cuts \subseteq Nat \ {0}
    /\ \A i \in 1 .. n : i \in cuts <=> i = 1 \/ EndsAt(r, cuts, i)

Places(n) == [i \in 1 .. n |-> i]

IsCutting(h, s, q) ==
    h = [T \in SUBSET DOMAIN q |-> IF T = {} THEN {1} ELSE Extended(s, h[T \ {Max(T)}], q[Max(T)])]

Cutting(s, q) == CHOOSE h : IsCutting(h, s, q)

\* Cuts is the loop that FoldLeft runs, and the loop has the places of CutsOf
LEMMA CutsIsLoop ==
  ASSUME NEW s, NEW q, q = Places(Len(s))
  PROVE  Cuts(s) = Cutting(s, q)[DOMAIN q]
  BY Zenon DEF Cuts, Places, FoldLeft, MapThenFoldSet, Cutting, IsCutting

Extending(s) == [cuts \in SUBSET (Nat \ {0}) |-> [i \in Nat \ {0} |-> Extended(s, cuts, i)]]

LEMMA ExtendingType ==
  ASSUME NEW s
  PROVE  /\ Extending(s) \in [SUBSET (Nat \ {0}) -> [Nat \ {0} -> SUBSET (Nat \ {0})]]
         /\ \A cuts \in SUBSET (Nat \ {0}), i \in Nat \ {0} : Extending(s)[cuts][i] = Extended(s, cuts, i)
<1>1. \A cuts \in SUBSET (Nat \ {0}), i \in Nat \ {0} : Extended(s, cuts, i) \in SUBSET (Nat \ {0})
  BY DEF Extended
<1> QED
  BY <1>1 DEF Extending

LEMMA CuttingFolds ==
  ASSUME NEW s, NEW n \in Nat
  PROVE  FoldsLeft(Cutting(s, Places(n)), {1}, Extending(s), Places(n), SUBSET (Nat \ {0}))
<1> DEFINE q == Places(n)
           A == SUBSET (Nat \ {0})
           h == Cutting(s, q)
<1>0. /\ q \in Seq(Nat \ {0}) /\ Len(q) = n /\ DOMAIN q = 1 .. n /\ {1} \in A
      /\ \A i \in 1 .. n : q[i] \in Nat \ {0}
  <2>1. q \in [1 .. n -> Nat \ {0}]
    BY DEF Places
  <2>2. q \in Seq(Nat \ {0}) /\ Len(q) = n
    BY <2>1
  <2> QED
    BY <2>1, <2>2
<1> HIDE DEF q
<1>1. \A T \in SUBSET DOMAIN q : T # {} => Max(T) \in DOMAIN q
  BY <1>0, MaxPicks
<1>2. PICK f \in [SUBSET DOMAIN q -> A] : IsLeftFold(f, {1}, Extending(s), q)
  BY <1>0, ExtendingType, LeftExists, Zenon
<1>3. \A T \in SUBSET DOMAIN q : T # {} =>
         Extending(s)[f[T \ {Max(T)}]][q[Max(T)]] = Extended(s, f[T \ {Max(T)}], q[Max(T)])
  <2> SUFFICES ASSUME NEW T \in SUBSET DOMAIN q, T # {}
               PROVE  Extending(s)[f[T \ {Max(T)}]][q[Max(T)]] = Extended(s, f[T \ {Max(T)}], q[Max(T)])
    OBVIOUS
  <2>1. f[T \ {Max(T)}] \in A /\ q[Max(T)] \in Nat \ {0}
    BY <1>0, <1>1
  <2> QED
    BY <2>1, ExtendingType
<1>4. IsCutting(f, s, q)
  BY <1>2, <1>3 DEF IsLeftFold, IsCutting
<1>5. IsCutting(h, s, q)
  BY <1>4, Zenon DEF Cutting
<1> HIDE DEF h
<1>6. \A T \in SUBSET DOMAIN q :
         h[T] = IF T = {} THEN {1} ELSE Extended(s, h[T \ {Max(T)}], q[Max(T)])
  BY <1>5 DEF IsCutting
<1>7. StepsLeft(h, {1}, Extending(s), q, A)
  <2>1. h[{}] = {1}
    BY <1>6
  <2>2. ASSUME NEW T \in SUBSET DOMAIN q, T # {}, h[T \ {Max(T)}] \in A
        PROVE  h[T] = Extending(s)[h[T \ {Max(T)}]][q[Max(T)]]
    <3>1. q[Max(T)] \in Nat \ {0}
      BY <1>0, <1>1, <2>2
    <3>2. Extending(s)[h[T \ {Max(T)}]][q[Max(T)]] = Extended(s, h[T \ {Max(T)}], q[Max(T)])
      BY <2>2, <3>1, ExtendingType
    <3> QED
      BY <1>6, <2>2, <3>2
  <2> QED
    BY <2>1, <2>2 DEF StepsLeft
<1> QED
  BY <1>0, <1>7, ExtendingType, LeftStep, Zenon DEF h, q

LEMMA CutsAre ==
  ASSUME NEW s \in Seq(Byte)
  PROVE  CutsOf(Cuts(s), s, Len(s))
<1> DEFINE n == Len(s)
           q == Places(n)
           A == SUBSET (Nat \ {0})
           h == Cutting(s, q)
           C(k) == h[1 .. k]
           Good(k) == /\ 1 \in C(k) /\ C(k) \subseteq {1} \cup 1 .. k
                      /\ \A i \in 1 .. k : i \in C(k) <=> i = 1 \/ EndsAt(s, C(k), i)
           K == {k \in Nat : k <= n => Good(k)}
<1>0. n \in Nat /\ DOMAIN q = 1 .. n /\ Len(q) = n /\ \A i \in 1 .. n : q[i] = i
  BY DEF Places
<1>1. FoldsLeft(h, {1}, Extending(s), q, A)
  BY <1>0, CuttingFolds
<1>2. Cuts(s) = C(n)
  BY <1>0, CutsIsLoop
<1> HIDE DEF n, q, h
<1>3. 0 \in K
  <2>1. C(0) = {1}
    BY <1>1 DEF FoldsLeft
  <2> QED
    BY <2>1
<1>4. \A k \in Nat : k \in K => k + 1 \in K
  <2> HIDE DEF Good
  <2> SUFFICES ASSUME NEW k \in Nat, k \in K, k + 1 <= n PROVE Good(k + 1)
    OBVIOUS
  <2>1. Good(k)
    BY <1>0
  <2> USE DEF Good
  <2>2. C(k) \in A /\ k + 1 \in Nat \ {0}
    BY <2>1
  <2>3. C(k + 1) = Extended(s, C(k), k + 1)
    <3>1. k \in 0 .. Len(q) - 1 /\ k + 1 \in 1 .. n
      BY <1>0
    <3>2. C(k + 1) = Extending(s)[C(k)][q[k + 1]]
      BY <1>1, <3>1 DEF FoldsLeft
    <3>3. q[k + 1] = k + 1
      BY <1>0, <3>1
    <3> QED
      BY <2>2, <3>2, <3>3, ExtendingType
  <2> DEFINE D == C(k + 1)
             B == C(k)
  <2>4. D = IF EndsAt(s, B, k + 1) THEN B \cup {k + 1} ELSE B
    BY <2>3 DEF Extended, EndsAt
  <2>5. 1 \in B /\ B \subseteq {1} \cup 1 .. k /\ \A i \in 1 .. k : i \in B <=> i = 1 \/ EndsAt(s, B, i)
    BY <2>1
  <2> HIDE DEF B, D, C
  <2>6. 1 \in D /\ D \subseteq {1} \cup 1 .. k + 1
    BY <2>4, <2>5
  <2>7. \A i \in 1 .. k + 1 : EndsAt(s, D, i) <=> EndsAt(s, B, i)
    <3> SUFFICES ASSUME NEW i \in 1 .. k + 1 PROVE EndsAt(s, D, i) <=> EndsAt(s, B, i)
      OBVIOUS
    <3>1. \A d \in 1 .. 6 : i - d \in D <=> i - d \in B
      BY <2>4
    <3> QED
      BY <3>1, Zenon DEF EndsAt
  <2>8. \A i \in 1 .. k + 1 : i \in D <=> i = 1 \/ EndsAt(s, D, i)
    <3> SUFFICES ASSUME NEW i \in 1 .. k + 1 PROVE i \in D <=> i = 1 \/ EndsAt(s, B, i)
      BY <2>7
    <3>1. CASE i \in 1 .. k
      <4>1. i \in D <=> i \in B
        BY <2>4, <3>1
      <4> QED
        BY <2>5, <3>1, <4>1
    <3>2. CASE i = k + 1
      <4>1. k + 1 \in B <=> k + 1 = 1
        BY <2>5
      <4> QED
        BY <2>4, <3>2, <4>1
    <3> QED
      BY <3>1, <3>2
  <2> QED
    BY <2>6, <2>8 DEF D
<1> HIDE DEF C
<1>5. n \in K
  <2> HIDE DEF K
  <2>1. Nat \subseteq K
    BY <1>3, <1>4, Induction
  <2> QED
    BY <1>0, <2>1
<1>6. Good(n)
  BY <1>0, <1>5
<1> QED
  BY <1>0, <1>2, <1>6 DEF CutsOf, n

\* CutsOf has one solution
LEMMA SameCuts ==
  ASSUME NEW r, NEW n \in Nat, NEW C, NEW D, CutsOf(C, r, n), CutsOf(D, r, n)
  PROVE  \A i \in 1 .. n : i \in C <=> i \in D
<1> DEFINE Bad == {i \in 1 .. n : ~(i \in C <=> i \in D)}
<1>1. SUFFICES ASSUME Bad # {} PROVE FALSE
  OBVIOUS
<1>2. Bad \subseteq Nat
  OBVIOUS
<1>3. PICK i \in Bad : \A k \in Bad : i <= k
  BY <1>1, <1>2, Least
<1>4. i \in 1 .. n /\ \A k \in 1 .. n : k < i => (k \in C <=> k \in D)
  BY <1>3
<1>5. C \subseteq Nat \ {0} /\ D \subseteq Nat \ {0}
  BY DEF CutsOf
<1>6. \A d \in 1 .. 6 : i - d \in C <=> i - d \in D
  <2> SUFFICES ASSUME NEW d \in 1 .. 6 PROVE i - d \in C <=> i - d \in D
    OBVIOUS
  <2>1. CASE i - d \in 1 .. n
    BY <1>4, <2>1
  <2>2. CASE ~(i - d \in 1 .. n)
    <3>1. i - d \notin Nat \ {0}
      BY <1>4, <2>2
    <3> QED
      BY <1>5, <3>1
  <2> QED
    BY <2>1, <2>2
<1>7. EndsAt(r, C, i) <=> EndsAt(r, D, i)
  BY <1>6, Zenon DEF EndsAt
<1>8. (i \in C <=> i = 1 \/ EndsAt(r, C, i)) /\ (i \in D <=> i = 1 \/ EndsAt(r, D, i))
  BY <1>4 DEF CutsOf
<1> QED
  BY <1>3, <1>7, <1>8

\* the places in a part of a text are those of the text
LEMMA CutsOfPiece ==
  ASSUME NEW r \in Seq(Byte), NEW n \in 0 .. Len(r)
  PROVE  \A i \in 1 .. n : i \in Cuts(SubSeq(r, 1, n)) <=> i \in Cuts(r)
<1> DEFINE s == SubSeq(r, 1, n)
           C == Cuts(s)
           D == Cuts(r)
<1>1. s \in Seq(Byte) /\ Len(s) = n /\ n \in Nat
  OBVIOUS
<1>2. CutsOf(C, s, n)
  BY <1>1, CutsAre
<1>3. CutsOf(D, r, Len(r))
  BY CutsAre
<1>4. C \subseteq Nat \ {0}
  BY <1>2 DEF CutsOf
<1>5. \A i \in 1 .. n : EndsAt(s, C, i) <=> EndsAt(r, C, i)
  <2> SUFFICES ASSUME NEW i \in 1 .. n PROVE EndsAt(s, C, i) <=> EndsAt(r, C, i)
    OBVIOUS
  <2>1. ASSUME NEW d \in 1 .. 6, i - d \in C
        PROVE  SubSeq(s, i - d + 1, i) = SubSeq(r, i - d + 1, i)
    <3>1. i - d \in Nat \ {0}
      BY <1>4, <2>1
    <3>2. i - d + 1 \in Nat \ {0} /\ i \in 0 .. n /\ i - d + 1 <= i + 1
      BY <3>1
    <3> QED
      BY <3>2, PieceOfPiece
  <2> QED
    BY <2>1, Zenon DEF EndsAt
<1>6. CutsOf(C, r, n)
  BY <1>2, <1>5 DEF CutsOf
<1>7. CutsOf(D, r, n)
  <2>1. \A i \in 1 .. n : i \in 1 .. Len(r)
    OBVIOUS
  <2> QED
    BY <1>3, <2>1 DEF CutsOf
<1> QED
  BY <1>1, <1>6, <1>7, SameCuts

-----------------------------------------------------------------------------
(* The bytes of one character.                                              *)

Plain == (32 .. 127) \ {34, 92}
Lead2 == 194 .. 223
Three(b, c) ==
    \/ b = 224 /\ c \in 160 .. 191
    \/ b = 237 /\ c \in 128 .. 159
    \/ b \in (225 .. 239) \ {237} /\ c \in Continuation

Four(b, c) ==
    \/ b = 240 /\ c \in 144 .. 191
    \/ b = 244 /\ c \in 128 .. 143
    \/ b \in 241 .. 243 /\ c \in Continuation

LEMMA BytesOf == ASSUME NEW s \in Seq(Byte) PROVE s \in [1 .. Len(s) -> Byte]
  OBVIOUS

\* characters of one to four bytes, by their bytes
LEMMA Character1 ==
  ASSUME NEW s \in Seq(Byte), Len(s) = 1
  PROVE  IsCharacter(s) <=> s[1] \in Plain
<1> DEFINE b == s[1]
<1>1. b \in Byte
  OBVIOUS
<1>2. Decoded(s) = IF b < 128 THEN b ELSE -1
  BY SMT DEF Decoded
<1>3. Shortest[Len(s)] = 0
  BY DEF Shortest
<1> HIDE DEF b
<1>4. IsCharacter(s) <=> /\ 0 <= Decoded(s) /\ Decoded(s) <= 1114111
                         /\ Decoded(s) < 55296 \/ Decoded(s) > 57343
                         /\ b >= 32 /\ b \notin {34, 92}
  BY <1>3, SMT DEF IsCharacter, b
<1>5. IsCharacter(s) <=> b \in Plain
  BY <1>1, <1>2, <1>4, SMT DEF Plain, Byte
<1> QED
  BY <1>5 DEF b

LEMMA Character2 ==
  ASSUME NEW s \in Seq(Byte), Len(s) = 2
  PROVE  IsCharacter(s) <=> s[1] \in Lead2 /\ s[2] \in Continuation
<1> DEFINE b == s[1]
           c == s[2]
<1>1. b \in Byte /\ c \in Byte
  <2>1. s \in [1 .. Len(s) -> Byte]
    BY Zenon, BytesOf
  <2>2. s \in [1 .. 2 -> Byte]
    BY <2>1
  <2> QED
    BY <2>2
<1>2. (\A i \in 2 .. Len(s) : s[i] \in Continuation) <=> c \in Continuation
  OBVIOUS
<1>3. Decoded(s) = IF b \in 192 .. 223 /\ c \in Continuation THEN 64 * (b - 192) + (c - 128) ELSE -1
  BY <1>2, SMT DEF Decoded
<1>4. Shortest[Len(s)] = 128
  BY DEF Shortest
<1> HIDE DEF b, c
<1>5. IsCharacter(s) <=> /\ 128 <= Decoded(s) /\ Decoded(s) <= 1114111
                         /\ Decoded(s) < 55296 \/ Decoded(s) > 57343
  BY <1>4, SMT DEF IsCharacter
<1>6. IsCharacter(s) <=> b \in Lead2 /\ c \in Continuation
  BY <1>1, <1>3, <1>5, SMT DEF Lead2, Continuation, Byte
<1> QED
  BY <1>6 DEF b, c

LEMMA Character3 ==
  ASSUME NEW s \in Seq(Byte), Len(s) = 3
  PROVE  IsCharacter(s) <=> Three(s[1], s[2]) /\ s[3] \in Continuation
<1> DEFINE b == s[1]
           c == s[2]
           d == s[3]
<1>1. b \in Byte /\ c \in Byte /\ d \in Byte
  <2>1. s \in [1 .. Len(s) -> Byte]
    BY Zenon, BytesOf
  <2>2. s \in [1 .. 3 -> Byte]
    BY <2>1
  <2> QED
    BY <2>2
<1>2. (\A i \in 2 .. Len(s) : s[i] \in Continuation) <=> c \in Continuation /\ d \in Continuation
  OBVIOUS
<1>3. Decoded(s) = IF b \in 224 .. 239 /\ c \in Continuation /\ d \in Continuation
                   THEN 4096 * (b - 224) + 64 * (c - 128) + (d - 128) ELSE -1
  BY <1>2, SMT DEF Decoded
<1>4. Shortest[Len(s)] = 2048
  BY DEF Shortest
<1> HIDE DEF b, c, d
<1>5. IsCharacter(s) <=> /\ 2048 <= Decoded(s) /\ Decoded(s) <= 1114111
                         /\ Decoded(s) < 55296 \/ Decoded(s) > 57343
  BY <1>4, SMT DEF IsCharacter
<1>6. IsCharacter(s) <=> Three(b, c) /\ d \in Continuation
  BY <1>1, <1>3, <1>5, SMT DEF Three, Continuation, Byte
<1> QED
  BY <1>6 DEF b, c, d

LEMMA Character4 ==
  ASSUME NEW s \in Seq(Byte), Len(s) = 4
  PROVE  IsCharacter(s) <=> Four(s[1], s[2]) /\ s[3] \in Continuation /\ s[4] \in Continuation
<1> DEFINE b == s[1]
           c == s[2]
           d == s[3]
           e == s[4]
<1>1. b \in Byte /\ c \in Byte /\ d \in Byte /\ e \in Byte
  <2>1. s \in [1 .. Len(s) -> Byte]
    BY Zenon, BytesOf
  <2>2. s \in [1 .. 4 -> Byte]
    BY <2>1
  <2> QED
    BY <2>2
<1>2. (\A i \in 2 .. Len(s) : s[i] \in Continuation) <=> c \in Continuation /\ d \in Continuation /\ e \in Continuation
  OBVIOUS
<1>3. Decoded(s) = IF b \in 240 .. 247 /\ c \in Continuation /\ d \in Continuation /\ e \in Continuation
                   THEN 262144 * (b - 240) + 4096 * (c - 128) + 64 * (d - 128) + (e - 128) ELSE -1
  BY <1>2, SMT DEF Decoded
<1>4. Shortest[Len(s)] = 65536
  BY DEF Shortest
<1> HIDE DEF b, c, d, e
<1>5. IsCharacter(s) <=> /\ 65536 <= Decoded(s) /\ Decoded(s) <= 1114111
                         /\ Decoded(s) < 55296 \/ Decoded(s) > 57343
  BY <1>4, SMT DEF IsCharacter
<1>6. IsCharacter(s) <=> Four(b, c) /\ d \in Continuation /\ e \in Continuation
  BY <1>1, <1>3, <1>5, SMT DEF Four, Continuation, Byte
<1> QED
  BY <1>6 DEF b, c, d, e

\* r[p + 1], ..., r[q] are one character or one escape
UnitTo(r, p, q) ==
    \/ q = p + 1 /\ r[p + 1] \in Plain
    \/ q = p + 2 /\ r[p + 1] \in Lead2 /\ r[p + 2] \in Continuation
    \/ q = p + 3 /\ Three(r[p + 1], r[p + 2]) /\ r[p + 3] \in Continuation
    \/ q = p + 4 /\ Four(r[p + 1], r[p + 2]) /\ r[p + 3] \in Continuation /\ r[p + 4] \in Continuation
    \/ q = p + 2 /\ r[p + 1] = 92 /\ r[p + 2] \in Escapes
    \/ q = p + 6 /\ r[p + 1] = 92 /\ r[p + 2] = 117
                 /\ r[p + 3] \in Hex /\ r[p + 4] \in Hex /\ r[p + 5] \in Hex /\ r[p + 6] \in Hex

\* a character or an escape by its places
LEMMA UnitIs ==
  ASSUME NEW r \in Seq(Byte), NEW p \in Nat, NEW q \in p + 1 .. Len(r)
  PROVE  IsUnit(SubSeq(r, p + 1, q)) <=> UnitTo(r, p, q)
<1> DEFINE s == SubSeq(r, p + 1, q)
           k == q - p
<1>1. s \in Seq(Byte) /\ Len(s) = k /\ k \in Nat \ {0} /\ \A i \in 1 .. k : s[i] = r[p + i]
  <2>1. p + 1 \in Nat \ {0} /\ q \in 0 .. Len(r) /\ p + 1 <= q + 1
    OBVIOUS
  <2>2. s \in Seq(Byte) /\ Len(s) = q - (p + 1) + 1 /\ \A i \in 1 .. q - (p + 1) + 1 : s[i] = r[(p + 1) + i - 1]
    BY <2>1, PieceIs
  <2>3. q - (p + 1) + 1 = k /\ \A i \in 1 .. k : (p + 1) + i - 1 = p + i
    OBVIOUS
  <2> QED
    BY <2>2, <2>3
<1>2. k = 6 => SubSeq(s, 3, 6) = SubSeq(r, p + 3, p + 6)
  OBVIOUS
<1>3. q = p + k /\ q \in Nat
  OBVIOUS
<1> HIDE DEF s, k
<1>4. IsCharacter(s) => k \in 1 .. 4
  BY <1>1, SMT DEF IsCharacter
<1>5. IsEscape(s) => k \in {2, 6}
  BY <1>1 DEF IsEscape
<1>6. CASE k = 1
  <2>1. IsCharacter(s) <=> s[1] \in Plain
    BY <1>1, <1>6, Character1
  <2>2. s[1] = r[p + 1]
    BY <1>1, <1>6
  <2> QED
    BY <1>3, <1>5, <1>6, <2>1, <2>2 DEF IsUnit, UnitTo, s
<1>7. CASE k = 2
  <2>1. IsCharacter(s) <=> s[1] \in Lead2 /\ s[2] \in Continuation
    BY <1>1, <1>7, Character2
  <2>2. s[1] = r[p + 1] /\ s[2] = r[p + 2]
    BY <1>1, <1>7
  <2>3. IsEscape(s) <=> s[1] = 92 /\ s[2] \in Escapes
    BY <1>1, <1>7 DEF IsEscape
  <2>4. UnitTo(r, p, q) <=> \/ r[p + 1] \in Lead2 /\ r[p + 2] \in Continuation
                            \/ r[p + 1] = 92 /\ r[p + 2] \in Escapes
    BY <1>3, <1>7 DEF UnitTo
  <2> QED
    BY <2>1, <2>2, <2>3, <2>4, Zenon DEF IsUnit, s
<1>8. CASE k = 3
  <2>1. IsCharacter(s) <=> Three(s[1], s[2]) /\ s[3] \in Continuation
    BY <1>1, <1>8, Character3
  <2>2. s[1] = r[p + 1] /\ s[2] = r[p + 2] /\ s[3] = r[p + 3]
    BY <1>1, <1>8
  <2>3. UnitTo(r, p, q) <=> Three(r[p + 1], r[p + 2]) /\ r[p + 3] \in Continuation
    BY <1>3, <1>8 DEF UnitTo
  <2>4. ~IsEscape(s)
    BY <1>5, <1>8
  <2> QED
    BY <2>1, <2>2, <2>3, <2>4, Zenon DEF IsUnit, s
<1>9. CASE k = 4
  <2>1. IsCharacter(s) <=> Four(s[1], s[2]) /\ s[3] \in Continuation /\ s[4] \in Continuation
    BY <1>1, <1>9, Character4
  <2>2. s[1] = r[p + 1] /\ s[2] = r[p + 2] /\ s[3] = r[p + 3] /\ s[4] = r[p + 4]
    BY <1>1, <1>9
  <2>3. UnitTo(r, p, q) <=> Four(r[p + 1], r[p + 2]) /\ r[p + 3] \in Continuation /\ r[p + 4] \in Continuation
    BY <1>3, <1>9 DEF UnitTo
  <2>4. ~IsEscape(s)
    BY <1>5, <1>9
  <2> QED
    BY <2>1, <2>2, <2>3, <2>4, Zenon DEF IsUnit, s
<1>10. CASE k = 6
  <2>1. s[1] = r[p + 1] /\ s[2] = r[p + 2]
    BY <1>1, <1>10
  <2>2. AllIn(SubSeq(s, 3, 6), Hex) <=> \A x \in p + 3 .. p + 6 : r[x] \in Hex
    <3>1. p + 3 \in Nat \ {0} /\ p + 6 \in 0 .. Len(r) /\ p + 3 <= p + 6 + 1
      BY <1>3, <1>10
    <3>2. AllIn(SubSeq(r, p + 3, p + 6), Hex) <=> \A x \in p + 3 .. p + 6 : r[x] \in Hex
      BY <3>1, PieceIn, SMTT(30)
    <3> QED
      BY <1>2, <1>10, <3>2
  <2>3. (\A x \in p + 3 .. p + 6 : r[x] \in Hex) <=>
           r[p + 3] \in Hex /\ r[p + 4] \in Hex /\ r[p + 5] \in Hex /\ r[p + 6] \in Hex
    <3>1. \A x \in p + 3 .. p + 6 : x \in {p + 3, p + 4, p + 5, p + 6}
      OBVIOUS
    <3>2. p + 3 \in p + 3 .. p + 6 /\ p + 4 \in p + 3 .. p + 6 /\ p + 5 \in p + 3 .. p + 6 /\ p + 6 \in p + 3 .. p + 6
      OBVIOUS
    <3> QED
      BY <3>1, <3>2, Zenon
  <2>4. IsEscape(s) <=> s[1] = 92 /\ s[2] = 117 /\ AllIn(SubSeq(s, 3, 6), Hex)
    BY <1>1, <1>10 DEF IsEscape
  <2>5. UnitTo(r, p, q) <=> r[p + 1] = 92 /\ r[p + 2] = 117
           /\ r[p + 3] \in Hex /\ r[p + 4] \in Hex /\ r[p + 5] \in Hex /\ r[p + 6] \in Hex
    BY <1>3, <1>10 DEF UnitTo
  <2>6. ~IsCharacter(s)
    BY <1>4, <1>10
  <2> QED
    BY <2>1, <2>2, <2>3, <2>4, <2>5, <2>6, ZenonT(30) DEF IsUnit, s
<1>11. CASE k \notin {1, 2, 3, 4, 6}
  <2>1. ~IsCharacter(s) /\ ~IsEscape(s)
    BY <1>4, <1>5, <1>11
  <2>2. ~UnitTo(r, p, q)
    BY <1>3, <1>11 DEF UnitTo, k
  <2> QED
    BY <2>1, <2>2 DEF IsUnit, s
<1> QED
  BY <1>6, <1>7, <1>8, <1>9, <1>10, <1>11

\* no character is the beginning of another
LEMMA OneUnit ==
  ASSUME NEW r, NEW p \in Nat, NEW q \in Nat, NEW t \in Nat, UnitTo(r, p, q), UnitTo(r, p, t)
  PROVE  q <= t
  BY DEF UnitTo, Plain, Lead2, Three, Four, Escapes, Continuation

\* no character begins with a quote
LEMMA UnitNoQuote ==
  ASSUME NEW r, NEW p \in Nat, NEW q \in Nat, UnitTo(r, p, q)
  PROVE  r[p + 1] # 34 /\ p < q
  BY DEF UnitTo, Plain, Lead2, Three, Four

\* characters follow each other: behind the end of one, the next begins
LEMMA NextCut ==
  ASSUME NEW r \in Seq(Byte), NEW p \in Cuts(r), NEW t \in Cuts(r), p < t, t <= Len(r)
  PROVE  \E q \in Cuts(r) : p < q /\ q <= t /\ UnitTo(r, p, q)
<1> DEFINE C == Cuts(r)
           Next1(a, b) == \E q \in C : a < q /\ q <= b /\ UnitTo(r, a, q)
           Bad == {b \in C : b <= Len(r) /\ \E a \in C : a < b /\ ~Next1(a, b)}
<1>1. CutsOf(C, r, Len(r)) /\ Len(r) \in Nat
  BY CutsAre
<1>2. C \subseteq Nat \ {0}
  BY <1>1 DEF CutsOf
<1> HIDE DEF C, Next1
<1>3. SUFFICES ASSUME Bad # {} PROVE FALSE
  <2>1. \A a, b \in C : b <= Len(r) /\ a < b => Next1(a, b)
    BY <1>3
  <2> QED
    BY <2>1 DEF C, Next1
<1>4. Bad \subseteq Nat
  BY <1>2
<1>5. PICK b \in Bad : \A x \in Bad : b <= x
  BY <1>3, <1>4, Least
<1>6. PICK a \in C : a < b /\ ~Next1(a, b)
  BY <1>5
<1>7. b \in C /\ b \in 1 .. Len(r) /\ b # 1 /\ a \in Nat \ {0} /\ b \in Nat
  BY <1>1, <1>2, <1>5, <1>6
<1>8. \A x, y \in C : x < y /\ y < b => Next1(x, y)
  <2> SUFFICES ASSUME NEW x \in C, NEW y \in C, x < y, y < b, ~Next1(x, y) PROVE FALSE
    OBVIOUS
  <2>1. y \in Nat /\ y <= Len(r)
    BY <1>1, <1>2, <1>7
  <2>2. y \in Bad
    BY <2>1
  <2> QED
    BY <1>5, <1>7, <2>1, <2>2
<1>9. EndsAt(r, C, b)
  BY <1>1, <1>7 DEF CutsOf
<1>10. PICK d \in 1 .. 6 : b - d \in C /\ IsUnit(SubSeq(r, b - d + 1, b))
  BY <1>9, Zenon DEF EndsAt
<1> DEFINE e == b - d
<1>11. e \in C /\ e \in Nat /\ e < b /\ b \in e + 1 .. Len(r)
  BY <1>2, <1>7, <1>10
<1>12. UnitTo(r, e, b)
  BY <1>10, <1>11, UnitIs
<1> HIDE DEF e, Bad
<1>13. CASE e = a
  BY <1>6, <1>7, <1>11, <1>12, <1>13 DEF Next1
<1>14. CASE e > a
  <2>1. Next1(a, e)
    BY <1>8, <1>11, <1>14
  <2>2. PICK q \in C : a < q /\ q <= e /\ UnitTo(r, a, q)
    BY <2>1 DEF Next1
  <2>3. q <= b
    BY <1>2, <1>7, <1>11, <2>2
  <2> QED
    BY <1>6, <2>2, <2>3 DEF Next1
<1>15. CASE e < a
  <2>1. Next1(e, a)
    BY <1>6, <1>8, <1>11, <1>15
  <2>2. PICK q \in C : e < q /\ q <= a /\ UnitTo(r, e, q)
    BY <2>1 DEF Next1
  <2>3. q \in Nat
    BY <1>2
  <2>4. b <= q
    BY <1>7, <1>11, <1>12, <2>2, <2>3, OneUnit
  <2> QED
    BY <1>6, <1>7, <2>2, <2>3, <2>4
<1> QED
  BY <1>7, <1>11, <1>13, <1>14, <1>15

-----------------------------------------------------------------------------
(* Strings in a text r.                                                     *)

StringTo(r, n) == n >= 2 /\ r[1] = 34 /\ r[n] = 34 /\ n - 1 \in Cuts(r)

\* a string by its places
LEMMA StringIs ==
  ASSUME NEW r \in Seq(Byte), NEW n \in 1 .. Len(r)
  PROVE  IsString(SubSeq(r, 1, n)) <=> StringTo(r, n)
<1> DEFINE s == SubSeq(r, 1, n)
<1>1. s \in Seq(Byte) /\ Len(s) = n /\ s[1] = r[1] /\ s[n] = r[n] /\ n \in 0 .. Len(r)
  OBVIOUS
<1>2. n >= 2 => (n - 1 \in Cuts(s) <=> n - 1 \in Cuts(r))
  <2>1. n >= 2 => n - 1 \in 1 .. n
    OBVIOUS
  <2> QED
    BY <1>1, <2>1, CutsOfPiece
<1> HIDE DEF s
<1>3. IsString(s) <=> StringTo(r, n)
  BY <1>1, <1>2 DEF IsString, StringTo
<1> QED
  BY <1>3 DEF s

-----------------------------------------------------------------------------
(* The scanner in a string.                                                 *)

InText == {"quote", "string", "escape"} \cup Tails \cup HexDigits

\* what the scanner knows of the character that begins behind the place p
CharAs(s, r, p, k) ==
    /\ s = "quote"  => p = 1 /\ k = 1
    /\ s = "string" => k = p
    /\ s = "escape" => k = p + 1 /\ r[p + 1] = 92
    /\ s \in HexDigits => r[p + 1] = 92 /\ r[p + 2] = 117
    /\ s = "hex1"   => k = p + 2
    /\ s = "hex2"   => k = p + 3 /\ r[p + 3] \in Hex
    /\ s = "hex3"   => k = p + 4 /\ r[p + 3] \in Hex /\ r[p + 4] \in Hex
    /\ s = "hex4"   => k = p + 5 /\ r[p + 3] \in Hex /\ r[p + 4] \in Hex /\ r[p + 5] \in Hex
    /\ s = "tailE0" => k = p + 1 /\ r[p + 1] = 224
    /\ s = "tailED" => k = p + 1 /\ r[p + 1] = 237
    /\ s = "tailF0" => k = p + 1 /\ r[p + 1] = 240
    /\ s = "tailF4" => k = p + 1 /\ r[p + 1] = 244
    /\ s = "tail3"  => k = p + 1 /\ r[p + 1] \in 241 .. 243
    /\ s = "tail2"  => \/ k = p + 1 /\ r[p + 1] \in (225 .. 239) \ {237}
                       \/ k = p + 2 /\ Four(r[p + 1], r[p + 2])
    /\ s = "tail1"  => \/ k = p + 1 /\ r[p + 1] \in Lead2
                       \/ k = p + 2 /\ Three(r[p + 1], r[p + 2])
                       \/ k = p + 3 /\ Four(r[p + 1], r[p + 2]) /\ r[p + 3] \in Continuation

StringAs(s, r, k) == r[1] = 34 /\ \E p \in Cuts(r) : p <= k /\ CharAs(s, r, p, k)

\* what each state of a string reads
LEMMA ReadsText ==
  ASSUME NEW c \in Byte, NEW t
  PROVE  /\ Reads("quote", c, t)  <=> InString(c, t)
         /\ Reads("string", c, t) <=> InString(c, t)
         /\ Reads("escape", c, t) <=> Escape(c, t)
         /\ \A s \in Tails : Reads(s, c, t) <=> MoreBytes(s, c, t)
         /\ \A s \in HexDigits : Reads(s, c, t) <=> HexDigit(s, c, t)
<1>1. Reads("quote", c, t) <=> AfterQuote(c, t)
  BY DEF Reads, Tails, HexDigits, Words1, Words2, Words3
<1>2. AfterQuote(c, t) <=> InString(c, t)
  BY DEF AfterQuote, InString
<1>3. (Reads("string", c, t) <=> InString(c, t)) /\ (Reads("escape", c, t) <=> Escape(c, t))
  BY DEF Reads, Tails, HexDigits, Words1, Words2, Words3
<1>4. \A s \in Tails : Reads(s, c, t) <=> MoreBytes(s, c, t)
  BY DEF Reads, Tails, HexDigits, Words1, Words2, Words3
<1>5. \A s \in HexDigits : Reads(s, c, t) <=> HexDigit(s, c, t)
  BY DEF Reads, Tails, HexDigits, Words1, Words2, Words3
<1> QED
  BY <1>1, <1>2, <1>3, <1>4, <1>5

\* a byte that is read ends the character or goes on with it
LEMMA CharReads ==
  ASSUME NEW r \in Seq(Byte), NEW p \in Nat \ {0}, NEW k \in Nat, p <= k, k < Len(r),
         NEW s \in InText, NEW t \in InText, CharAs(s, r, p, k), Reads(s, r[k + 1], t)
  PROVE  IF t = "string" THEN UnitTo(r, p, k + 1) ELSE CharAs(t, r, p, k + 1)
<1> DEFINE c == r[k + 1]
<1>0. c \in Byte
  OBVIOUS
<1>a. (p + 1) + 1 = p + 2 /\ (p + 2) + 1 = p + 3 /\ (p + 3) + 1 = p + 4 /\ (p + 4) + 1 = p + 5 /\ (p + 5) + 1 = p + 6
  OBVIOUS
<1>q. t # "quote"
  BY <1>0 DEF Reads, Begin, AfterQuote, InString, Escape, MoreBytes, HexDigit, InText, Tails, HexDigits, Words1, Words2, Words3
<1>1. CASE s \in {"quote", "string"}
  <2>1. k = p /\ InString(c, t)
    BY <1>0, <1>1, ReadsText DEF CharAs
  <2>2. t = "string" => c \in Plain
    BY <2>1 DEF InString, Plain
  <2> QED
    BY <1>q, <2>1, <2>2 DEF InString, CharAs, UnitTo, Lead2, InText, Tails, HexDigits
<1>2. CASE s = "escape"
  <2>1. k = p + 1 /\ r[p + 1] = 92 /\ Escape(c, t)
    BY <1>0, <1>2, ReadsText DEF CharAs
  <2> QED
    BY <1>a, <1>q, <2>1 DEF Escape, CharAs, UnitTo, HexDigits
<1>3. CASE s \in HexDigits
  <2>1. HexDigit(s, c, t) /\ r[p + 1] = 92 /\ r[p + 2] = 117
    BY <1>0, <1>3, ReadsText DEF CharAs
  <2> QED
    BY <1>3, <1>a, <1>q, <2>1 DEF HexDigit, CharAs, UnitTo, HexDigits
<1>4. CASE s \in Tails
  <2>1. MoreBytes(s, c, t)
    BY <1>0, <1>4, ReadsText
  <2>2. CASE s = "tail1"
    BY <1>a, <2>1, <2>2 DEF MoreBytes, CharAs, UnitTo
  <2>3. CASE s = "tail2"
    BY <1>a, <2>1, <2>3 DEF MoreBytes, CharAs, UnitTo, Three, HexDigits
  <2>4. CASE s \in {"tailE0", "tailED"}
    BY <1>a, <2>1, <2>4 DEF MoreBytes, CharAs, UnitTo, Three, HexDigits
  <2>5. CASE s \in {"tailF0", "tailF4", "tail3"}
    BY <1>a, <2>1, <2>5 DEF MoreBytes, CharAs, UnitTo, Four, HexDigits
  <2> QED
    BY <1>4, <2>2, <2>3, <2>4, <2>5 DEF Tails
<1> QED
  BY <1>1, <1>2, <1>3, <1>4 DEF InText

\* the first byte tells how long a character is, and what follows
LEMMA UnitFrom ==
  ASSUME NEW r, NEW p \in Nat, NEW q \in Nat, UnitTo(r, p, q)
  PROVE  /\ r[p + 1] \in Lead2 => q = p + 2 /\ r[p + 2] \in Continuation
         /\ r[p + 1] \in 224 .. 239 => q = p + 3 /\ Three(r[p + 1], r[p + 2]) /\ r[p + 3] \in Continuation
         /\ r[p + 1] \in 240 .. 244 => /\ q = p + 4 /\ Four(r[p + 1], r[p + 2])
                                       /\ r[p + 3] \in Continuation /\ r[p + 4] \in Continuation
<1>1. \A b, c : (Three(b, c) => b \in 224 .. 239) /\ (Four(b, c) => b \in 240 .. 244)
  BY DEF Three, Four
<1> QED
  BY <1>1 DEF UnitTo, Plain, Lead2

\* a byte that goes on with a character is read
LEMMA CharLive ==
  ASSUME NEW r \in Seq(Byte), NEW p \in Nat \ {0}, NEW k \in Nat, p <= k,
         NEW s \in InText, CharAs(s, r, p, k), NEW q \in Nat, q <= Len(r), UnitTo(r, p, q)
  PROVE  k < q /\ \E t \in InText : Reads(s, r[k + 1], t)
<1>a. (p + 1) + 1 = p + 2 /\ (p + 2) + 1 = p + 3 /\ (p + 3) + 1 = p + 4 /\ (p + 4) + 1 = p + 5 /\ (p + 5) + 1 = p + 6
  OBVIOUS
<1>b. 92 \notin Plain /\ 92 \notin Lead2 /\ (\A x : ~Three(92, x) /\ ~Four(92, x)) /\ 117 \notin Escapes
  BY DEF Plain, Lead2, Three, Four, Escapes
<1>c. r[p + 1] \in Byte
  BY DEF UnitTo
<1>u. /\ r[p + 1] \in Lead2 => q = p + 2 /\ r[p + 2] \in Continuation
      /\ r[p + 1] \in 224 .. 239 => q = p + 3 /\ Three(r[p + 1], r[p + 2]) /\ r[p + 3] \in Continuation
      /\ r[p + 1] \in 240 .. 244 => /\ q = p + 4 /\ Four(r[p + 1], r[p + 2])
                                    /\ r[p + 3] \in Continuation /\ r[p + 4] \in Continuation
  BY UnitFrom
<1>t. \A b, c : (Three(b, c) => b \in 224 .. 239) /\ (Four(b, c) => b \in 240 .. 244)
  BY DEF Three, Four
<1>v. /\ \A c : Three(224, c) => c \in 160 .. 191
      /\ \A c : Three(237, c) => c \in 128 .. 159
      /\ \A c : Four(240, c) => c \in 144 .. 191
      /\ \A c : Four(244, c) => c \in 128 .. 143
  BY DEF Three, Four
<1>1. CASE s \in {"quote", "string"}
  <2>1. k = p
    BY <1>1 DEF CharAs
  <2>2. k < q
    BY <2>1 DEF UnitTo
  <2>3. \E t \in InText : InString(r[p + 1], t)
    <3>1. r[p + 1] \in Plain \/ r[p + 1] \in Lead2 \/ r[p + 1] = 92 \/ r[p + 1] \in 224 .. 244
      BY DEF UnitTo, Three, Four
    <3>2. {"string", "tail1", "escape", "tailE0", "tailED", "tail2", "tailF0", "tail3", "tailF4"} \subseteq InText
      BY DEF InText, Tails
    <3> QED
      BY <1>c, <3>1, <3>2 DEF InString, Plain, Lead2
  <2> QED
    BY <1>1, <1>c, <2>1, <2>2, <2>3, ReadsText
<1>2. CASE s = "escape"
  <2>1. k = p + 1 /\ r[p + 1] = 92
    BY <1>2 DEF CharAs
  <2>2. k < q /\ (r[p + 2] \in Escapes \/ r[p + 2] = 117)
    BY <1>b, <2>1 DEF UnitTo
  <2>3. \E t \in InText : Escape(r[k + 1], t)
    BY <1>a, <2>1, <2>2 DEF Escape, InText, HexDigits
  <2>4. r[k + 1] \in Byte
    BY <2>2
  <2> QED
    BY <1>2, <2>2, <2>3, <2>4, ReadsText
<1>3. CASE s \in HexDigits
  <2>1. r[p + 1] = 92 /\ r[p + 2] = 117 /\ k \in p + 2 .. p + 5
    BY <1>3 DEF CharAs, HexDigits
  <2>2. q = p + 6 /\ r[p + 3] \in Hex /\ r[p + 4] \in Hex /\ r[p + 5] \in Hex /\ r[p + 6] \in Hex
    BY <1>b, <2>1 DEF UnitTo
  <2>3. k < q /\ r[k + 1] \in Hex
    <3>1. k = p + 2 \/ k = p + 3 \/ k = p + 4 \/ k = p + 5
      BY <2>1
    <3> QED
      BY <1>a, <2>2, <3>1
  <2>4. \E t \in InText : HexDigit(s, r[k + 1], t)
    BY <1>3, <2>3 DEF HexDigit, InText, HexDigits
  <2>5. r[k + 1] \in Byte
    BY <2>3
  <2> QED
    BY <1>3, <2>3, <2>4, <2>5, ReadsText
<1>4. CASE s \in Tails
  <2>1. SUFFICES k < q /\ \E t \in InText : MoreBytes(s, r[k + 1], t)
    <3>1. k < q => r[k + 1] \in Byte
      OBVIOUS
    <3> QED
      BY <1>4, <2>1, <3>1, ReadsText
  <2>2. {"string", "tail1", "tail2"} \subseteq InText
    BY DEF InText, Tails
  <2>3. CASE s = "tail1"
    <3>1. k < q /\ r[k + 1] \in Continuation
      <4>1. CASE k = p + 1 /\ r[p + 1] \in Lead2
        BY <1>u, <1>a, <4>1
      <4>2. CASE k = p + 2 /\ Three(r[p + 1], r[p + 2])
        BY <1>u, <1>a, <1>t, <4>2
      <4>3. CASE k = p + 3 /\ Four(r[p + 1], r[p + 2])
        BY <1>u, <1>a, <1>t, <4>3
      <4> QED
        BY <2>3, <4>1, <4>2, <4>3 DEF CharAs
    <3> QED
      BY <2>2, <2>3, <3>1 DEF MoreBytes
  <2>4. CASE s = "tail2"
    <3>1. k < q /\ r[k + 1] \in Continuation
      <4>1. CASE k = p + 1 /\ r[p + 1] \in (225 .. 239) \ {237}
        <5>1. r[p + 1] \in 224 .. 239 /\ r[p + 1] # 224 /\ r[p + 1] # 237
          <6> DEFINE Leads == (225 .. 239) \ {237}
          <6>1. \A b \in Leads : b \in 224 .. 239 /\ b # 224 /\ b # 237
            OBVIOUS
          <6>2. r[p + 1] \in Leads
            BY <4>1
          <6> HIDE DEF Leads
          <6> QED
            BY <6>1, <6>2
        <5>2. Three(r[p + 1], r[p + 2]) /\ q = p + 3
          BY <1>u, <5>1
        <5>3. r[p + 2] \in Continuation
          BY <5>1, <5>2 DEF Three
        <5> QED
          BY <1>a, <4>1, <5>2, <5>3
      <4>2. CASE k = p + 2 /\ Four(r[p + 1], r[p + 2])
        BY <1>u, <1>a, <1>t, <4>2
      <4> QED
        BY <2>4, <4>1, <4>2 DEF CharAs
    <3> QED
      BY <2>2, <2>4, <3>1 DEF MoreBytes
  <2>5. CASE s = "tail3"
    <3>1. k < q /\ r[k + 1] \in Continuation
      <4>1. k = p + 1 /\ r[p + 1] \in 241 .. 243
        BY <2>5 DEF CharAs
      <4>2. r[p + 1] \in 240 .. 244
        BY <2>5, <4>1
      <4>3. Four(r[p + 1], r[p + 2]) /\ q = p + 4
        BY <1>u, <4>2
      <4>4. r[p + 2] \in Continuation
        BY <2>5, <4>1, <4>3 DEF Four
      <4> QED
        BY <1>a, <2>5, <4>1, <4>3, <4>4
    <3> QED
      BY <2>2, <2>5, <3>1 DEF MoreBytes
  <2>6. CASE s \in {"tailE0", "tailED"}
    <3>1. k < q /\ (s = "tailE0" => r[k + 1] \in 160 .. 191) /\ (s = "tailED" => r[k + 1] \in 128 .. 159)
      <4>1. k = p + 1 /\ (s = "tailE0" => r[p + 1] = 224) /\ (s = "tailED" => r[p + 1] = 237)
        BY <2>6 DEF CharAs
      <4>2. r[p + 1] \in 224 .. 239
        BY <2>6, <4>1
      <4>3. Three(r[p + 1], r[p + 2]) /\ q = p + 3
        BY <1>u, <4>2
      <4>4. (s = "tailE0" => r[p + 2] \in 160 .. 191) /\ (s = "tailED" => r[p + 2] \in 128 .. 159)
        <5>1. ASSUME s = "tailE0" PROVE Three(224, r[p + 2])
          BY <4>1, <4>3, <5>1
        <5>2. ASSUME s = "tailED" PROVE Three(237, r[p + 2])
          BY <4>1, <4>3, <5>2
        <5> QED
          BY <1>v, <5>1, <5>2
      <4> QED
        BY <1>a, <2>6, <4>1, <4>3, <4>4
    <3> QED
      BY <2>2, <2>6, <3>1 DEF MoreBytes
  <2>7. CASE s \in {"tailF0", "tailF4"}
    <3>1. k < q /\ (s = "tailF0" => r[k + 1] \in 144 .. 191) /\ (s = "tailF4" => r[k + 1] \in 128 .. 143)
      <4>1. k = p + 1 /\ (s = "tailF0" => r[p + 1] = 240) /\ (s = "tailF4" => r[p + 1] = 244)
        BY <2>7 DEF CharAs
      <4>2. r[p + 1] \in 240 .. 244
        BY <2>7, <4>1
      <4>3. Four(r[p + 1], r[p + 2]) /\ q = p + 4
        BY <1>u, <4>2
      <4>4. (s = "tailF0" => r[p + 2] \in 144 .. 191) /\ (s = "tailF4" => r[p + 2] \in 128 .. 143)
        <5>1. ASSUME s = "tailF0" PROVE Four(240, r[p + 2])
          BY <4>1, <4>3, <5>1
        <5>2. ASSUME s = "tailF4" PROVE Four(244, r[p + 2])
          BY <4>1, <4>3, <5>2
        <5> QED
          BY <1>v, <5>1, <5>2
      <4> QED
        BY <1>a, <2>7, <4>1, <4>3, <4>4
    <3> QED
      BY <2>2, <2>7, <3>1 DEF MoreBytes
  <2> QED
    BY <1>4, <2>3, <2>4, <2>5, <2>6, <2>7 DEF Tails
<1> QED
  BY <1>1, <1>2, <1>3, <1>4 DEF InText

\* a byte that is read keeps what the scanner knows of the string
LEMMA StringReads ==
  ASSUME NEW r \in Seq(Byte), NEW k \in Nat, k < Len(r),
         NEW s \in InText, NEW t \in InText, StringAs(s, r, k), Reads(s, r[k + 1], t)
  PROVE  StringAs(t, r, k + 1)
<1>1. CutsOf(Cuts(r), r, Len(r))
  BY CutsAre
<1>2. PICK p \in Cuts(r) : p <= k /\ CharAs(s, r, p, k)
  BY DEF StringAs
<1>3. p \in Nat \ {0}
  BY <1>1 DEF CutsOf
<1>4. IF t = "string" THEN UnitTo(r, p, k + 1) ELSE CharAs(t, r, p, k + 1)
  BY <1>2, <1>3, CharReads
<1>5. CASE t # "string"
  <2>1. p <= k + 1
    BY <1>2, <1>3
  <2> QED
    BY <1>2, <1>4, <1>5, <2>1 DEF StringAs
<1>6. CASE t = "string"
  <2> DEFINE d == k + 1 - p
  <2>1. d \in 1 .. 6 /\ k + 1 - d = p /\ k + 1 \in 1 .. Len(r) /\ k + 1 \in p + 1 .. Len(r)
    BY <1>2, <1>3, <1>4, <1>6 DEF UnitTo
  <2>2. IsUnit(SubSeq(r, p + 1, k + 1))
    BY <1>3, <1>4, <1>6, <2>1, UnitIs
  <2> HIDE DEF d
  <2>3. EndsAt(r, Cuts(r), k + 1)
    BY <1>2, <2>1, <2>2 DEF EndsAt
  <2>4. k + 1 \in Cuts(r)
    BY <1>1, <2>1, <2>3 DEF CutsOf
  <2>5. CharAs(t, r, k + 1, k + 1)
    BY <1>6 DEF CharAs, HexDigits
  <2> QED
    BY <2>4, <2>5 DEF StringAs
<1> QED
  BY <1>5, <1>6

\* the first byte of a string
LEMMA StringBegins ==
  ASSUME NEW r \in Seq(Byte), r # << >>, r[1] = 34
  PROVE  StringAs("quote", r, 1)
<1>1. 1 \in Cuts(r)
  BY CutsAre DEF CutsOf
<1>2. CharAs("quote", r, 1, 1)
  BY DEF CharAs, HexDigits
<1> QED
  BY <1>1, <1>2 DEF StringAs

\* a string that goes on goes on with a byte that is read
LEMMA StringLive ==
  ASSUME NEW r \in Seq(Byte), NEW k \in Nat, NEW s \in InText, StringAs(s, r, k),
         NEW n \in k + 1 .. Len(r), StringTo(r, n)
  PROVE  \E t \in InText \cup {"value_string"} : Reads(s, r[k + 1], t)
<1>1. CutsOf(Cuts(r), r, Len(r))
  BY CutsAre
<1>2. PICK p \in Cuts(r) : p <= k /\ CharAs(s, r, p, k)
  BY DEF StringAs
<1>3. p \in Nat \ {0} /\ n - 1 \in Cuts(r) /\ n - 1 \in Nat /\ n \in Nat
  BY <1>1 DEF CutsOf, StringTo
<1>4. CASE p = n - 1
  <2>1. k = p /\ k + 1 = n
    BY <1>2, <1>3, <1>4
  <2>2. s \in {"quote", "string"}
    BY <1>2, <1>3, <2>1 DEF CharAs, InText, Tails, HexDigits
  <2>3. InString(r[k + 1], "value_string") /\ r[k + 1] \in Byte
    BY <2>1 DEF InString, StringTo
  <2> QED
    BY <2>2, <2>3, ReadsText
<1>5. CASE p # n - 1
  <2>1. p < n - 1 /\ n - 1 <= Len(r)
    BY <1>2, <1>3, <1>5
  <2>2. PICK q \in Cuts(r) : p < q /\ q <= n - 1 /\ UnitTo(r, p, q)
    BY <1>2, <1>3, <2>1, NextCut
  <2>3. q \in Nat /\ q <= Len(r)
    BY <1>1, <2>1, <2>2 DEF CutsOf
  <2>4. \E t \in InText : Reads(s, r[k + 1], t)
    BY <1>2, <1>3, <2>2, <2>3, CharLive
  <2> QED
    BY <2>4
<1> QED
  BY <1>4, <1>5

\* none of the bytes read so far ended a string
LEMMA StringNotYet ==
  ASSUME NEW r \in Seq(Byte), NEW k \in Nat, k <= Len(r), NEW s \in InText, StringAs(s, r, k),
         NEW m \in 1 .. k
  PROVE  ~StringTo(r, m)
<1>1. CutsOf(Cuts(r), r, Len(r))
  BY CutsAre
<1>2. PICK p \in Cuts(r) : p <= k /\ CharAs(s, r, p, k)
  BY DEF StringAs
<1>3. SUFFICES ASSUME StringTo(r, m) PROVE FALSE
  OBVIOUS
<1>4. p \in Nat \ {0} /\ m - 1 \in Cuts(r) /\ m - 1 \in Nat /\ m \in Nat /\ r[m] = 34 /\ (m - 1) + 1 = m
  BY <1>1, <1>3 DEF CutsOf, StringTo
<1>5. CASE m - 1 < p
  <2>1. p <= Len(r)
    BY <1>2, <1>4
  <2>2. PICK q \in Cuts(r) : m - 1 < q /\ q <= p /\ UnitTo(r, m - 1, q)
    BY <1>2, <1>4, <1>5, <2>1, NextCut
  <2>3. q \in Nat
    BY <1>1 DEF CutsOf
  <2>4. r[(m - 1) + 1] # 34
    BY <1>4, <2>2, <2>3, UnitNoQuote
  <2> QED
    BY <1>4, <2>4
<1>6. CASE m - 1 = p
  <2>1. k # p /\ r[p + 1] = 34
    BY <1>4, <1>6
  <2>2. r[p + 1] # 34
    BY <1>2, <2>1 DEF CharAs, InText, Tails, HexDigits, Lead2, Three, Four
  <2> QED
    BY <2>1, <2>2
<1>7. CASE m - 1 > p
  <2>1. m - 1 <= Len(r) /\ p < m - 1
    BY <1>4, <1>7
  <2>2. PICK q \in Cuts(r) : p < q /\ q <= m - 1 /\ UnitTo(r, p, q)
    BY <1>2, <1>4, <2>1, NextCut
  <2>3. q \in Nat /\ q <= Len(r)
    BY <1>1, <2>1, <2>2 DEF CutsOf
  <2>4. k < q
    BY <1>2, <1>4, <2>2, <2>3, CharLive
  <2> QED
    BY <1>4, <2>2, <2>3, <2>4
<1> QED
  BY <1>4, <1>5, <1>6, <1>7

\* the byte that ends a string, and no longer string begins like it
LEMMA StringEnds ==
  ASSUME NEW r \in Seq(Byte), NEW k \in Nat, k < Len(r), NEW s \in InText, StringAs(s, r, k),
         Reads(s, r[k + 1], "value_string")
  PROVE  /\ StringTo(r, k + 1)
         /\ \A m \in k + 2 .. Len(r) : ~StringTo(r, m)
<1>1. CutsOf(Cuts(r), r, Len(r))
  BY CutsAre
<1>2. PICK p \in Cuts(r) : p <= k /\ CharAs(s, r, p, k)
  BY DEF StringAs
<1>0. r[k + 1] \in Byte
  OBVIOUS
<1>3. s \in {"quote", "string"} /\ r[k + 1] = 34
  <2>1. CASE s \in {"quote", "string"}
    BY <1>0, <2>1, ReadsText DEF InString
  <2>2. CASE s = "escape"
    BY <1>0, <2>2, ReadsText DEF Escape
  <2>3. CASE s \in Tails
    <3>1. MoreBytes(s, r[k + 1], "value_string")
      BY <1>0, <2>3, ReadsText
    <3> QED
      BY <3>1 DEF MoreBytes
  <2>4. CASE s \in HexDigits
    <3>1. HexDigit(s, r[k + 1], "value_string")
      BY <1>0, <2>4, ReadsText
    <3> QED
      BY <3>1 DEF HexDigit
  <2> QED
    BY <2>1, <2>2, <2>3, <2>4 DEF InText
<1>4. k = p /\ p \in Nat \ {0} /\ k \in Cuts(r)
  BY <1>1, <1>2, <1>3 DEF CutsOf, CharAs
<1>5. StringTo(r, k + 1)
  BY <1>3, <1>4 DEF StringTo, StringAs
<1>6. ASSUME NEW m \in k + 2 .. Len(r), StringTo(r, m) PROVE FALSE
  <2>1. m - 1 \in Cuts(r) /\ m - 1 \in Nat /\ k < m - 1 /\ m - 1 <= Len(r)
    BY <1>6 DEF StringTo
  <2>2. PICK q \in Cuts(r) : k < q /\ q <= m - 1 /\ UnitTo(r, k, q)
    BY <1>4, <2>1, NextCut
  <2>3. q \in Nat
    BY <1>1 DEF CutsOf
  <2> QED
    BY <1>3, <2>2, <2>3, UnitNoQuote
<1> QED
  BY <1>5, <1>6

-----------------------------------------------------------------------------
(* Words and the other tokens of a text r.                                  *)

InWord == Words1 \cup Words2 \cup Words3 \cup {"fals"}

WordAs(s, r, k) ==
    \/ s = "n" /\ k = 1 /\ r[1] = 110
    \/ s = "nu" /\ k = 2 /\ r[1] = 110 /\ r[2] = 117
    \/ s = "nul" /\ k = 3 /\ r[1] = 110 /\ r[2] = 117 /\ r[3] = 108
    \/ s = "t" /\ k = 1 /\ r[1] = 116
    \/ s = "tr" /\ k = 2 /\ r[1] = 116 /\ r[2] = 114
    \/ s = "tru" /\ k = 3 /\ r[1] = 116 /\ r[2] = 114 /\ r[3] = 117
    \/ s = "f" /\ k = 1 /\ r[1] = 102
    \/ s = "fa" /\ k = 2 /\ r[1] = 102 /\ r[2] = 97
    \/ s = "fal" /\ k = 3 /\ r[1] = 102 /\ r[2] = 97 /\ r[3] = 108
    \/ s = "fals" /\ k = 4 /\ r[1] = 102 /\ r[2] = 97 /\ r[3] = 108 /\ r[4] = 115

\* the kind of token that the first n bytes are, when they begin neither a
\* number nor a string
FixedTo(r, n) ==
    CASE n = 1 /\ r[1] = 44  -> "value_separator"
      [] n = 1 /\ r[1] = 58  -> "name_separator"
      [] n = 1 /\ r[1] = 91  -> "begin_array"
      [] n = 1 /\ r[1] = 93  -> "end_array"
      [] n = 1 /\ r[1] = 123 -> "begin_object"
      [] n = 1 /\ r[1] = 125 -> "end_object"
      [] n = 1 /\ r[1] = 0   -> "end_of_input"
      [] n = 4 /\ r[1] = 110 /\ r[2] = 117 /\ r[3] = 108 /\ r[4] = 108 -> "literal_null"
      [] n = 4 /\ r[1] = 116 /\ r[2] = 114 /\ r[3] = 117 /\ r[4] = 101 -> "literal_true"
      [] n = 5 /\ r[1] = 102 /\ r[2] = 97 /\ r[3] = 108 /\ r[4] = 115 /\ r[5] = 101 -> "literal_false"
      [] OTHER -> "none"

\* the kind of token that they are
KindTo(r, n) ==
    IF r[1] \in Digit \cup {45} THEN IF NumberTo(r, n) THEN "value_number" ELSE "none"
    ELSE IF r[1] = 34 THEN IF StringTo(r, n) THEN "value_string" ELSE "none"
    ELSE FixedTo(r, n)

\* the first byte of a number, from its places
LEMMA NumberFirst ==
  ASSUME NEW r, NEW n \in Nat, NumberTo(r, n)
  PROVE  r[1] \in Digit \cup {45}
<1>1. PICK j \in 1 .. n : MantissaTo(r, j)
  BY DEF NumberTo
<1>2. PICK i \in 1 .. j : IntegerTo(r, i)
  BY <1>1 DEF MantissaTo
<1>3. CASE SignOf(r) = 1
  BY <1>3 DEF SignOf
<1>4. CASE SignOf(r) = 0
  BY <1>2, <1>4 DEF IntegerTo, DigitsIn
<1> QED
  BY <1>3, <1>4, SignType

LEMMA PieceEquals ==
  ASSUME NEW r \in Seq(Byte), NEW n \in 1 .. Len(r), NEW w \in Seq(Byte)
  PROVE  SubSeq(r, 1, n) = w <=> n = Len(w) /\ \A i \in 1 .. n : r[i] = w[i]
  OBVIOUS

\* the other tokens by their places
LEMMA FixedIs ==
  ASSUME NEW r \in Seq(Byte), NEW n \in 1 .. Len(r)
  PROVE  Fixed(SubSeq(r, 1, n)) = FixedTo(r, n)
<1> DEFINE s == SubSeq(r, 1, n)
<1>1. \A b \in Byte : s = <<b>> <=> n = 1 /\ r[1] = b
  <2> TAKE b \in Byte
  <2>1. <<b>> \in Seq(Byte) /\ Len(<<b>>) = 1
    OBVIOUS
  <2> HIDE DEF s
  <2>2. s = <<b>> <=> n = Len(<<b>>) /\ \A i \in 1 .. n : r[i] = <<b>>[i]
    BY <2>1, PieceEquals, ZenonT(30) DEF s
  <2> QED
    BY <2>1, <2>2
<1>2. \A a, b, c, d \in Byte : s = <<a, b, c, d>> <=> n = 4 /\ r[1] = a /\ r[2] = b /\ r[3] = c /\ r[4] = d
  <2> SUFFICES ASSUME NEW a \in Byte, NEW b \in Byte, NEW c \in Byte, NEW d \in Byte
               PROVE  s = <<a, b, c, d>> <=> n = 4 /\ r[1] = a /\ r[2] = b /\ r[3] = c /\ r[4] = d
    OBVIOUS
  <2> DEFINE w == <<a, b, c, d>>
  <2>1. w \in Seq(Byte) /\ Len(w) = 4 /\ w[1] = a /\ w[2] = b /\ w[3] = c /\ w[4] = d
    OBVIOUS
  <2> HIDE DEF s, w
  <2>2. s = w <=> n = Len(w) /\ \A i \in 1 .. n : r[i] = w[i]
    BY <2>1, PieceEquals, Zenon DEF s
  <2>3. s = w <=> n = 4 /\ r[1] = a /\ r[2] = b /\ r[3] = c /\ r[4] = d
    BY <2>1, <2>2
  <2> QED
    BY <2>3 DEF w
<1>3. \A a, b, c, d, e \in Byte : s = <<a, b, c, d, e>> <=>
          n = 5 /\ r[1] = a /\ r[2] = b /\ r[3] = c /\ r[4] = d /\ r[5] = e
  <2> SUFFICES ASSUME NEW a \in Byte, NEW b \in Byte, NEW c \in Byte, NEW d \in Byte, NEW e \in Byte
               PROVE  s = <<a, b, c, d, e>> <=> n = 5 /\ r[1] = a /\ r[2] = b /\ r[3] = c /\ r[4] = d /\ r[5] = e
    OBVIOUS
  <2> DEFINE w == <<a, b, c, d, e>>
  <2>1. w \in Seq(Byte) /\ Len(w) = 5 /\ w[1] = a /\ w[2] = b /\ w[3] = c /\ w[4] = d /\ w[5] = e
    OBVIOUS
  <2> HIDE DEF s, w
  <2>2. s = w <=> n = Len(w) /\ \A i \in 1 .. n : r[i] = w[i]
    BY <2>1, PieceEquals, Zenon DEF s
  <2>3. s = w <=> n = 5 /\ r[1] = a /\ r[2] = b /\ r[3] = c /\ r[4] = d /\ r[5] = e
    BY <2>1, <2>2
  <2> QED
    BY <2>3 DEF w
<1> HIDE DEF s
<1>4. /\ s = <<44>> <=> n = 1 /\ r[1] = 44
      /\ s = <<58>> <=> n = 1 /\ r[1] = 58
      /\ s = <<91>> <=> n = 1 /\ r[1] = 91
      /\ s = <<93>> <=> n = 1 /\ r[1] = 93
      /\ s = <<123>> <=> n = 1 /\ r[1] = 123
      /\ s = <<125>> <=> n = 1 /\ r[1] = 125
      /\ s = <<0>> <=> n = 1 /\ r[1] = 0
  BY <1>1 DEF Byte
<1>5. /\ s = <<110, 117, 108, 108>> <=> n = 4 /\ r[1] = 110 /\ r[2] = 117 /\ r[3] = 108 /\ r[4] = 108
      /\ s = <<116, 114, 117, 101>> <=> n = 4 /\ r[1] = 116 /\ r[2] = 114 /\ r[3] = 117 /\ r[4] = 101
  <2>1. 110 \in Byte /\ 117 \in Byte /\ 108 \in Byte /\ 116 \in Byte /\ 114 \in Byte /\ 101 \in Byte
    BY DEF Byte
  <2>2. s = <<110, 117, 108, 108>> <=> n = 4 /\ r[1] = 110 /\ r[2] = 117 /\ r[3] = 108 /\ r[4] = 108
    BY <1>2, <2>1
  <2>3. s = <<116, 114, 117, 101>> <=> n = 4 /\ r[1] = 116 /\ r[2] = 114 /\ r[3] = 117 /\ r[4] = 101
    BY <1>2, <2>1
  <2> QED
    BY <2>2, <2>3
<1>6. s = <<102, 97, 108, 115, 101>> <=> n = 5 /\ r[1] = 102 /\ r[2] = 97 /\ r[3] = 108 /\ r[4] = 115 /\ r[5] = 101
  <2>1. 102 \in Byte /\ 97 \in Byte /\ 108 \in Byte /\ 115 \in Byte /\ 101 \in Byte
    BY DEF Byte
  <2> QED
    BY <1>3, <2>1
<1>7. Fixed(s) = FixedTo(r, n)
  BY <1>4, <1>5, <1>6 DEF Fixed, FixedTo
<1> QED
  BY <1>7 DEF s

\* Kind by places: the first byte tells which of the three it can be
LEMMA KindIs ==
  ASSUME NEW r \in Seq(Byte), NEW n \in 1 .. Len(r)
  PROVE  Kind(SubSeq(r, 1, n)) = KindTo(r, n)
<1> DEFINE s == SubSeq(r, 1, n)
<1>1. IsNumber(s) <=> NumberTo(r, n)
  BY NumberIs
<1>2. IsString(s) <=> StringTo(r, n)
  BY StringIs
<1>3. Fixed(s) = FixedTo(r, n)
  BY FixedIs
<1>4. NumberTo(r, n) => r[1] \in Digit \cup {45}
  BY NumberFirst
<1>5. StringTo(r, n) => r[1] = 34
  BY DEF StringTo
<1>6. r[1] \in Digit \cup {45, 34} => FixedTo(r, n) = "none"
  <2>1. r[1] \in Digit \cup {45, 34} => r[1] \notin {44, 58, 91, 93, 123, 125, 0, 110, 116, 102}
    <3>1. \A c \in Digit \cup {45, 34} : c \notin {44, 58, 91, 93, 123, 125, 0, 110, 116, 102}
      BY DEF Digit
    <3> QED
      BY <3>1
  <2> QED
    BY <2>1 DEF FixedTo
<1>7. 34 \notin Digit \cup {45}
  BY DEF Digit
<1> HIDE DEF s
<1>8. Kind(s) = KindTo(r, n)
  BY <1>1, <1>2, <1>3, <1>4, <1>5, <1>6, <1>7 DEF Kind, KindTo
<1> QED
  BY <1>8 DEF s

-----------------------------------------------------------------------------
(* The scanner in a word.                                                   *)

\* what each state of a word reads
LEMMA ReadsWord ==
  ASSUME NEW c \in Byte, NEW t, NEW s \in InWord
  PROVE  Reads(s, c, t) <=> \/ s \in Words1 /\ FirstOfWord(s, c, t)
                            \/ s \in Words2 /\ SecondOfWord(s, c, t)
                            \/ s \in Words3 /\ ThirdOfWord(s, c, t)
                            \/ s = "fals" /\ LastOfFalse(c, t)
  BY DEF Reads, InWord, Tails, HexDigits, Words1, Words2, Words3

\* a byte that is read goes on with the word or ends it
LEMMA WordReads ==
  ASSUME NEW r \in Seq(Byte), NEW k \in Nat \ {0}, k < Len(r), NEW s \in InWord, WordAs(s, r, k),
         NEW t, Reads(s, r[k + 1], t)
  PROVE  \/ t \in InWord /\ WordAs(t, r, k + 1)
         \/ t \in Kinds /\ FixedTo(r, k + 1) = t /\ t # "none"
<1>1. r[k + 1] \in Byte
  OBVIOUS
<1>2. \/ s \in Words1 /\ FirstOfWord(s, r[k + 1], t)
      \/ s \in Words2 /\ SecondOfWord(s, r[k + 1], t)
      \/ s \in Words3 /\ ThirdOfWord(s, r[k + 1], t)
      \/ s = "fals" /\ LastOfFalse(r[k + 1], t)
  BY <1>1, ReadsWord
<1>3. CASE s \in Words1 /\ FirstOfWord(s, r[k + 1], t)
  <2>1. k = 1
    BY <1>3 DEF WordAs, Words1
  <2> QED
    BY <1>3, <2>1 DEF WordAs, FirstOfWord, InWord, Words2
<1>4. CASE s \in Words2 /\ SecondOfWord(s, r[k + 1], t)
  <2>1. k = 2
    BY <1>4 DEF WordAs, Words2
  <2> QED
    BY <1>4, <2>1 DEF WordAs, SecondOfWord, InWord, Words3
<1>5. CASE s \in Words3 /\ ThirdOfWord(s, r[k + 1], t)
  <2>1. k = 3
    BY <1>5 DEF WordAs, Words3
  <2> QED
    BY <1>5, <2>1 DEF WordAs, ThirdOfWord, InWord, FixedTo, Kinds
<1>6. CASE s = "fals" /\ LastOfFalse(r[k + 1], t)
  <2>1. k = 4
    BY <1>6 DEF WordAs
  <2> QED
    BY <1>6, <2>1 DEF WordAs, LastOfFalse, InWord, FixedTo, Kinds
<1> QED
  BY <1>2, <1>3, <1>4, <1>5, <1>6

\* a word that goes on goes on with a byte that is read
LEMMA WordLive ==
  ASSUME NEW r \in Seq(Byte), NEW k \in Nat \ {0}, NEW s \in InWord, WordAs(s, r, k),
         NEW n \in k + 1 .. Len(r), FixedTo(r, n) # "none"
  PROVE  \E t \in InWord \cup Kinds : Reads(s, r[k + 1], t)
<1>1. r[k + 1] \in Byte /\ n # 1
  OBVIOUS
<1>2. \/ r[1] = 110 /\ r[2] = 117 /\ r[3] = 108 /\ r[4] = 108
      \/ r[1] = 116 /\ r[2] = 114 /\ r[3] = 117 /\ r[4] = 101
      \/ r[1] = 102 /\ r[2] = 97 /\ r[3] = 108 /\ r[4] = 115 /\ r[5] = 101
  BY <1>1 DEF FixedTo
<1>3. CASE s \in Words1
  <2>1. \E t \in InWord : FirstOfWord(s, r[k + 1], t)
    <3>1. k = 1 /\ k + 1 = 2
      BY <1>3 DEF WordAs, Words1
    <3>2. \/ s = "n" /\ r[k + 1] = 117
          \/ s = "t" /\ r[k + 1] = 114
          \/ s = "f" /\ r[k + 1] = 97
      BY <1>2, <3>1 DEF WordAs
    <3> QED
      BY <3>2 DEF FirstOfWord, InWord, Words2
  <2> QED
    BY <1>1, <1>3, <2>1, ReadsWord
<1>4. CASE s \in Words2
  <2>1. \E t \in InWord : SecondOfWord(s, r[k + 1], t)
    <3>1. k = 2 /\ k + 1 = 3
      BY <1>4 DEF WordAs, Words2
    <3>2. \/ s = "nu" /\ r[k + 1] = 108
          \/ s = "tr" /\ r[k + 1] = 117
          \/ s = "fa" /\ r[k + 1] = 108
      BY <1>2, <3>1 DEF WordAs
    <3> QED
      BY <3>2 DEF SecondOfWord, InWord, Words3
  <2> QED
    BY <1>1, <1>4, <2>1, ReadsWord
<1>5. CASE s \in Words3
  <2>1. \E t \in InWord \cup Kinds : ThirdOfWord(s, r[k + 1], t)
    <3>1. k = 3 /\ k + 1 = 4
      BY <1>5 DEF WordAs, Words3
    <3>2. \/ s = "nul" /\ r[k + 1] = 108
          \/ s = "tru" /\ r[k + 1] = 101
          \/ s = "fal" /\ r[k + 1] = 115
      BY <1>2, <3>1 DEF WordAs
    <3> QED
      BY <3>2 DEF ThirdOfWord, InWord, Kinds
  <2> QED
    BY <1>1, <1>5, <2>1, ReadsWord
<1>6. CASE s = "fals"
  <2>1. LastOfFalse(r[k + 1], "literal_false")
    BY <1>2, <1>6 DEF LastOfFalse, WordAs
  <2> QED
    BY <1>1, <1>6, <2>1, ReadsWord DEF Kinds
<1> QED
  BY <1>3, <1>4, <1>5, <1>6 DEF InWord

\* a word is no token before its last byte
LEMMA WordNotYet ==
  ASSUME NEW r, NEW k \in Nat \ {0}, NEW s \in InWord, WordAs(s, r, k), NEW m \in 1 .. k
  PROVE  FixedTo(r, m) = "none" /\ r[1] \notin Digit \cup {45, 34}
<1>1. r[1] \in {110, 116, 102}
  BY DEF WordAs
<1>2. r[1] = 102 => m < 5
  BY DEF WordAs
<1>3. r[1] # 102 => m < 4
  BY DEF WordAs
<1> QED
  BY <1>1, <1>2, <1>3 DEF FixedTo, Digit

\* one of these tokens is not the beginning of another
LEMMA OneFixed ==
  ASSUME NEW r, NEW k \in Nat, NEW m \in Nat, FixedTo(r, k) # "none", FixedTo(r, m) # "none"
  PROVE  m <= k
  BY DEF FixedTo

-----------------------------------------------------------------------------
(* The whole automaton.                                                     *)

\* what the scanner knows of the first k bytes of r
Known(s, r, k) ==
    /\ s \in InNumber => NumberAs(s, r, k)
    /\ s \in InText => StringAs(s, r, k)
    /\ s \in InWord => WordAs(s, r, k)
    /\ s = "begin" <=> k = 0

\* the states of numbers, strings and words, and the two others
LEMMA ThreeParts ==
  /\ Reading = {"begin", "space"} \cup InNumber \cup InText \cup InWord
  /\ InNumber \cap InText = {} /\ InNumber \cap InWord = {} /\ InText \cap InWord = {}
  /\ {"begin", "space"} \cap (InNumber \cup InText \cup InWord) = {}
  /\ Reading \cap Kinds = {} /\ "none" \notin Kinds
<1> USE DEF InNumber, InText, InWord, Tails, HexDigits, Words1, Words2, Words3
<1>1. Reading = {"begin", "space"} \cup InNumber \cup InText \cup InWord
  BY DEF Reading, Complete, Hopeless, Returning, AfterNumber
<1>2. InNumber \cap InText = {} /\ InNumber \cap InWord = {} /\ InText \cap InWord = {}
  OBVIOUS
<1>3. {"begin", "space"} \cap (InNumber \cup InText \cup InWord) = {}
  OBVIOUS
<1>4. Reading \cap Kinds = {} /\ "none" \notin Kinds
  BY <1>1 DEF Kinds
<1> QED
  BY <1>1, <1>2, <1>3, <1>4

\* a state of a number leads to states of numbers, and one of a string to states of strings
LEMMA StaysNumber ==
  ASSUME NEW c \in Byte, NEW s \in InNumber, NEW t, Reads(s, c, t)
  PROVE  t \in InNumber
<1>1. \/ AfterMinus(c, t) \/ AfterZero(c, t) \/ InInt(c, t) \/ AfterDot(c, t) \/ InFrac(c, t)
      \/ AfterExp(c, t) \/ InExp(c, t)
  BY ReadsNumber DEF InNumber
<1> QED
  BY <1>1 DEF InNumber, AfterMinus, AfterZero, InInt, AfterDot, InFrac, AfterExp, InExp

LEMMA StaysText ==
  ASSUME NEW c \in Byte, NEW s \in InText, NEW t, Reads(s, c, t)
  PROVE  t \in InText \cup {"value_string"}
<1>1. InString(c, t) \/ Escape(c, t) \/ (\E x \in Tails : MoreBytes(x, c, t)) \/ (\E x \in HexDigits : HexDigit(x, c, t))
  BY ReadsText DEF InText
<1>2. InString(c, t) => t \in InText \cup {"value_string"}
  BY DEF InString, InText, Tails
<1>3. Escape(c, t) => t \in InText
  BY DEF Escape, InText, HexDigits
<1>4. (\E x \in Tails : MoreBytes(x, c, t)) => t \in InText
  BY DEF MoreBytes, InText, Tails
<1>5. (\E x \in HexDigits : HexDigit(x, c, t)) => t \in InText
  BY DEF HexDigit, InText, HexDigits
<1> QED
  BY <1>1, <1>2, <1>3, <1>4, <1>5

LEMMA ReadsBegin ==
  ASSUME NEW c, NEW t
  PROVE  Reads("begin", c, t) <=> Begin(c, t)
  BY DEF Reads, Tails, HexDigits, Words1, Words2, Words3

\* the first byte of a token
LEMMA BeginReads ==
  ASSUME NEW r \in Seq(Byte), r # << >>, NEW t \in (Reading \ {"space"}) \cup Kinds, Reads("begin", r[1], t)
  PROVE  IF t \in Kinds THEN KindTo(r, 1) = t ELSE Known(t, r, 1)
<1>0. r[1] \in Byte
  OBVIOUS
<1>1. Begin(r[1], t)
  BY ReadsBegin
<1>2. CASE t \in Kinds
  <2>1. \/ r[1] = 0 /\ t = "end_of_input"
        \/ r[1] = 44 /\ t = "value_separator"
        \/ r[1] = 58 /\ t = "name_separator"
        \/ r[1] = 91 /\ t = "begin_array"
        \/ r[1] = 93 /\ t = "end_array"
        \/ r[1] = 123 /\ t = "begin_object"
        \/ r[1] = 125 /\ t = "end_object"
    BY <1>1, <1>2 DEF Begin, Kinds
  <2>2. r[1] \notin Digit \cup {45} /\ r[1] # 34
    <3>1. \A c \in {0, 44, 58, 91, 93, 123, 125} : c \notin Digit \cup {45} /\ c # 34
      BY DEF Digit
    <3> QED
      BY <2>1, <3>1
  <2>3. FixedTo(r, 1) = t
    BY <2>1 DEF FixedTo
  <2> QED
    BY <1>2, <2>2, <2>3 DEF KindTo
<1>3. CASE t \in InNumber
  <2>1. NumberAs(t, r, 1)
    BY <1>3, NumberBegins
  <2> QED
    BY <1>3, <2>1, ThreeParts DEF Known
<1>4. CASE t \in InText
  <2>1. t = "quote" /\ r[1] = 34
    BY <1>1, <1>4 DEF Begin, InText, Tails, HexDigits
  <2>2. StringAs(t, r, 1)
    BY <2>1, StringBegins
  <2> QED
    BY <1>4, <2>2, ThreeParts DEF Known
<1>5. CASE t \in InWord
  <2>1. \/ r[1] = 102 /\ t = "f"
        \/ r[1] = 110 /\ t = "n"
        \/ r[1] = 116 /\ t = "t"
    BY <1>1, <1>5 DEF Begin, InWord, Words1, Words2, Words3
  <2>2. WordAs(t, r, 1)
    BY <2>1 DEF WordAs
  <2> QED
    BY <1>5, <2>2, ThreeParts DEF Known
<1>6. t # "begin"
  BY <1>1 DEF Begin
<1> QED
  BY <1>2, <1>3, <1>4, <1>5, <1>6, ThreeParts

\* a byte with which some token begins is read
LEMMA BeginLive ==
  ASSUME NEW r \in Seq(Byte), NEW n \in 1 .. Len(r), KindTo(r, n) # "none"
  PROVE  \E t \in Reading \cup Kinds : Reads("begin", r[1], t)
<1>1. r[1] \in Digit \cup {34, 45, 44, 58, 91, 93, 123, 125, 0, 110, 116, 102}
  BY DEF KindTo, FixedTo
<1>2. {"end_of_input", "quote", "value_separator", "minus", "zero", "int", "name_separator", "begin_array",
       "end_array", "f", "n", "t", "begin_object", "end_object"} \subseteq Reading \cup Kinds
  BY DEF Reading, Complete, Hopeless, Words1, Kinds
<1>3. \A c \in Digit : c = 48 \/ c \in 49 .. 57
  BY DEF Digit
<1>4. /\ \A c \in 49 .. 57 : Begin(c, "int")
      /\ Begin(0, "end_of_input") /\ Begin(34, "quote") /\ Begin(44, "value_separator") /\ Begin(45, "minus")
      /\ Begin(48, "zero") /\ Begin(58, "name_separator") /\ Begin(91, "begin_array") /\ Begin(93, "end_array")
      /\ Begin(102, "f") /\ Begin(110, "n") /\ Begin(116, "t") /\ Begin(123, "begin_object")
      /\ Begin(125, "end_object")
  BY DEF Begin
<1> DEFINE Begins(c) == \E t \in Reading \cup Kinds : Begin(c, t)
<1>5. /\ \A c \in 49 .. 57 : Begins(c)
      /\ Begins(0) /\ Begins(34) /\ Begins(44) /\ Begins(45) /\ Begins(48) /\ Begins(58) /\ Begins(91)
      /\ Begins(93) /\ Begins(102) /\ Begins(110) /\ Begins(116) /\ Begins(123) /\ Begins(125)
  BY <1>2, <1>4, SMTT(30)
<1> HIDE DEF Begins
<1>6. \A c \in Digit \cup {34, 45, 44, 58, 91, 93, 123, 125, 0, 110, 116, 102} : Begins(c)
  <2> TAKE c \in Digit \cup {34, 45, 44, 58, 91, 93, 123, 125, 0, 110, 116, 102}
  <2>1. CASE c \in Digit
    BY <2>1, <1>3, <1>5, SMTT(30)
  <2>2. CASE c \in {34, 45, 44, 58, 91, 93, 123, 125, 0, 110, 116, 102}
    BY <2>2, <1>5, SMTT(30)
  <2> QED
    BY <2>1, <2>2
<1>7. Begins(r[1])
  BY <1>1, <1>6, Zenon
<1> QED
  BY <1>7, ReadsBegin DEF Begins

\* the first byte of a number, from what a state knows
LEMMA NumberStarts ==
  ASSUME NEW r, NEW k \in Nat \ {0}, NEW s \in InNumber, NumberAs(s, r, k)
  PROVE  r[1] \in Digit \cup {45}
<1>1. CASE s = "minus"
  BY <1>1 DEF NumberAs
<1>2. CASE s \in Complete
  <2>1. NumberTo(r, k)
    BY <1>2, NumberHere, Zenon
  <2> QED
    BY <2>1, NumberFirst
<1>3. CASE s \in {"dot", "exp", "sign"}
  <2>1. CASE s = "sign"
    <3>1. k - 2 \in Nat \ {0} /\ NumberTo(r, k - 2)
      BY <2>1, NumberHere
    <3> QED
      BY <3>1, NumberFirst
  <2>2. CASE s \in {"dot", "exp"}
    <3>1. k - 1 \in Nat \ {0} /\ NumberTo(r, k - 1)
      BY <2>2, NumberHere
    <3> QED
      BY <3>1, NumberFirst
  <2> QED
    BY <1>3, <2>1, <2>2
<1> QED
  BY <1>1, <1>2, <1>3 DEF InNumber, Complete

LEMMA Firsts == 34 \notin Digit \cup {45}
  BY DEF Digit

\* behind the first byte
LEMMA KnownReads ==
  ASSUME NEW r \in Seq(Byte), NEW k \in Nat, k < Len(r), NEW s \in Reading \ {"space"}, Known(s, r, k),
         NEW t \in Reading \ {"space"}, Reads(s, r[k + 1], t)
  PROVE  Known(t, r, k + 1)
<1>0. r[k + 1] \in Byte /\ k + 1 \in Nat \ {0}
  OBVIOUS
<1>1. CASE s = "begin"
  <2>1. k = 0 /\ r # << >>
    BY <1>1 DEF Known
  <2> QED
    BY <1>1, <2>1, BeginReads, ThreeParts
<1>2. CASE s \in InNumber
  <2>1. k \in Nat \ {0} /\ NumberAs(s, r, k)
    BY <1>2, ThreeParts DEF Known
  <2>2. t \in InNumber
    BY <1>0, <1>2, StaysNumber
  <2>3. NumberAs(t, r, k + 1)
    BY <1>2, <2>1, <2>2, NumberReads
  <2> QED
    BY <1>0, <2>2, <2>3, ThreeParts DEF Known
<1>3. CASE s \in InText
  <2>1. StringAs(s, r, k)
    BY <1>3 DEF Known
  <2>2. t \in InText
    BY <1>0, <1>3, StaysText, ThreeParts DEF Kinds
  <2>3. StringAs(t, r, k + 1)
    BY <1>3, <2>1, <2>2, StringReads
  <2> QED
    BY <1>0, <2>2, <2>3, ThreeParts DEF Known
<1>4. CASE s \in InWord
  <2>1. k \in Nat \ {0} /\ WordAs(s, r, k)
    BY <1>4, ThreeParts DEF Known
  <2>2. t \in InWord /\ WordAs(t, r, k + 1)
    BY <1>4, <2>1, WordReads, ThreeParts
  <2> QED
    BY <1>0, <2>2, ThreeParts DEF Known
<1> QED
  BY <1>1, <1>2, <1>3, <1>4, ThreeParts

\* a token that ends is one, and no longer one is
LEMMA KnownEnds ==
  ASSUME NEW r \in Seq(Byte), NEW k \in Nat, k < Len(r), NEW s \in Reading \ {"space"}, Known(s, r, k),
         NEW t \in Kinds, Reads(s, r[k + 1], t)
  PROVE  /\ KindTo(r, k + 1) = t /\ t # "none"
         /\ \A m \in 1 .. Len(r) : KindTo(r, m) # "none" => m <= k + 1
<1>0. r[k + 1] \in Byte /\ k + 1 \in Nat \ {0}
  OBVIOUS
<1>1. t # "none" /\ t \notin Reading
  BY ThreeParts
<1>2. CASE s = "begin"
  <2>1. k = 0 /\ r # << >>
    BY <1>2 DEF Known
  <2>2. KindTo(r, 1) = t
    <3>1. t \in (Reading \ {"space"}) \cup Kinds /\ Reads("begin", r[1], t)
      BY <1>2, <2>1
    <3> QED
      BY <2>1, <3>1, BeginReads
  <2>3. t \in {"end_of_input", "value_separator", "name_separator", "begin_array", "end_array",
               "begin_object", "end_object"}
    BY <1>2, ReadsBegin DEF Begin, Kinds
  <2>4. r[1] \notin Digit \cup {45} /\ r[1] # 34 /\ FixedTo(r, 1) # "none"
    BY <1>1, <2>2, <2>3 DEF KindTo
  <2>5. ASSUME NEW m \in 1 .. Len(r), KindTo(r, m) # "none" PROVE m <= 1
    BY <2>4, <2>5, OneFixed DEF KindTo
  <2> QED
    BY <1>1, <2>1, <2>2, <2>5
<1>3. CASE s \in InNumber
  BY <1>0, <1>1, <1>3, StaysNumber, ThreeParts
<1>4. CASE s \in InText
  <2>1. StringAs(s, r, k) /\ t = "value_string"
    BY <1>0, <1>1, <1>4, StaysText, ThreeParts DEF Known
  <2>2. r[1] = 34 /\ r[1] \notin Digit \cup {45}
    BY <2>1, Firsts DEF StringAs
  <2>3. StringTo(r, k + 1) /\ \A m \in k + 2 .. Len(r) : ~StringTo(r, m)
    BY <1>4, <2>1, StringEnds
  <2>4. \A m \in 1 .. Len(r) : m <= k + 1 \/ m \in k + 2 .. Len(r)
    OBVIOUS
  <2> QED
    BY <1>1, <2>1, <2>2, <2>3, <2>4 DEF KindTo
<1>5. CASE s \in InWord
  <2>1. k \in Nat \ {0} /\ WordAs(s, r, k)
    BY <1>5, ThreeParts DEF Known
  <2>2. FixedTo(r, k + 1) = t
    BY <1>1, <1>5, <2>1, WordReads, ThreeParts
  <2>3. r[1] \notin Digit \cup {45, 34}
    BY <1>5, <2>1, WordNotYet
  <2>4. ASSUME NEW m \in 1 .. Len(r), KindTo(r, m) # "none" PROVE m <= k + 1
    BY <1>0, <1>1, <2>2, <2>3, <2>4, OneFixed DEF KindTo
  <2> QED
    BY <1>1, <2>2, <2>3, <2>4 DEF KindTo
<1> QED
  BY <1>2, <1>3, <1>4, <1>5, ThreeParts

\* a byte that goes on to a longer token is read
LEMMA KnownLive ==
  ASSUME NEW r \in Seq(Byte), NEW k \in Nat, NEW s \in Reading \ {"space"}, Known(s, r, k),
         NEW n \in k + 1 .. Len(r), KindTo(r, n) # "none"
  PROVE  \E t \in Reading \cup Kinds : Reads(s, r[k + 1], t)
<1>1. CASE s = "begin"
  <2>1. k = 0 /\ n \in 1 .. Len(r)
    BY <1>1 DEF Known
  <2> QED
    BY <1>1, <2>1, BeginLive
<1>2. CASE s \in InNumber
  <2>1. k \in Nat \ {0} /\ NumberAs(s, r, k)
    BY <1>2, ThreeParts DEF Known
  <2>2. NumberTo(r, n)
    BY <1>2, <2>1, NumberStarts DEF KindTo
  <2> QED
    BY <1>2, <2>1, <2>2, NumberLive, ThreeParts
<1>3. CASE s \in InText
  <2>1. StringAs(s, r, k)
    BY <1>3 DEF Known
  <2>2. StringTo(r, n)
    BY <2>1, Firsts DEF KindTo, StringAs
  <2>3. "value_string" \in Kinds
    BY DEF Kinds
  <2>4. \E t \in InText \cup {"value_string"} : Reads(s, r[k + 1], t)
    BY <1>3, <2>1, <2>2, StringLive
  <2> QED
    BY <2>3, <2>4, ThreeParts
<1>4. CASE s \in InWord
  <2>1. k \in Nat \ {0} /\ WordAs(s, r, k)
    BY <1>4, ThreeParts DEF Known
  <2>2. r[1] \notin Digit \cup {45, 34}
    BY <1>4, <2>1, WordNotYet
  <2>3. FixedTo(r, n) # "none"
    BY <2>2 DEF KindTo
  <2>4. \E t \in InWord \cup Kinds : Reads(s, r[k + 1], t)
    BY <1>4, <2>1, <2>3, WordLive
  <2> QED
    BY <2>4, ThreeParts
<1> QED
  BY <1>1, <1>2, <1>3, <1>4, ThreeParts

\* where the scanner stops or goes back to, and what it returns there
LEMMA KnownHere ==
  ASSUME NEW r \in Seq(Byte), NEW k \in Nat, k <= Len(r), NEW s \in Reading \ {"space", "begin"}, Known(s, r, k)
  PROVE  /\ s \in Complete => k \in Nat \ {0} /\ KindTo(r, k) = "value_number"
         /\ s \in {"dot", "exp"} => /\ k - 1 \in Nat \ {0} /\ KindTo(r, k - 1) = "value_number"
                                    /\ KindTo(r, k) = "none"
         /\ s = "sign" => /\ k - 2 \in Nat \ {0} /\ KindTo(r, k - 2) = "value_number"
                          /\ KindTo(r, k - 1) = "none" /\ KindTo(r, k) = "none"
         /\ s \notin Complete \cup AfterNumber => \A m \in 1 .. k : KindTo(r, m) = "none"
<1>1. CASE s \in InNumber
  <2>1. k \in Nat \ {0} /\ NumberAs(s, r, k)
    BY <1>1, ThreeParts DEF Known
  <2>2. r[1] \in Digit \cup {45}
    BY <1>1, <2>1, NumberStarts
  <2>3. /\ s \in Complete => NumberTo(r, k)
        /\ s \in {"dot", "exp"} => k - 1 \in Nat \ {0} /\ NumberTo(r, k - 1) /\ ~NumberTo(r, k)
        /\ s = "sign" => /\ k - 2 \in Nat \ {0} /\ NumberTo(r, k - 2)
                         /\ ~NumberTo(r, k - 1) /\ ~NumberTo(r, k)
        /\ s = "minus" => ~NumberTo(r, k) /\ k = 1
    BY <1>1, <2>1, NumberHere
  <2>4. s \notin Complete \cup AfterNumber => s = "minus"
    BY <1>1 DEF InNumber, Complete, AfterNumber
  <2>5. \A m : KindTo(r, m) = IF NumberTo(r, m) THEN "value_number" ELSE "none"
    BY <2>2 DEF KindTo
  <2>6. s \notin Complete \cup AfterNumber => \A m \in 1 .. k : KindTo(r, m) = "none"
    BY <2>3, <2>4, <2>5
  <2> QED
    BY <2>1, <2>3, <2>5, <2>6
<1>2. CASE s \in InText
  <2>1. StringAs(s, r, k) /\ s \notin Complete \cup AfterNumber
    BY <1>2, ThreeParts DEF Known, InNumber, Complete, AfterNumber
  <2>2. \A m \in 1 .. k : KindTo(r, m) = "none"
    BY <1>2, <2>1, Firsts, StringNotYet DEF KindTo, StringAs
  <2> QED
    BY <2>1, <2>2 DEF AfterNumber
<1>3. CASE s \in InWord
  <2>1. k \in Nat \ {0} /\ WordAs(s, r, k) /\ s \notin Complete \cup AfterNumber
    BY <1>3, ThreeParts DEF Known, InNumber, Complete, AfterNumber
  <2>2. \A m \in 1 .. k : KindTo(r, m) = "none"
    BY <1>3, <2>1, WordNotYet DEF KindTo
  <2> QED
    BY <2>1, <2>2 DEF AfterNumber
<1> QED
  BY <1>1, <1>2, <1>3, ThreeParts

-----------------------------------------------------------------------------
(* The longest token.                                                       *)

\* what is left to scan when a token begins
Rest == SubSeq(text, offset + start, Len(text))

\* LongestToken of the text r, of which the first n bytes are taken as kind
Longest(r, n, kind) ==
    IF r = << >> THEN kind = "end_of_input"
    ELSE IF \A m \in 1 .. Len(r) : KindTo(r, m) = "none" THEN kind = "parse_error"
    ELSE /\ n \in 1 .. Len(r) /\ kind = KindTo(r, n) /\ kind # "none"
         /\ \A m \in 1 .. Len(r) : KindTo(r, m) # "none" => m <= n

Tracks ==
    /\ state \in Reading \ {"space"} => Known(state, Rest, cursor - start)
    /\ state \in {"zero", "int", "frac"} => marker = cursor
    /\ state \in {"dot", "exp"} => marker = cursor - 1
    /\ state = "sign" => marker = cursor - 2

\* Longest is what LongestToken says
LEMMA LongestIs ==
  ASSUME Rest \in Seq(Byte), Longest(Rest, cursor - start, token)
  PROVE  LongestToken
<1> DEFINE r == Rest
           lengths == {n \in 1 .. Len(r) : Kind(SubSeq(r, 1, n)) # "none"}
           k == cursor - start
<1>1. \A n \in 1 .. Len(r) : Kind(SubSeq(r, 1, n)) = KindTo(r, n)
  BY KindIs
<1>2. \A n \in 1 .. Len(r) : n \in lengths <=> KindTo(r, n) # "none"
  BY <1>1
<1>3. \A n \in lengths : n \in 1 .. Len(r)
  OBVIOUS
<1>4. LongestToken <=> (state \in {"ready", "done"} /\ token # "uninitialized" =>
            IF r = << >> THEN token = "end_of_input"
            ELSE IF lengths = {} THEN token = "parse_error"
            ELSE k \in lengths /\ (\A m \in lengths : m <= k) /\ token = Kind(SubSeq(r, 1, k)))
  BY DEF LongestToken, Rest
<1> HIDE DEF lengths, r, k
<1>5. IF r = << >> THEN token = "end_of_input"
      ELSE IF lengths = {} THEN token = "parse_error"
      ELSE k \in lengths /\ (\A m \in lengths : m <= k) /\ token = Kind(SubSeq(r, 1, k))
  <2>1. Longest(r, k, token)
    BY DEF r, k
  <2>2. CASE r = << >>
    BY <2>1, <2>2 DEF Longest
  <2>3. CASE r # << >> /\ \A m \in 1 .. Len(r) : KindTo(r, m) = "none"
    <3>1. lengths = {}
      BY <1>2, <1>3, <2>3
    <3> QED
      BY <2>1, <2>3, <3>1 DEF Longest
  <2>4. CASE r # << >> /\ ~ \A m \in 1 .. Len(r) : KindTo(r, m) = "none"
    <3>1. /\ k \in 1 .. Len(r) /\ token = KindTo(r, k) /\ token # "none"
          /\ \A m \in 1 .. Len(r) : KindTo(r, m) # "none" => m <= k
      BY <2>1, <2>4 DEF Longest
    <3>2. k \in lengths /\ token = Kind(SubSeq(r, 1, k))
      BY <1>1, <1>2, <3>1
    <3>3. \A m \in lengths : m <= k
      BY <1>2, <1>3, <3>1
    <3> QED
      BY <2>4, <3>2, <3>3
  <2> QED
    BY <2>2, <2>3, <2>4
<1> QED
  BY <1>4, <1>5

\* where the scanner is in what is left
LEMMA Place ==
  ASSUME IInv, state \in Reading
  PROVE  /\ Rest \in Seq(Byte) /\ cursor - start \in 0 .. Len(Rest)
         /\ cursor - start < Len(Rest) => Rest[cursor - start + 1] = buf[cursor]
         /\ cursor - start = Len(Rest) => buf[cursor] = 0
         /\ buf[cursor] \in Byte /\ start \in Nat \ {0} /\ cursor \in Nat /\ marker \in Nat
<1> DEFINE a == offset + start
           l == Len(text)
<1>1. /\ text \in Seq(Byte) /\ buf \in Seq(Byte) /\ start \in Nat \ {0} /\ cursor \in Nat /\ marker \in Nat
      /\ offset \in Nat /\ start <= cursor /\ l \in Nat
  BY DEF IInv, Pointers
<1>2. offset + cursor <= l + 1
  BY StatesApart DEF IInv, BeforePad
<1>3. cursor \in 1 .. Len(buf)
  BY <1>1, AheadBound DEF IInv, Room, limit
<1>4. a \in Nat \ {0} /\ a <= l + 1
  BY <1>1, <1>2
<1>5. Rest \in Seq(Byte) /\ Len(Rest) = l - a + 1 /\ \A i \in 1 .. l - a + 1 : Rest[i] = text[a + i - 1]
  <2>1. l \in 0 .. Len(text)
    BY <1>1
  <2> HIDE DEF a, l
  <2> QED
    BY <1>1, <1>4, <2>1, PieceIs DEF Rest, a, l
<1>6. cursor - start \in 0 .. Len(Rest)
  BY <1>1, <1>2, <1>5
<1>7. ASSUME cursor - start < Len(Rest) PROVE Rest[cursor - start + 1] = buf[cursor]
  <2>1. offset + cursor <= l
    BY <1>1, <1>5, <1>7
  <2>2. buf[cursor] = text[offset + cursor]
    BY <1>1, <1>3, <2>1 DEF IInv, BufferIsText
  <2>3. cursor - start + 1 \in 1 .. l - a + 1 /\ a + (cursor - start + 1) - 1 = offset + cursor
    BY <1>1, <1>5, <1>7
  <2> QED
    BY <1>5, <2>2, <2>3
<1>8. ASSUME cursor - start = Len(Rest) PROVE buf[cursor] = 0
  <2>1. offset + cursor = l + 1
    BY <1>1, <1>5, <1>8, SMTT(30)
  <2> QED
    BY <1>1, <1>3, <2>1 DEF IInv, BufferIsText
<1> QED
  BY <1>1, <1>3, <1>5, <1>6, <1>7, <1>8

\* entering a state moves nothing relative to the token
Moved(s, m, c) ==
    /\ Rest' = SubSeq(text, offset + s, Len(text)) /\ cursor' - start' = c - s
    /\ m # 0 /\ m = c => marker' = cursor'
    /\ m # 0 /\ m = c - 1 => marker' = cursor' - 1
    /\ m # 0 /\ m = c - 2 => marker' = cursor' - 2

LEMMA EnterPlaces ==
  ASSUME offset \in Nat, NEW next, NEW s \in Nat, NEW m \in Nat, NEW c \in Nat, Enter(next, s, m, c), text' = text
  PROVE  Moved(s, m, c)
<1>1. CASE limit - c < Need(next)
  <2>1. /\ start' = 1 /\ marker' = (IF m = 0 THEN 1 ELSE m - s + 1)
        /\ cursor' = c - s + 1 /\ offset' = offset + s - 1
    BY <1>1 DEF Enter, FillLineBuffer
  <2>2. offset' + start' = offset + s
    BY <2>1
  <2> QED
    BY <2>1, <2>2 DEF Rest, Moved
<1>2. CASE ~(limit - c < Need(next))
  BY <1>2 DEF Enter, Rest, Moved
<1> QED
  BY <1>1, <1>2

\* the states between a number and what might follow it
LEMMA ReadsMark ==
  ASSUME NEW s \in Reading, NEW c \in Byte, NEW t \in Reading, Reads(s, c, t)
  PROVE  /\ t \in {"dot", "exp"} => s \in {"zero", "int", "frac"}
         /\ t = "sign" => s = "exp"
         /\ t # "space" => s # "space"
  BY DEF Reads, Begin, AfterQuote, InString, Escape, MoreBytes, HexDigit, AfterMinus, AfterZero,
         InInt, AfterDot, InFrac, AfterExp, InExp, FirstOfWord, SecondOfWord, ThirdOfWord,
         LastOfFalse, Reading, Complete, Hopeless, Returning, AfterNumber, Tails, HexDigits, Words1, Words2, Words3

LEMMA SpaceReads ==
  ASSUME NEW c, NEW t, Reads("space", c, t)
  PROVE  t = "space"
  BY DEF Reads, Tails, HexDigits, Words1, Words2, Words3

\* a NUL is read at the beginning of a token only
LEMMA NulBegins ==
  ASSUME NEW s \in Reading, NEW t, Reads(s, 0, t)
  PROVE  s = "begin" /\ t = "end_of_input"
<1>1. t = "end_of_input"
  BY NulStops
<1>2. s = "begin"
  BY <1>1 DEF Reads, AfterQuote, InString, Escape, MoreBytes, HexDigit, AfterMinus, AfterZero, InInt, AfterDot,
      InFrac, AfterExp, InExp, FirstOfWord, SecondOfWord, ThirdOfWord, LastOfFalse
<1> QED
  BY <1>1, <1>2

LEMMA NumberStates ==
  /\ {"zero", "int", "frac", "dot", "exp", "sign"} \subseteq Reading
  /\ {"zero", "int", "frac"} \subseteq Marking /\ {"dot", "exp", "sign"} \cap Marking = {}
  /\ "space" \notin {"zero", "int", "frac", "dot", "exp", "sign"} /\ "space" \in Reading
  BY DEF Reading, Complete, Returning, AfterNumber, Marking, Words1

-----------------------------------------------------------------------------
(* What each step does to it.                                               *)

LEMMA ScanTracks == ASSUME IInv, Scan PROVE LongestToken' /\ Tracks'
<1>1. state' = "begin" /\ text' = text /\ Enter("begin", cursor, 0, cursor)
  BY DEF Scan, Enter
<1>2. cursor \in Nat /\ offset \in Nat
  BY DEF IInv, Pointers
<1>3. cursor' - start' = 0
  <2>1. 0 \in Nat
    OBVIOUS
  <2>2. cursor' - start' = cursor - cursor
    BY <1>1, <1>2, <2>1, EnterPlaces DEF Moved
  <2> QED
    BY <1>2, <2>2
<1>4. Known(state', Rest', cursor' - start')
  BY <1>1, <1>3, ThreeParts DEF Known
<1> QED
  BY <1>1, <1>4, ThreeParts DEF LongestToken, Tracks

LEMMA AdvanceTracks == ASSUME IInv, Tracks, Advance PROVE LongestToken' /\ Tracks'
<1> DEFINE c == buf[cursor]
           k == cursor - start
<1>1. PICK next \in Reading :
          /\ Reads(state, c, next)
          /\ Enter(next, start, IF next \in Marking THEN cursor + 1 ELSE marker, cursor + 1)
  BY DEF Advance
<1> DEFINE m == IF next \in Marking THEN cursor + 1 ELSE marker
<1>2. state \in Reading /\ text' = text /\ state' = next
  BY <1>1 DEF Advance, Enter
<1>3. /\ Rest \in Seq(Byte) /\ k \in 0 .. Len(Rest)
      /\ k < Len(Rest) => Rest[k + 1] = c
      /\ k = Len(Rest) => c = 0
      /\ c \in Byte /\ start \in Nat \ {0} /\ cursor \in Nat /\ marker \in Nat
  BY <1>2, Place
<1>4. c # 0
  BY <1>1, <1>2, NulStops, EndIsNoState
<1>5. k \in Nat /\ k < Len(Rest) /\ Rest[k + 1] = c /\ (cursor + 1) - start = k + 1
  BY <1>3, <1>4
<1>6. /\ next \in {"dot", "exp"} => state \in {"zero", "int", "frac"}
      /\ next = "sign" => state = "exp"
      /\ next # "space" => state # "space"
  BY <1>1, <1>2, <1>3, ReadsMark
<1>7. /\ Rest' = Rest /\ cursor' - start' = k + 1
      /\ m # 0 /\ m = cursor + 1 => marker' = cursor'
      /\ m # 0 /\ m = (cursor + 1) - 1 => marker' = cursor' - 1
      /\ m # 0 /\ m = (cursor + 1) - 2 => marker' = cursor' - 2
  <2> DEFINE d == cursor + 1
  <2>1. offset \in Nat /\ start \in Nat /\ m \in Nat /\ d \in Nat
    BY <1>3 DEF IInv, Pointers
  <2>2. Enter(next, start, m, d)
    BY <1>1
  <2> HIDE DEF m, k, d
  <2>3. Moved(start, m, d)
    BY <1>2, <2>1, <2>2, EnterPlaces
  <2> QED
    BY <1>5, <2>3 DEF Rest, Moved, d
<1>8. next # "space" => Known(next, Rest, k + 1)
  <2> SUFFICES ASSUME next # "space" PROVE Known(next, Rest, k + 1)
    OBVIOUS
  <2>1. state \in Reading \ {"space"} /\ Known(state, Rest, k)
    BY <1>2, <1>6 DEF Tracks
  <2>2. Reads(state, Rest[k + 1], next) /\ next \in Reading \ {"space"}
    BY <1>1, <1>5
  <2> HIDE DEF k
  <2> QED
    BY <1>3, <1>5, <2>1, <2>2, KnownReads
<1>c. cursor \in Nat
  BY <1>3
<1>9. next \in {"zero", "int", "frac"} => marker' = cursor'
  <2> SUFFICES ASSUME next \in {"zero", "int", "frac"} PROVE marker' = cursor'
    OBVIOUS
  <2>1. m = cursor + 1 /\ m # 0
    BY <1>3, NumberStates
  <2> HIDE DEF m
  <2>3. (cursor + 1) - 1 = cursor /\ (cursor + 1) - 2 = cursor - 1
    BY <1>c
  <2> QED
    BY <1>7, <2>1, <2>3
<1>10. next \in {"dot", "exp"} => marker' = cursor' - 1
  <2> SUFFICES ASSUME next \in {"dot", "exp"} PROVE marker' = cursor' - 1
    OBVIOUS
  <2>1. m = marker /\ marker = cursor
    BY <1>6, NumberStates DEF Tracks
  <2>2. cursor # 0
    BY <1>2, AheadBound DEF IInv, Pointers
  <2> HIDE DEF m
  <2>3. (cursor + 1) - 1 = cursor /\ (cursor + 1) - 2 = cursor - 1
    BY <1>c
  <2> QED
    BY <1>7, <2>1, <2>2, <2>3
<1>11. next = "sign" => marker' = cursor' - 2
  <2> SUFFICES ASSUME next = "sign" PROVE marker' = cursor' - 2
    OBVIOUS
  <2>1. m = marker /\ marker = cursor - 1
    BY <1>6, NumberStates DEF Tracks
  <2>2. marker # 0
    <3>1. "exp" \in Marked
      BY DEF Marked, Returning, AfterNumber
    <3> QED
      BY <1>6, <3>1 DEF IInv, Pointers, Marks
  <2> HIDE DEF m
  <2>3. (cursor + 1) - 1 = cursor /\ (cursor + 1) - 2 = cursor - 1
    BY <1>c
  <2> QED
    BY <1>7, <2>1, <2>2, <2>3
<1>12. Tracks'
  BY <1>2, <1>7, <1>8, <1>9, <1>10, <1>11 DEF Tracks
<1> QED
  BY <1>2, <1>12, StatesApart DEF LongestToken

LEMMA ReturnTracks ==
  ASSUME NEW kind, NEW c, Return(kind, c), Rest \in Seq(Byte), Longest(Rest, c - start, kind)
  PROVE  LongestToken' /\ Tracks'
<1>1. /\ state' \in {"ready", "done"} /\ cursor' = c /\ token' = kind
      /\ text' = text /\ start' = start /\ offset' = offset
  BY DEF Return
<1>2. Rest' = Rest
  BY <1>1 DEF Rest
<1>3. Rest' \in Seq(Byte) /\ Longest(Rest', cursor' - start', token')
  BY <1>1, <1>2
<1>4. (Rest \in Seq(Byte) /\ Longest(Rest, cursor - start, token) => LongestToken)'
  BY LongestIs, PTL
<1>5. LongestToken'
  BY <1>3, <1>4
<1>6. Tracks'
  BY <1>1, StatesApart, NumberStates DEF Tracks
<1> QED
  BY <1>5, <1>6

LEMMA AcceptTracks == ASSUME IInv, Tracks, Accept PROVE LongestToken' /\ Tracks'
<1> DEFINE c == buf[cursor]
           k == cursor - start
<1>1. PICK kind \in Kinds : Reads(state, c, kind) /\ Return(kind, cursor + 1)
  BY DEF Accept
<1>2. state \in Reading
  BY DEF Accept
<1>3. /\ Rest \in Seq(Byte) /\ k \in 0 .. Len(Rest)
      /\ k < Len(Rest) => Rest[k + 1] = c
      /\ k = Len(Rest) => c = 0
      /\ start \in Nat \ {0} /\ cursor \in Nat
  BY <1>2, Place
<1>4. state # "space"
  BY <1>1, SpaceReads, NumberStates, ThreeParts
<1>5. Known(state, Rest, k)
  BY <1>2, <1>4 DEF Tracks
<1>6. (cursor + 1) - start = k + 1 /\ k \in Nat
  BY <1>3
<1>7. Longest(Rest, k + 1, kind)
  <2> HIDE DEF c, k
  <2>1. CASE k < Len(Rest)
    <3>1. /\ KindTo(Rest, k + 1) = kind /\ kind # "none"
          /\ \A m \in 1 .. Len(Rest) : KindTo(Rest, m) # "none" => m <= k + 1
      BY <1>1, <1>2, <1>3, <1>4, <1>5, <1>6, <2>1, KnownEnds
    <3>2. k + 1 \in 1 .. Len(Rest) /\ Rest # << >>
      BY <1>6, <2>1
    <3> QED
      BY <3>1, <3>2 DEF Longest
  <2>2. CASE k = Len(Rest)
    <3>1. state = "begin" /\ kind = "end_of_input"
      BY <1>1, <1>2, <1>3, <2>2, NulBegins
    <3>2. Rest = << >>
      BY <1>3, <1>5, <2>2, <3>1 DEF Known
    <3> QED
      BY <3>1, <3>2 DEF Longest
  <2> QED
    BY <1>3, <2>1, <2>2
<1> HIDE DEF c, k
<1> QED
  BY <1>1, <1>3, <1>6, <1>7, ReturnTracks

\* where no byte is read, no longer text is a token
LEMMA NothingLonger ==
  ASSUME IInv, Tracks, Unexpected, state # "space"
  PROVE  /\ state \in Reading /\ Rest \in Seq(Byte) /\ cursor - start \in 0 .. Len(Rest)
         /\ Known(state, Rest, cursor - start)
         /\ \A n \in cursor - start + 1 .. Len(Rest) : KindTo(Rest, n) = "none"
         /\ start \in Nat \ {0} /\ cursor \in Nat /\ marker \in Nat
         /\ state = "begin" => Rest # << >>
<1> DEFINE k == cursor - start
<1>1. state \in Reading \ {"space"} /\ \A t \in Reading \cup Kinds : ~Reads(state, buf[cursor], t)
  BY DEF Unexpected
<1>2. /\ Rest \in Seq(Byte) /\ k \in 0 .. Len(Rest)
      /\ k < Len(Rest) => Rest[k + 1] = buf[cursor]
      /\ k = Len(Rest) => buf[cursor] = 0
      /\ start \in Nat \ {0} /\ cursor \in Nat /\ marker \in Nat
  BY <1>1, Place
<1>3. Known(state, Rest, k)
  BY <1>1 DEF Tracks
<1> HIDE DEF k
<1>4. ASSUME NEW n \in k + 1 .. Len(Rest), KindTo(Rest, n) # "none" PROVE FALSE
  <2>1. k \in Nat /\ k < Len(Rest)
    BY <1>2
  <2>2. \E t \in Reading \cup Kinds : Reads(state, Rest[k + 1], t)
    BY <1>1, <1>2, <1>3, <1>4, <2>1, KnownLive
  <2> QED
    BY <1>1, <1>2, <2>1, <2>2
<1>5. ASSUME state = "begin", Rest = << >> PROVE FALSE
  <2>1. k = Len(Rest)
    BY <1>2, <1>5
  <2>2. Reads("begin", 0, "end_of_input")
    BY ReadsBegin DEF Begin
  <2> QED
    BY <1>1, <1>2, <1>5, <2>1, <2>2 DEF Kinds
<1> QED
  BY <1>1, <1>2, <1>3, <1>4, <1>5 DEF k

LEMMA StopTracks == ASSUME IInv, Tracks, Stop PROVE LongestToken' /\ Tracks'
<1> DEFINE k == cursor - start
<1>1. Unexpected /\ state # "space" /\ state \in Complete \cup Hopeless
  BY DEF Stop, Complete, Hopeless, Words1
<1>2. /\ state \in Reading /\ Rest \in Seq(Byte) /\ k \in 0 .. Len(Rest)
      /\ Known(state, Rest, k)
      /\ \A n \in k + 1 .. Len(Rest) : KindTo(Rest, n) = "none"
      /\ start \in Nat \ {0} /\ cursor \in Nat
      /\ state = "begin" => Rest # << >>
  BY <1>1, NothingLonger
<1>3. k \in Nat /\ \A n \in 1 .. Len(Rest) : n <= k \/ n \in k + 1 .. Len(Rest)
  BY <1>2
<1>4. CASE state \in Complete
  <2>1. Return("value_number", cursor)
    BY <1>4 DEF Stop, Complete, Hopeless, Words1
  <2>2. state \in Reading \ {"space", "begin"}
    BY <1>1, <1>2, <1>4 DEF Complete
  <2> HIDE DEF k
  <2>3. k \in Nat \ {0} /\ KindTo(Rest, k) = "value_number"
    BY <1>2, <1>3, <1>4, <2>2, KnownHere
  <2>4. Rest # << >> /\ k \in 1 .. Len(Rest)
    BY <1>2, <2>3
  <2>5. \A n \in 1 .. Len(Rest) : KindTo(Rest, n) # "none" => n <= k
    BY <1>2, <1>3
  <2>6. Longest(Rest, k, "value_number")
    BY <2>3, <2>4, <2>5 DEF Longest
  <2> QED
    BY <1>2, <2>1, <2>6, ReturnTracks DEF k
<1>5. CASE state \in Hopeless
  <2>1. PICK c : Return("parse_error", c)
    BY <1>5 DEF Stop, Complete, Hopeless, Words1
  <2>2. state \notin Complete \cup AfterNumber
    BY <1>5 DEF Complete, Hopeless, AfterNumber, Words1
  <2> HIDE DEF k
  <2>3. \A m \in 1 .. k : KindTo(Rest, m) = "none"
    <3>1. CASE state = "begin"
      BY <1>2, <3>1 DEF Known
    <3>2. CASE state # "begin"
      <4>1. state \in Reading \ {"space", "begin"} /\ k <= Len(Rest)
        BY <1>1, <1>2, <3>2
      <4> QED
        BY <1>2, <1>3, <2>2, <4>1, KnownHere
    <3> QED
      BY <3>1, <3>2
  <2>4. Rest # << >>
    <3>1. CASE state # "begin"
      <4>1. k # 0
        BY <1>2, <3>1 DEF Known
      <4> QED
        BY <1>2, <4>1
    <3> QED
      BY <1>2, <3>1
  <2>5. \A m \in 1 .. Len(Rest) : KindTo(Rest, m) = "none"
    BY <1>2, <1>3, <2>3
  <2>6. Longest(Rest, c - start, "parse_error")
    BY <2>4, <2>5 DEF Longest
  <2> QED
    BY <1>2, <2>1, <2>6, ReturnTracks
<1> QED
  BY <1>1, <1>4, <1>5

LEMMA BacktrackTracks == ASSUME IInv, Tracks, Backtrack PROVE LongestToken' /\ Tracks'
<1> DEFINE k == cursor - start
           b == marker - start
<1>1. Unexpected /\ state # "space" /\ state \in Returning /\ state \notin Complete /\ state # "begin"
  BY DEF Backtrack, Returning, Complete, AfterNumber, Tails, HexDigits, Words2, Words3
<1>2. /\ state \in Reading /\ Rest \in Seq(Byte) /\ k \in 0 .. Len(Rest)
      /\ Known(state, Rest, k)
      /\ \A n \in k + 1 .. Len(Rest) : KindTo(Rest, n) = "none"
      /\ start \in Nat \ {0} /\ cursor \in Nat /\ marker \in Nat
  BY <1>1, NothingLonger
<1>3. k \in Nat /\ k <= Len(Rest) /\ \A n \in 1 .. Len(Rest) : n <= k \/ n \in k + 1 .. Len(Rest)
  BY <1>2
<1>4. state \in Reading \ {"space", "begin"}
  BY <1>1, <1>2
<1>5. CASE state \in AfterNumber
  <2>1. Return("value_number", marker)
    BY <1>5 DEF Backtrack
  <2>2. /\ state \in {"dot", "exp"} => b = k - 1
        /\ state = "sign" => b = k - 2
    BY <1>2 DEF Tracks
  <2> HIDE DEF k, b
  <2>3. /\ state \in {"dot", "exp"} => /\ k - 1 \in Nat \ {0} /\ KindTo(Rest, k - 1) = "value_number"
                                       /\ KindTo(Rest, k) = "none"
        /\ state = "sign" => /\ k - 2 \in Nat \ {0} /\ KindTo(Rest, k - 2) = "value_number"
                             /\ KindTo(Rest, k - 1) = "none" /\ KindTo(Rest, k) = "none"
    BY <1>2, <1>3, <1>4, KnownHere
  <2>4. b \in 1 .. Len(Rest) /\ KindTo(Rest, b) = "value_number"
    BY <1>3, <1>5, <2>2, <2>3 DEF AfterNumber
  <2>5. ASSUME NEW n \in 1 .. Len(Rest), KindTo(Rest, n) # "none" PROVE n <= b
    <3>1. n <= k
      BY <1>2, <1>3, <2>5
    <3>2. CASE state \in {"dot", "exp"}
      BY <1>3, <2>2, <2>3, <2>5, <3>1, <3>2
    <3>3. CASE state = "sign"
      BY <1>3, <2>2, <2>3, <2>5, <3>1, <3>3
    <3> QED
      BY <1>5, <3>2, <3>3 DEF AfterNumber
  <2>6. Longest(Rest, b, "value_number")
    <3>1. Rest # << >>
      BY <1>2, <2>4
    <3> QED
      BY <2>4, <2>5, <3>1 DEF Longest
  <2> QED
    BY <1>2, <2>1, <2>6, ReturnTracks DEF b
<1>6. CASE state \notin AfterNumber
  <2>1. Return("parse_error", marker)
    BY <1>6 DEF Backtrack
  <2> HIDE DEF k, b
  <2>2. \A m \in 1 .. k : KindTo(Rest, m) = "none"
    BY <1>1, <1>2, <1>3, <1>4, <1>6, KnownHere
  <2>3. \A m \in 1 .. Len(Rest) : KindTo(Rest, m) = "none"
    BY <1>2, <1>3, <2>2
  <2>4. Rest # << >>
    <3>1. k # 0
      BY <1>1, <1>2 DEF Known
    <3> QED
      BY <1>2, <3>1
  <2>5. Longest(Rest, b, "parse_error")
    BY <2>3, <2>4 DEF Longest
  <2> QED
    BY <1>2, <2>1, <2>5, ReturnTracks DEF b
<1> QED
  BY <1>5, <1>6

LEMMA NextTracks == IInv /\ LongestToken /\ Tracks /\ [Next]_vars => LongestToken' /\ Tracks'
<1> SUFFICES ASSUME IInv, LongestToken, Tracks, [Next]_vars PROVE LongestToken' /\ Tracks'
  OBVIOUS
<1>1. CASE Scan
  BY <1>1, ScanTracks
<1>2. CASE Advance
  BY <1>2, AdvanceTracks
<1>3. CASE SkipSpace
  <2>1. state' = "skip"
    BY <1>3 DEF SkipSpace
  <2> QED
    BY <2>1, StatesApart, NumberStates DEF LongestToken, Tracks
<1>4. CASE Accept
  BY <1>4, AcceptTracks
<1>5. CASE Stop
  BY <1>5, StopTracks
<1>6. CASE Backtrack
  BY <1>6, BacktrackTracks
<1>7. CASE UNCHANGED vars
  BY <1>7 DEF vars, LongestToken, Tracks, Rest
<1> QED
  BY <1>1, <1>2, <1>3, <1>4, <1>5, <1>6, <1>7 DEF Next

\* For every text, scan() takes the longest token of RFC 7159, or ends with an
\* error where there is none: the automaton that re2c made, the marker it goes
\* back to and the refills in the middle of a token together.
THEOREM LongestCorrect == Spec => []LongestToken
<1>1. Init => LongestToken /\ Tracks
  BY StatesApart, NumberStates DEF Init, LongestToken, Tracks
<1>2. Init => IInv
  BY InitInv
<1>3. IInv /\ LongestToken /\ Tracks /\ [Next]_vars => (LongestToken /\ Tracks)'
  BY NextTracks
<1>4. Spec => []IInv
  BY Invariance
<1> QED
  BY <1>1, <1>3, <1>4, PTL DEF Spec
=============================================================================
