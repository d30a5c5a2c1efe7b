--------------------------- MODULE KeyboardProofs ---------------------------
(***************************************************************************)
(* Proofs about module Keyboard, for every size of the ring and of the     *)
(* command line.                                                           *)
(***************************************************************************)
EXTENDS Keyboard, SequenceTheorems, TLAPS

N == KB_BUF_SZ

\* Remainders of what the ring's indices are added up to.
LEMMA ModWraps ==
    ASSUME NEW x \in Int, -N < x, x < 2 * N
    PROVE  x % N = IF x < 0 THEN x + N ELSE IF x < N THEN x ELSE x - N
<1>. N \in Nat /\ N > 1
  BY KeyboardAssumption DEF N
<1>1. CASE x < 0
  BY <1>1
<1>2. CASE 0 <= x /\ x < N
  BY <1>2
<1>3. CASE N <= x
  BY <1>3
<1>. QED BY <1>1, <1>2, <1>3

\* What the ring b holds from t up to h, without remainders.
Count(h, t) == IF h >= t THEN h - t ELSE h - t + N

Slot(t, i) == IF t + i - 1 < N THEN t + i - 1 ELSE t + i - 1 - N

Contents(b, h, t) == [i \in 1 .. Count(h, t) |-> b[Slot(t, i)]]

LEMMA IndexFacts ==
    /\ N = KB_BUF_SZ /\ N \in Nat /\ N > 1 /\ Index = 0 .. (N - 1)
    /\ \A h, t \in Index : Count(h, t) \in 0 .. (N - 1) /\ (Count(h, t) = 0 <=> h = t)
    /\ \A t \in Index, i \in 1 .. N : Slot(t, i) \in Index
    /\ \A t \in Index : (t + 1) % N = IF t = N - 1 THEN 0 ELSE t + 1
<1>1. N = KB_BUF_SZ /\ N \in Nat /\ N > 1 /\ Index = 0 .. (N - 1)
  BY KeyboardAssumption DEF N, Index
<1>2. \A h, t \in Index : Count(h, t) \in 0 .. (N - 1) /\ (Count(h, t) = 0 <=> h = t)
  BY <1>1 DEF Count
<1>3. \A t \in Index, i \in 1 .. N : Slot(t, i) \in Index
  BY <1>1 DEF Slot
<1>4. \A t \in Index : (t + 1) % N = IF t = N - 1 THEN 0 ELSE t + 1
  <2>. SUFFICES ASSUME NEW t \in Index
                PROVE  (t + 1) % N = IF t = N - 1 THEN 0 ELSE t + 1
    OBVIOUS
  <2>. DEFINE x == t + 1
  <2>1. x \in Int /\ -N < x /\ x < 2 * N /\ 0 <= x
    BY <1>1
  <2>2. x % N = IF x < N THEN x ELSE x - N
    <3>. HIDE DEF x
    <3>. QED BY <2>1, ModWraps
  <2>. QED BY <1>1, <2>2
<1>. QED BY <1>1, <1>2, <1>3, <1>4

LEMMA RingContents ==
    ASSUME NEW b, NEW h \in Index, NEW t \in Index
    PROVE  [i \in 1 .. ((h - t) % KB_BUF_SZ) |-> b[(t + i - 1) % KB_BUF_SZ]] = Contents(b, h, t)
<1>1. (h - t) % N = Count(h, t) /\ Count(h, t) \in 0 .. (N - 1)
  <2>1. h - t \in Int /\ -N < h - t /\ h - t < 2 * N
    BY IndexFacts
  <2>2. (h - t) % N = IF h - t < 0 THEN h - t + N ELSE IF h - t < N THEN h - t ELSE h - t - N
    BY <2>1, ModWraps
  <2>3. N \in Nat /\ h \in 0 .. (N - 1) /\ t \in 0 .. (N - 1)
    BY IndexFacts
  <2>. QED BY <2>2, <2>3 DEF Count
<1>2. ASSUME NEW i \in 1 .. Count(h, t)
      PROVE  (t + i - 1) % N = Slot(t, i)
  <2>. DEFINE x == t + i - 1
  <2>1. x \in Int /\ -N < x /\ x < 2 * N /\ 0 <= x
    BY <1>1, IndexFacts
  <2>2. x % N = IF x < N THEN x ELSE x - N
    <3>. HIDE DEF x
    <3>. QED BY <2>1, ModWraps
  <2>3. Slot(t, i) = IF x < N THEN x ELSE x - N
    <3>1. t \in Int /\ i \in Int /\ N \in Int
      BY <1>1, IndexFacts
    <3>. QED BY <3>1 DEF Slot
  <2>. QED BY <2>2, <2>3
<1>3. KB_BUF_SZ = N
  BY DEF N
<1>. QED BY <1>1, <1>2, <1>3 DEF Contents

\* A character stored at the head is behind the others.
LEMMA StoreAppends ==
    ASSUME NEW S, NEW b \in [Index -> S], NEW h \in Index, NEW t \in Index, NEW ch \in S,
           (h + 1) % KB_BUF_SZ # t
    PROVE  /\ Contents([b EXCEPT ![h] = ch], (h + 1) % KB_BUF_SZ, t) = Append(Contents(b, h, t), ch)
           /\ Count(h, t) < N - 1
<1>. DEFINE g == (h + 1) % N
            n == Count(h, t)
<1>1. /\ g = (h + 1) % KB_BUF_SZ /\ g \in Index /\ Count(g, t) = n + 1 /\ n \in 0 .. (N - 2)
      /\ Slot(t, n + 1) = h
  BY IndexFacts DEF Count, Slot
<1>2. \A i \in 1 .. n : Slot(t, i) \in Index /\ Slot(t, i) # h
  BY <1>1, IndexFacts DEF Count, Slot
<1>. HIDE DEF g, n
<1>3. Contents(b, h, t) = [i \in 1 .. n |-> b[Slot(t, i)]]
  BY DEF Contents, n
<1>4. Contents(b, h, t) \in Seq(S) /\ Len(Contents(b, h, t)) = n
  <2>1. \A i \in 1 .. n : b[Slot(t, i)] \in S
    BY <1>2
  <2>. QED BY <1>1, <1>3, <2>1, IndexFacts
<1>5. Contents([b EXCEPT ![h] = ch], g, t) = [i \in 1 .. (n + 1) |-> [b EXCEPT ![h] = ch][Slot(t, i)]]
  BY <1>1 DEF Contents
<1>6. \A i \in 1 .. (n + 1) : [b EXCEPT ![h] = ch][Slot(t, i)]
                                = IF i = n + 1 THEN ch ELSE b[Slot(t, i)]
  <2>. SUFFICES ASSUME NEW i \in 1 .. (n + 1)
                PROVE  [b EXCEPT ![h] = ch][Slot(t, i)] = IF i = n + 1 THEN ch ELSE b[Slot(t, i)]
    OBVIOUS
  <2>1. CASE i = n + 1
    BY <1>1, <2>1
  <2>2. CASE i # n + 1
    <3>1. i \in 1 .. n
      BY <1>1, <2>2, IndexFacts
    <3>. QED BY <1>2, <2>2, <3>1
  <2>. QED BY <2>1, <2>2
<1>7. Append(Contents(b, h, t), ch) = [i \in 1 .. (n + 1) |-> IF i = n + 1 THEN ch ELSE b[Slot(t, i)]]
  BY <1>1, <1>3, <1>4
<1>8. Contents([b EXCEPT ![h] = ch], g, t) = Append(Contents(b, h, t), ch)
  BY <1>5, <1>6, <1>7
<1>9. Count(h, t) < N - 1
  BY <1>1, IndexFacts DEF n
<1>. QED BY <1>1, <1>8, <1>9

\* Advancing the tail takes the oldest character.
LEMMA AdvanceTakes ==
    ASSUME NEW S, NEW b \in [Index -> S], NEW h \in Index, NEW t \in Index, h # t
    PROVE  /\ Contents(b, h, t) \in Seq(S) /\ Contents(b, h, t) # <<>>
           /\ Head(Contents(b, h, t)) = b[t]
           /\ Contents(b, h, (t + 1) % KB_BUF_SZ) = Tail(Contents(b, h, t))
<1>. DEFINE u == (t + 1) % N
            n == Count(h, t)
<1>1. /\ u = (t + 1) % KB_BUF_SZ /\ u \in Index /\ Count(h, u) = n - 1 /\ n \in 1 .. (N - 1)
      /\ Slot(t, 1) = t
  BY IndexFacts DEF Count, Slot
<1>n. N \in Nat /\ n \in 1 .. (N - 1) /\ t \in 0 .. (N - 1) /\ u = IF t = N - 1 THEN 0 ELSE t + 1
  BY <1>1, IndexFacts
<1>. HIDE DEF u, n
<1>2. \A i \in 1 .. n : Slot(t, i) \in Index
  <2>1. 1 .. n \subseteq 1 .. N
    BY <1>n
  <2>. QED BY <2>1, IndexFacts
<1>3. \A i \in 1 .. (n - 1) : Slot(u, i) = Slot(t, i + 1)
  BY <1>n DEF Slot
<1>4. Contents(b, h, t) = [i \in 1 .. n |-> b[Slot(t, i)]]
  BY DEF Contents, n
<1>5. Contents(b, h, t) \in Seq(S) /\ Len(Contents(b, h, t)) = n
  <2>1. \A i \in 1 .. n : b[Slot(t, i)] \in S
    BY <1>2
  <2>. QED BY <1>1, <1>4, <2>1, IndexFacts
<1>6. Contents(b, h, u) = [i \in 1 .. (n - 1) |-> b[Slot(u, i)]]
  BY <1>1 DEF Contents
<1>7. Contents(b, h, t) # <<>> /\ Head(Contents(b, h, t)) = b[t]
  <2>1. Contents(b, h, t)[1] = b[t] /\ Len(Contents(b, h, t)) # 0
    BY <1>1, <1>4, <1>5, <1>n
  <2>. QED BY <1>5, <2>1
<1>8. Contents(b, h, u) = Tail(Contents(b, h, t))
  <2>. DEFINE q == Contents(b, h, t)
              r == Contents(b, h, u)
  <2>1. q \in Seq(S) /\ q # <<>> /\ Len(q) = n
    BY <1>5, <1>7
  <2>2. \A i \in 1 .. (n - 1) : r[i] = q[i + 1] /\ r[i] \in S
    <3>. SUFFICES ASSUME NEW i \in 1 .. (n - 1)
                  PROVE  r[i] = q[i + 1] /\ r[i] \in S
      OBVIOUS
    <3>1. i + 1 \in 1 .. n
      BY <1>n
    <3>2. q[i + 1] = b[Slot(t, i + 1)]
      BY <1>4, <3>1
    <3>3. r[i] = b[Slot(u, i)]
      BY <1>6
    <3>4. b[Slot(t, i + 1)] \in S
      BY <1>2, <3>1
    <3>. QED BY <1>3, <3>2, <3>3, <3>4
  <2>3. r \in Seq(S) /\ Len(r) = n - 1
    BY <1>6, <1>n, <2>2
  <2>. HIDE DEF q, r
  <2>4. Tail(q) \in Seq(S) /\ Len(Tail(q)) = n - 1 /\ \A i \in 1 .. (n - 1) : Tail(q)[i] = q[i + 1]
    BY <2>1, HeadTailProperties
  <2>5. r = Tail(q)
    BY <2>2, <2>3, <2>4, SeqEqual
  <2>. QED BY <2>5 DEF q, r
<1>. QED BY <1>1, <1>5, <1>7, <1>8

\* How many characters the ring holds.
LEMMA ContentsLength ==
    ASSUME NEW b, NEW h \in Index, NEW t \in Index
    PROVE  Len(Contents(b, h, t)) = Count(h, t) /\ Count(h, t) \in Nat
<1>1. Count(h, t) \in Nat
  BY IndexFacts
<1>2. Contents(b, h, t) = [i \in 1 .. Count(h, t) |-> b[Slot(t, i)]]
  BY DEF Contents
<1>. QED BY <1>1, <1>2

-----------------------------------------------------------------------------
(***************************************************************************)
(* The character tables and the modifiers.                                 *)
(***************************************************************************)
LEMMA KeyTables ==
    /\ DOMAIN Lower = {"Letter", "Digit", "Enter", "Backspace"}
    /\ \A k \in DOMAIN Lower : Lower[k] \in Char /\ Upper[k] \in Char
    /\ NUL \notin Char
<1>1. DOMAIN Lower = {"Letter", "Digit", "Enter", "Backspace"} /\ DOMAIN Upper = DOMAIN Lower
  BY DEF Lower, Upper
<1>2. \A k \in DOMAIN Lower : Lower[k] \in Char /\ Upper[k] \in Char
  BY <1>1 DEF Char
<1>3. Char \subseteq {"a", "1", "A", "!", "newline", "erase"}
  BY <1>1 DEF Char, Lower, Upper
<1>. QED BY <1>1, <1>2, <1>3 DEF NUL

LEMMA KeyCharType == \A k \in DOMAIN Lower : KeyChar(k) \in Char
  BY KeyTables DEF KeyChar

LEMMA ModifiersType ==
    ASSUME kb_state \subseteq {"SHIFT", "CTRL", "ALT", "CAPS"}, NEW s
    PROVE  Modifiers(s) \subseteq {"SHIFT", "CTRL", "ALT", "CAPS"}
<1>1. ASSUME s \in DOMAIN ModifierDown PROVE ModifierDown[s] \in {"SHIFT", "CTRL", "ALT"}
  BY <1>1 DEF ModifierDown
<1>. QED BY <1>1 DEF Modifiers

-----------------------------------------------------------------------------
(***************************************************************************)
(* The inductive invariant.  Between the check of keyboard_getchar and its *)
(* advance of kb_tail the ring stays non-empty, because the interrupt only *)
(* adds, and the slot read keeps its value, because the interrupt never    *)
(* writes the slot at kb_tail of a ring that is not empty.                 *)
(***************************************************************************)
OnlyChars == Contents(kb_buf, kb_head, kb_tail) \in Seq(Char)

GetcharInv ==
    /\ pc \in {"read", "advance"} => kb_head # kb_tail
    /\ pc = "advance" => c = kb_buf[kb_tail]
    /\ pc \in {"input", "run"} => got \in Char

KeyboardInv == TypeOK /\ OnlyChars /\ GetcharInv

LEMMA WaitingIsContents ==
    ASSUME kb_head \in Index, kb_tail \in Index
    PROVE  Waiting = Contents(kb_buf, kb_head, kb_tail)
  BY RingContents DEF Waiting

LEMMA InitKeyboardInv == Init => KeyboardInv
<1>. SUFFICES ASSUME Init PROVE KeyboardInv
  OBVIOUS
<1>1. 0 \in Index
  BY IndexFacts
<1>2. TypeOK
  BY <1>1 DEF Init, TypeOK
<1>3. OnlyChars
  <2>1. Count(0, 0) = 0
    BY <1>1, IndexFacts
  <2>2. Contents(kb_buf, kb_head, kb_tail) = [i \in 1 .. 0 |-> kb_buf[Slot(kb_tail, i)]]
    BY <2>1 DEF Contents, Init
  <2>. QED BY <2>2 DEF OnlyChars
<1>. QED BY <1>2, <1>3 DEF Init, KeyboardInv, GetcharInv

\* A character that is stored is appended to what waits and leaves the slot
\* at kb_tail of a non-empty ring alone; one that is not stored found the
\* ring full.
LEMMA StoreStep ==
    ASSUME TypeOK, NEW ch \in Char, Store(ch)
    PROVE  /\ kb_buf' \in [Index -> Char \cup {NUL}] /\ kb_head' \in Index /\ kb_tail' = kb_tail
           /\ \/ /\ Count(kb_head, kb_tail) < N - 1
                 /\ Contents(kb_buf', kb_head', kb_tail')
                        = Append(Contents(kb_buf, kb_head, kb_tail), ch)
              \/ /\ Count(kb_head, kb_tail) = N - 1
                 /\ UNCHANGED ring
           /\ kb_head # kb_tail => kb_head' # kb_tail' /\ kb_buf'[kb_tail'] = kb_buf[kb_tail]
<1>. DEFINE next == (kb_head + 1) % KB_BUF_SZ
<1>1. kb_head \in Index /\ kb_tail \in Index /\ kb_buf \in [Index -> Char \cup {NUL}]
  BY DEF TypeOK
<1>2. next \in Index
  BY <1>1, IndexFacts
<1>3. CASE next # kb_tail
  <2>1. kb_buf' = [kb_buf EXCEPT ![kb_head] = ch] /\ kb_head' = next /\ kb_tail' = kb_tail
    BY <1>3 DEF Store
  <2>2. /\ Contents([kb_buf EXCEPT ![kb_head] = ch], next, kb_tail)
             = Append(Contents(kb_buf, kb_head, kb_tail), ch)
        /\ Count(kb_head, kb_tail) < N - 1
    <3>. DEFINE S == Char \cup {NUL}
    <3>1. kb_buf \in [Index -> S] /\ ch \in S
      BY <1>1
    <3>. HIDE DEF S
    <3>. QED BY <1>1, <1>3, <3>1, StoreAppends
  <2>3. Contents(kb_buf', kb_head', kb_tail')
            = Contents([kb_buf EXCEPT ![kb_head] = ch], next, kb_tail)
    BY <2>1
  <2>4. kb_head # kb_tail => kb_head' # kb_tail' /\ kb_buf'[kb_tail'] = kb_buf[kb_tail]
    BY <1>1, <1>3, <2>1
  <2>. QED BY <1>1, <1>2, <2>1, <2>2, <2>3, <2>4
<1>4. CASE next = kb_tail
  <2>1. UNCHANGED ring
    BY <1>4 DEF Store
  <2>2. Count(kb_head, kb_tail) = N - 1
    BY <1>1, <1>4, IndexFacts DEF Count
  <2>. QED BY <1>1, <2>1, <2>2 DEF ring
<1>. QED BY <1>3, <1>4

LEMMA IrqKeeps ==
    ASSUME KeyboardInv, NEW s \in Scancodes, keyboard_irq(s)
    PROVE  KeyboardInv'
<1>1. pc' \in {"check", "read", "advance", "input", "run", "idle", "hlt"}
  BY DEF keyboard_irq, Woken, KeyboardInv, TypeOK
<1>2. pc' \in {"read", "advance", "input", "run"} => pc' = pc
  BY DEF keyboard_irq, Woken
<1>3. kb_state' \subseteq {"SHIFT", "CTRL", "ALT", "CAPS"}
  BY ModifiersType DEF keyboard_irq, KeyboardInv, TypeOK
<1>4. CASE s \in DOMAIN Lower
  <2>1. Store(KeyChar(s)) /\ KeyChar(s) \in Char
    BY <1>4, KeyCharType DEF keyboard_irq
  <2>2. /\ kb_buf' \in [Index -> Char \cup {NUL}] /\ kb_head' \in Index /\ kb_tail' = kb_tail
        /\ \/ Contents(kb_buf', kb_head', kb_tail')
                  = Append(Contents(kb_buf, kb_head, kb_tail), KeyChar(s))
           \/ UNCHANGED ring
        /\ kb_head # kb_tail => kb_head' # kb_tail' /\ kb_buf'[kb_tail'] = kb_buf[kb_tail]
    BY <2>1, StoreStep DEF KeyboardInv
  <2>3. TypeOK'
    BY <1>1, <1>3, <2>2 DEF keyboard_irq, KeyboardInv, TypeOK
  <2>4. OnlyChars'
    BY <2>1, <2>2 DEF OnlyChars, KeyboardInv, ring
  <2>5. GetcharInv'
    BY <1>2, <2>2 DEF GetcharInv, keyboard_irq, KeyboardInv
  <2>. QED BY <2>3, <2>4, <2>5 DEF KeyboardInv
<1>5. CASE s \notin DOMAIN Lower
  <2>1. UNCHANGED ring
    BY <1>5 DEF keyboard_irq
  <2>. QED BY <1>1, <1>2, <1>3, <2>1
        DEF keyboard_irq, ring, KeyboardInv, TypeOK, OnlyChars, GetcharInv
<1>. QED BY <1>4, <1>5

\* The advance of kb_tail hands over the oldest character.
LEMMA AdvanceStep ==
    ASSUME KeyboardInv, GetcharAdvance
    PROVE  /\ Contents(kb_buf, kb_head, kb_tail) # <<>>
           /\ got' = Head(Contents(kb_buf, kb_head, kb_tail)) /\ got' \in Char
           /\ Contents(kb_buf', kb_head', kb_tail') = Tail(Contents(kb_buf, kb_head, kb_tail))
           /\ kb_tail' \in Index
<1>. DEFINE q == Contents(kb_buf, kb_head, kb_tail)
<1>1. kb_head \in Index /\ kb_tail \in Index /\ kb_buf \in [Index -> Char \cup {NUL}]
  BY DEF KeyboardInv, TypeOK
<1>2. kb_head # kb_tail /\ got' = kb_buf[kb_tail]
  BY DEF GetcharAdvance, KeyboardInv, GetcharInv
<1>3. q # <<>> /\ Head(q) = kb_buf[kb_tail]
      /\ Contents(kb_buf, kb_head, (kb_tail + 1) % KB_BUF_SZ) = Tail(q)
  <2>. DEFINE S == Char \cup {NUL}
  <2>1. kb_buf \in [Index -> S]
    BY <1>1
  <2>. HIDE DEF S
  <2>2. kb_head # kb_tail
    BY <1>2
  <2>3. /\ Contents(kb_buf, kb_head, kb_tail) # <<>>
        /\ Head(Contents(kb_buf, kb_head, kb_tail)) = kb_buf[kb_tail]
        /\ Contents(kb_buf, kb_head, (kb_tail + 1) % KB_BUF_SZ)
             = Tail(Contents(kb_buf, kb_head, kb_tail))
    <3>. DEFINE b == kb_buf  h == kb_head  t == kb_tail
    <3>1. b \in [Index -> S] /\ h \in Index /\ t \in Index /\ h # t
      BY <1>1, <2>1, <2>2
    <3>. HIDE DEF b, h, t
    <3>2. Contents(b, h, t) # <<>> /\ Head(Contents(b, h, t)) = b[t]
          /\ Contents(b, h, (t + 1) % KB_BUF_SZ) = Tail(Contents(b, h, t))
      BY <3>1, AdvanceTakes
    <3>. QED BY <3>2 DEF b, h, t
  <2>. QED BY <2>3
<1>4. Contents(kb_buf', kb_head', kb_tail') = Contents(kb_buf, kb_head, (kb_tail + 1) % KB_BUF_SZ)
  BY DEF GetcharAdvance
<1>5. q \in Seq(Char)
  BY DEF KeyboardInv, OnlyChars
<1>6. kb_tail' \in Index
  BY <1>1, IndexFacts DEF GetcharAdvance
<1>. HIDE DEF q
<1>7. Head(q) \in Char
  BY <1>3, <1>5, HeadTailProperties
<1>. QED BY <1>2, <1>3, <1>4, <1>6, <1>7 DEF q

LEMMA AdvanceKeeps ==
    ASSUME KeyboardInv, GetcharAdvance
    PROVE  KeyboardInv'
<1>. DEFINE q == Contents(kb_buf, kb_head, kb_tail)
<1>1. q # <<>> /\ q \in Seq(Char) /\ got' \in Char /\ kb_tail' \in Index
      /\ Contents(kb_buf', kb_head', kb_tail') = Tail(q)
  BY AdvanceStep DEF KeyboardInv, OnlyChars
<1>2. TypeOK'
  BY <1>1 DEF GetcharAdvance, KeyboardInv, TypeOK
<1>3. OnlyChars'
  <2>. HIDE DEF q
  <2>1. Tail(q) \in Seq(Char)
    BY <1>1, HeadTailProperties
  <2>. QED BY <1>1, <2>1 DEF OnlyChars
<1>4. GetcharInv'
  BY <1>1 DEF GetcharInv, GetcharAdvance
<1>. QED BY <1>2, <1>3, <1>4 DEF KeyboardInv

\* Editing keeps Enter and Backspace out of the command line, and leaves room
\* for its terminator.
LEMMA EditedType ==
    ASSUME cmd \in Seq(Char \ {"newline", "erase"}), got \in Char, Len(cmd) < CmdBufSize
    PROVE  Edited \in Seq(Char \ {"newline", "erase"}) /\ Len(Edited) < CmdBufSize
<1>. DEFINE C == Char \ {"newline", "erase"}
<1>1. CASE got = "newline"
  BY <1>1 DEF Edited
<1>2. CASE got = "erase"
  <2>. HIDE DEF C
  <2>1. cmd # <<>> => /\ SubSeq(cmd, 1, Len(cmd) - 1) \in Seq(C)
                      /\ Len(SubSeq(cmd, 1, Len(cmd) - 1)) < CmdBufSize
    <3>1. cmd \in Seq(C) /\ Len(cmd) - 1 \in Int /\ 1 \in Int
      BY DEF C
    <3>2. \A i \in 1 .. (Len(cmd) - 1) : cmd[i] \in C
      BY <3>1
    <3>3. cmd # <<>> => Len(cmd) >= 1
      BY <3>1
    <3>. QED BY <3>1, <3>2, <3>3, SubSeqProperties, KeyboardAssumption
  <2>. QED BY <1>2, <2>1 DEF Edited, C
<1>3. CASE got \notin {"newline", "erase"}
  <2>1. Append(cmd, got) \in Seq(C) /\ Len(Append(cmd, got)) = Len(cmd) + 1
    BY <1>3
  <2>. QED BY <1>3, <2>1, KeyboardAssumption DEF Edited
<1>. QED BY <1>1, <1>2, <1>3

LEMMA KeyboardInvStep == KeyboardInv /\ [Next]_vars => KeyboardInv'
<1>. SUFFICES ASSUME KeyboardInv, [Next]_vars PROVE KeyboardInv'
  OBVIOUS
<1>. USE DEF KeyboardInv
<1>1. ASSUME NEW s \in Scancodes, keyboard_irq(s) PROVE KeyboardInv'
  BY <1>1, IrqKeeps
<1>2. CASE GetcharCheck
  BY <1>2 DEF GetcharCheck, TypeOK, OnlyChars, GetcharInv, ring
<1>3. CASE GetcharRead
  BY <1>3 DEF GetcharRead, TypeOK, OnlyChars, GetcharInv, ring
<1>4. CASE GetcharAdvance
  BY <1>4, AdvanceKeeps
<1>5. CASE shell_input
  <2>1. cmd' \in Seq(Char \ {"newline", "erase"}) /\ Len(cmd') < CmdBufSize
    BY <1>5, EditedType DEF shell_input, TypeOK, GetcharInv
  <2>. QED BY <1>5, <2>1 DEF shell_input, TypeOK, OnlyChars, GetcharInv, ring
<1>6. CASE CommandReturns
  BY <1>6, KeyboardAssumption DEF CommandReturns, TypeOK, OnlyChars, GetcharInv, ring
<1>7. CASE Halt
  BY <1>7 DEF Halt, TypeOK, OnlyChars, GetcharInv, ring
<1>8. CASE TimerWakes
  BY <1>8 DEF TimerWakes, TypeOK, OnlyChars, GetcharInv, ring
<1>9. CASE UNCHANGED vars
  BY <1>9 DEF vars, TypeOK, OnlyChars, GetcharInv
<1>. QED BY <1>1, <1>2, <1>3, <1>4, <1>5, <1>6, <1>7, <1>8, <1>9 DEF Next, MainLoop

\* The type invariant and the facts that keyboard_getchar relies on between
\* its accesses to the ring hold in every reachable state.
THEOREM KeyboardInvariant == Spec => []KeyboardInv
  BY InitKeyboardInv, KeyboardInvStep, PTL DEF Spec

\* Whatever interrupts come, the ring's indices stay inside it, and the command
\* line stays inside its buffer with room for the terminator, and holds neither
\* Enter nor Backspace.
THEOREM KeyboardTypeOK == Spec => []TypeOK
<1>1. KeyboardInv => TypeOK
  BY DEF KeyboardInv
<1>. QED BY <1>1, KeyboardInvariant, PTL

-----------------------------------------------------------------------------
(***************************************************************************)
(* The driver implements the queue.                                        *)
(***************************************************************************)
LEMMA InitIsQueue == Init => Queue!Init
<1>. SUFFICES ASSUME Init PROVE Queue!Init
  OBVIOUS
<1>1. kb_head = 0 /\ kb_tail = 0 /\ 0 \in Index /\ Count(0, 0) = 0
  BY IndexFacts DEF Init
<1>2. Waiting = Contents(kb_buf, kb_head, kb_tail)
  BY <1>1, WaitingIsContents
<1>3. Waiting = [i \in 1 .. 0 |-> kb_buf[Slot(kb_tail, i)]]
  BY <1>1, <1>2 DEF Contents
<1>4. Waiting = <<>>
  BY <1>3
<1>. QED BY <1>4 DEF Queue!Init, Init

\* An interrupt puts its character behind the waiting ones, unless the ring
\* is full, and changes nothing of the queue otherwise.
LEMMA IrqIsPut ==
    ASSUME KeyboardInv, NEW s \in Scancodes, keyboard_irq(s)
    PROVE  /\ got' = got
           /\ \/ s \notin DOMAIN Lower /\ Waiting' = Waiting
              \/ /\ s \in DOMAIN Lower /\ Len(Waiting) < KB_BUF_SZ - 1
                 /\ Waiting' = Append(Waiting, KeyChar(s))
              \/ /\ s \in DOMAIN Lower /\ Len(Waiting) = KB_BUF_SZ - 1
                 /\ Waiting' = Waiting
<1>1. kb_head \in Index /\ kb_tail \in Index /\ kb_head' \in Index /\ kb_tail' \in Index
  BY IrqKeeps DEF KeyboardInv, TypeOK
<1>2. /\ Waiting = Contents(kb_buf, kb_head, kb_tail)
      /\ Waiting' = Contents(kb_buf', kb_head', kb_tail')
  BY <1>1, RingContents DEF Waiting
<1>3. Len(Waiting) = Count(kb_head, kb_tail) /\ N = KB_BUF_SZ
  BY <1>1, <1>2, ContentsLength DEF N
<1>4. CASE s \in DOMAIN Lower
  <2>1. Store(KeyChar(s)) /\ KeyChar(s) \in Char
    BY <1>4, KeyCharType DEF keyboard_irq
  <2>2. \/ /\ Count(kb_head, kb_tail) < N - 1
           /\ Contents(kb_buf', kb_head', kb_tail')
                  = Append(Contents(kb_buf, kb_head, kb_tail), KeyChar(s))
        \/ /\ Count(kb_head, kb_tail) = N - 1
           /\ UNCHANGED ring
    BY <2>1, StoreStep DEF KeyboardInv
  <2>. QED BY <1>2, <1>3, <1>4, <2>2 DEF keyboard_irq, ring
<1>5. CASE s \notin DOMAIN Lower
  BY <1>2, <1>5 DEF keyboard_irq, ring
<1>. QED BY <1>4, <1>5

LEMMA RingUnchanged ==
    ASSUME UNCHANGED ring
    PROVE  Waiting' = Waiting
  BY DEF ring, Waiting

LEMMA StepIsQueueStep ==
    KeyboardInv /\ [Next]_vars => [Queue!Next]_<<Waiting, got>>
<1>. SUFFICES ASSUME KeyboardInv, [Next]_vars PROVE [Queue!Next]_<<Waiting, got>>
  OBVIOUS
<1>1. ASSUME NEW s \in Scancodes, keyboard_irq(s) PROVE [Queue!Next]_<<Waiting, got>>
  <2>1. s \in DOMAIN Lower => KeyChar(s) \in Char
    BY KeyCharType
  <2>2. CASE s \in DOMAIN Lower /\ Len(Waiting) < KB_BUF_SZ - 1
    <3>1. Queue!Put(KeyChar(s))
      BY <1>1, <2>2, IrqIsPut DEF Queue!Put
    <3>. QED BY <2>1, <2>2, <3>1 DEF Queue!Next
  <2>3. CASE ~(s \in DOMAIN Lower /\ Len(Waiting) < KB_BUF_SZ - 1)
    BY <1>1, <2>3, IrqIsPut
  <2>. QED BY <2>2, <2>3
<1>2. CASE GetcharAdvance
  <2>1. kb_head \in Index /\ kb_tail \in Index /\ kb_head' \in Index /\ kb_tail' \in Index
    BY <1>2, AdvanceKeeps DEF KeyboardInv, TypeOK
  <2>2. /\ Waiting = Contents(kb_buf, kb_head, kb_tail)
        /\ Waiting' = Contents(kb_buf', kb_head', kb_tail')
    BY <2>1, RingContents DEF Waiting
  <2>3. Queue!Get
    BY <1>2, <2>2, AdvanceStep DEF Queue!Get
  <2>. QED BY <2>3 DEF Queue!Next
<1>3. CASE GetcharCheck \/ GetcharRead \/ shell_input \/ CommandReturns \/ Halt \/ TimerWakes
  BY <1>3, RingUnchanged
     DEF GetcharCheck, GetcharRead, shell_input, CommandReturns, Halt, TimerWakes
<1>4. CASE UNCHANGED vars
  BY <1>4, RingUnchanged DEF vars, ring
<1>. QED BY <1>1, <1>2, <1>3, <1>4 DEF Next, MainLoop

\* Whatever interrupts fall between the accesses of keyboard_getchar, the
\* driver with a ring of any size is a first-in first-out queue of one
\* character less.
THEOREM KeyboardIsQueue == Spec => QueueSpec
<1>1. Spec => Queue!Init
  BY InitIsQueue DEF Spec
<1>2. Spec => [][Queue!Next]_<<Waiting, got>>
  BY StepIsQueueStep, KeyboardInvariant, PTL DEF Spec
<1>. QED BY <1>1, <1>2 DEF QueueSpec, Queue!Spec

\* The interrupt drops a character only if KB_BUF_SZ - 1 are waiting.
THEOREM KeyboardLosesOnlyIfFull == Spec => LostOnlyIfFull
<1>1. KeyboardInv =>
        [\A s \in Scancodes \cap DOMAIN Lower :
            keyboard_irq(s) /\ Len(Waiting) < KB_BUF_SZ - 1
                => Waiting' = Append(Waiting, KeyChar(s))]_vars
  <2>. SUFFICES ASSUME KeyboardInv, NEW s \in Scancodes \cap DOMAIN Lower,
                       keyboard_irq(s), Len(Waiting) < KB_BUF_SZ - 1
                PROVE  Waiting' = Append(Waiting, KeyChar(s))
    OBVIOUS
  <2>. QED BY IrqIsPut
<1>. QED BY <1>1, KeyboardInvariant, PTL DEF LostOnlyIfFull

=============================================================================
